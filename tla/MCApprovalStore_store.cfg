SPECIFICATION Spec
CONSTANTS
  Proc = {p1, p2}
  Approval = {once, board, other}
  OneTime = {once}
  Null = Null
  Fault = {"file", "audit", "rollback", "save", "commit", "crash"}
CONSTRAINT AtMostTwoRequests
SYMMETRY Identical
INVARIANTS
  TypeOK
  DecisionIsAudited
  OnboardedHasEntry
  EntryOnlyIfApproved
PROPERTIES
  ImplementsLifecycle
CHECK_DEADLOCK FALSE
