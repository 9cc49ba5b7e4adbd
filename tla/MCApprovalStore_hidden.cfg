SPECIFICATION Spec
CONSTANTS
  Proc = {p1, p2}
  Approval = {board, other}
  OneTime = {}
  Null = Null
  Fault = {"crash"}
SYMMETRY Identical
INVARIANTS
  EntryIsRecorded
CHECK_DEADLOCK FALSE
