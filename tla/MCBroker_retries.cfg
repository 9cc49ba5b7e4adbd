SPECIFICATION Spec
CONSTANTS
  Null = Null
  order = order
  rival = rival
  orderKey = orderKey
  otherKey = otherKey
  cancel = cancel
  ask = ask
  x = x
  y = y
  Proc = {p1, p2}
  Call = {c1, c2, c3}
  Intent = {order, rival}
  Key = {orderKey}
  ScopedKey <- MCScopedKey
  Verdict <- MCVerdict
  Event <- MCEvent
  Approval = {}
  OneTime = {}
  Decision <- MCRetryDecision
  Correlation = {x, y}
  ApprovalIntent <- MCApprovalIntent
  ApprovalCorrelation <- MCApprovalCorrelation
  Cancel = {}
  StatusQuery = {}
  Reading = {}
  Deferred = {order}
  CanaryOrder = {}
  CanaryLive = FALSE
  Scope = {}
  ScopesOf <- MCScopesOf
SYMMETRY Identical
INVARIANTS
  AtMostOneSubmission
  TerminalIsAudited
  AnswersAgree
PROPERTIES
  ImplementsOnceOnly
CHECK_DEADLOCK FALSE
