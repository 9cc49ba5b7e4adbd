SPECIFICATION Spec
CONSTANTS
  Null = Null
  order = order
  rival = rival
  orderKey = orderKey
  otherKey = otherKey
  cancel = cancel
  ask = ask
  x = x
  y = y
  Proc = {p1, p2}
  Call = {c1, c2}
  Intent = {order, rival}
  Key = {orderKey, otherKey}
  ScopedKey <- MCTwoKeys
  Verdict <- MCVerdict
  Event <- MCEvent
  Approval = {ask}
  OneTime = {ask}
  Decision <- MCHumanDecision
  Correlation = {x, y}
  ApprovalIntent <- MCApprovalIntent
  ApprovalCorrelation <- MCApprovalCorrelation
  Cancel = {}
  StatusQuery = {rival}
  Reading = {rival}
  Deferred = {order}
  CanaryOrder = {}
  CanaryLive = FALSE
  Scope = {}
  ScopesOf <- MCScopesOf
SYMMETRY Identical
INVARIANTS
  TypeOK
  UnsentStaysUnsent
  ApprovalSpentOnce
CHECK_DEADLOCK FALSE
