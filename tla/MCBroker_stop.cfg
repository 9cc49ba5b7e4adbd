SPECIFICATION FairSpec
CONSTANTS
  Null = Null
  order = order
  rival = rival
  orderKey = orderKey
  otherKey = otherKey
  cancel = cancel
  ask = ask
  x = x
  y = y
  Proc = {p1}
  Call = {c1, c2}
  Intent = {order, rival, cancel}
  Key = {orderKey, otherKey}
  ScopedKey <- MCTwoKeys
  Verdict <- MCVerdict
  Event <- MCEvent
  Approval = {}
  OneTime = {}
  Decision <- MCStopDecision
  Correlation = {x}
  ApprovalIntent <- MCApprovalIntent
  ApprovalCorrelation <- MCApprovalCorrelation
  Cancel = {cancel}
  StatusQuery = {}
  Reading = {}
  Deferred = {rival}
  CanaryOrder = {order}
  CanaryLive = TRUE
  Scope = {"account"}
  ScopesOf <- MCScopesOf
PROPERTIES
  HeldByStop
  EveryCallEnds
CHECK_DEADLOCK FALSE
