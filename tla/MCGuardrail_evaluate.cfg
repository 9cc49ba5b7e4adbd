SPECIFICATION FairSpec
CONSTANTS
  i1 = i1
  bait = bait
  bad = bad
  s1 = s1
  Null = Null
  Call = {c1, c2}
  Intent = {i1, bait, bad}
  Scope = {s1}
  ScopeOf <- Scopes
  Invalid = {bad}
  Unsafe = {bait}
  Approval = {a1, a2}
  OneTime = {a1, a2}
  Fault = {"audit", "create", "delete"}
  MaxRestarts = 1
INVARIANTS
  AnsweredIsAudited
  AnsweredApprovalExists
  EvaluationIsRecorded
  OneDecisionPerScope
  RequestsAreAnswered
PROPERTIES
  EveryCallEnds
CHECK_DEADLOCK FALSE
