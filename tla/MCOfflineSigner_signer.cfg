SPECIFICATION Spec
CONSTANTS
  Null = Null
  first = first
  again = again
  Call = {c1, c2, c3}
  Request <- MCRequest
  Key = {1, 2}
  IntentId = {1, 2}
  Nonce = {0, 1}
  Fees = {1, 2}
  Approval = {first, again}
SYMMETRY Identical
INVARIANTS
  OneSignature
  AnswersAreOnRecord
CHECK_DEADLOCK FALSE
