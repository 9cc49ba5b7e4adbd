SPECIFICATION Spec
CONSTANTS
  Null = Null
  NoFact = Null
  Absent = Null
  one = one
  coin = coin
  token = token
  contract = contract
  program = program
  home = home
  away = away
  Call = {one}
  historySymbols <- MCHistorySymbols
  PAGE_SIZE = 2
  DayLength = 4
  Histories <- MCHistories
  MaxTime = 9
  MaxOrders = 4
  MaxFills = 4
  Gains <- MCGains
  Price = {6, 12}
  Limits <- MCLimits
  Requests <- MCRequests
  MAX_COLLECTION_AGE = 1
  credential = home
  Garbled <- MCGarbled
  Rules <- MCRules
  Contracts = {contract}
  Programs = {program}
  Bounds <- MCBounds
  ServiceCap <- MCServiceCap
  Unlimited = 3
INVARIANTS
  HistoryIsComplete
  StatsAreReal
  AutomaticInsideEnvelope
  PolicyIsUnderstood
PROPERTIES
  PassesOnCurrentFacts
  PassesWithinTheDay
  EvaluationEnds
CHECK_DEADLOCK FALSE
