SPECIFICATION SpecConnectors
CONSTANTS
  Null = Null
  buy = buy
  sell = sell
  manage = manage
  coin = coin
  retired = retired
  Call = {buy, sell, manage}
  Intent <- MCIntent
  AllowedSymbols = {coin}
  HistorySymbols = {coin, retired}
  MaxLeverage = 2
  AccountLeverage = {3}
  RoundedUp <- MCRoundedUp
  RoundedDown = {}
  Testnet = FALSE
  Permissions <- MCPermissions
  MaxAge = 0
  Prices = {1, 2}
  None = None
  us = us
  them = them
  usd = usd
  stranger = stranger
  usdc = usdc
  payer = payer
  vault = vault
  Fork <- MCFork
  Account = {us, them, usd, stranger}
  Token = {usd}
  StatePlace <- MCStatePlace
  pre <- MCpre
  post <- MCpost
  balanceOfReads <- MCbalanceOfReads
  Reverting = {"reverts"}
  HasAllowance = {usd}
  HasSupply = {usd}
  MaxSlot = 4
  Key = {payer, vault}
  before <- MCbefore
  after <- MCafter
  Failing = {}
  Request <- MCRequest
  Environment = "mainnet"
  Signer = us
  CanSign = TRUE
  AllowedContracts = {usd}
  AllowedFunctions = {"transfer", "approve"}
  AllowedTokens = {usd}
  AllowedSpenders = {them}
  AllowedRecipients = {them}
  AllowedPrograms = {"token"}
  AllowedMints = {usdc}
  AllowedAccounts = {payer, vault}
  MaxReorgs = 2
  Unlimited = 3
INVARIANTS
  NotSubmittedMeansNothingSent
  LeverageIsBounded
  ReliableEvidenceIsTrue
  SignedAsApproved
PROPERTIES
  FalseAlarmOnlyByRounding
  ActsOnFreshFacts
CHECK_DEADLOCK FALSE
