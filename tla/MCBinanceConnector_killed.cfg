SPECIFICATION Spec
CONSTANTS
  Null = Null
  buy = buy
  sell = sell
  manage = manage
  coin = coin
  retired = retired
  Call = {buy, sell, manage}
  Intent <- MCIntent
  AllowedSymbols = {coin}
  HistorySymbols = {coin, retired}
  MaxLeverage = 2
  AccountLeverage = {3}
  RoundedUp <- MCRoundedUp
  RoundedDown = {}
  Testnet = FALSE
  Permissions <- MCPermissions
  MaxAge = 0
  Prices = {1, 2}
PROPERTIES
  OrderLeavesWhenClear
CHECK_DEADLOCK FALSE
