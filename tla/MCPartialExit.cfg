SPECIFICATION Spec
CONSTANTS
  c1 = c1
  c2 = c2
  wbnb = wbnb
  busd = busd
  usdt = usdt
  Clients = {c1, c2}
  QuoteTokens = {wbnb, busd, usdt}
  Kind <- MCKind
  Native = wbnb
  NoAddress = NoAddress
  Prices = {2, 3}
  FeedPrices = {1}
  NaN = NaN
  Null = Null
  Ttl = 2
  Flight = 1
  MaxRetry = 1
  Unit = 6
  MinBudget = 6
  MaxBudget = 12
  SafeLp = 100
  Percent = 5
  Liquidity = {60, 100, 400}
  Rates = {8}
INVARIANT ExitSellsAll
