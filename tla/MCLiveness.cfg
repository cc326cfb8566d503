CONSTANTS
  p1 = p1
  p2 = p2
  i1 = i1
  i2 = i2
  h1 = h1
  h2 = h2
  t1 = t1
  Null = Null
  Pairs = {p1, p2}
  Intents = {i1, i2}
  Handlers = {h1}
  Tokens = {}
  TokensOf <- SharedToken
  EntryMaxDelay = 0
  SlDelay = 2
  MaxSwaps = 2
  LpSizes <- BigOnly
  Overlap = FALSE
  DbFaults = FALSE
  LostReceipts = FALSE
  Crashes = FALSE
SPECIFICATION FairSpec
INVARIANT ExitLockOwned
INVARIANT EntryLockOwned
PROPERTY HandlersReturn
PROPERTY StopLossFires
