CONSTANTS
  p1 = p1
  p2 = p2
  i1 = i1
  i2 = i2
  h1 = h1
  h2 = h2
  t1 = t1
  Null = Null
  Pairs = {p1}
  Intents = {i1}
  Handlers = {h1}
  Tokens = {}
  TokensOf <- SharedToken
  EntryMaxDelay = 0
  SlDelay = 1
  MaxSwaps = 2
  LpSizes <- BigAndSmall
  Overlap = FALSE
  DbFaults = FALSE
  LostReceipts = FALSE
  Crashes = FALSE
SPECIFICATION Spec
INVARIANT ExitLockOwned
