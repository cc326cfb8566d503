CONSTANTS
  p1 = p1
  p2 = p2
  quote = quote
  Null = Null
  Pairs = {p1, p2}
  Contracts = {quote}
  ContractsOf <- MCContractsOf
  Rows = {quote}
  MaxMutations = 1
  MaxCrashes = 1
SPECIFICATION Spec
INVARIANT TypeOK
INVARIANT SetsSurvive
INVARIANT OpenPairsFollowed
CHECK_DEADLOCK FALSE
