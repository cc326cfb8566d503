CONSTANTS
  a1 = a1
  a2 = a2
  b1 = b1
  f1 = f1
  Items = {a1, a2, b1}
  KeyOf <- Keys
  Flushers = {f1}
  BatchLength = 2
  DefaultLength = 3
  MaxRetry = 1
  ErrorsThrow = TRUE
SPECIFICATION Spec
INVARIANT TypeOK
INVARIANT NoSilentLoss
INVARIANT DoneOnce
INVARIANT KeysMatch
PROPERTY EveryItemLeaves
CHECK_DEADLOCK FALSE
