CONSTANTS
  s1 = s1
  s2 = s2
  u1 = u1
  c1 = c1
  c2 = c2
  None = None
  Symbols = {s1, s2, u1}
  Listed = {s1, s2}
  Calls = {c1, c2}
  Boot = c1
  MaxMutations = 2
  MaxCrashes = 1
SPECIFICATION Spec
SYMMETRY Symmetry
CHECK_DEADLOCK FALSE
INVARIANT TypeOK
INVARIANT QuotesSettled
INVARIANT ActiveIsApproved
INVARIANT CachedIsAllowed
INVARIANT LoadedIsCached
