CONSTANTS
  p1 = p1
  p2 = p2
  t1 = t1
  t2 = t2
  c1 = c1
  c2 = c2
  Null = Null
  Pairs = {p1, p2}
  Throttles = {t1, t2}
  MaxThrottles = 1
  Calls = {c1, c2}
  MaxEvents <- ThreeAndOne
  MaxCrashes = 1
SPECIFICATION Spec
CHECK_DEADLOCK FALSE
INVARIANT TypeOK
INVARIANT CreatedAtMostOnce
INVARIANT FreshWhenQuiet
PROPERTY ImplementsAnnouncements
PROPERTY PassedInOrder
PROPERTY AcceptedIsPassed
