SPECIFICATION FairSpec
CONSTANTS
  Sessions = {s1, s2, s3}
  Keys = {k1, k2}
  FirstKey = k1
  AnySession = s3
  Asks <- FirstOrAny
  None = None
  Panics = TRUE
  NilDest = TRUE
  Sizes = {1, 9}
  CacheBytes = 9
  Rings <- AllRings
INVARIANTS BytesExact StoredOnce WithinLimit OneLoad SameValue StatsBalance
PROPERTY GetEnds
CHECK_DEADLOCK FALSE
