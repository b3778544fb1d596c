SPECIFICATION CacheSpec
CONSTANTS
  Reader = {r1, r2}
  Key = {k1, k2}
  CacheSize = 1
  TTL = 1
  ReqLimit = 1
  Nobody = Nobody
INVARIANT StaleBounded
