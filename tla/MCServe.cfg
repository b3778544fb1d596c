SPECIFICATION Scenes
CONSTANTS
  Handler = {h1, h2}
  Tag = {t1, t2}
  Manifest = {a, i}
  a = a
  i = i
  Children <- IndexOfImage
  MaxChanges = 3
  None = None
  Reader = {r1, r2}
  Key = {k1, k2}
  CacheSize = 1
  TTL = 1
  ReqLimit = 1
  Nobody = Nobody
SYMMETRY Alike
INVARIANTS Attested SignedOnly StandingIsServed StaleBoundedInMemory InStep
CHECK_DEADLOCK FALSE
