SPECIFICATION Scenes
CONSTANTS
  Client = {c1, c2}
  Format = {1, 2}
  MayForce = TRUE
  MaySet = TRUE
  NoOne = NoOne
  latest = latest
  a = a
  b = b
  c = c
  n = n
  Tag = {latest, a, b, c}
  Nested = {n}
  Parent <- BelowA
  Pattern <- MCPattern
  Configs <- MCConfigs
  Cleaner = {g1}
  MaxTime = 2
SYMMETRY Alike
INVARIANT EitherRule
