SPECIFICATION Scenes
CONSTANTS
  Pusher = {p1, p2}
  Puller = {r1}
  Digest = {d1, d2}
  Manifest = {m1, m2}
  m1 = m1
  m2 = m2
  d1 = d1
  d2 = d2
  ConfigOf <- SameConfig
  LayersOf <- LayerTwice
  Empty = Empty
  Garbled = Garbled
  None = None
  Spelling <- ArmSpelling
  Host <- Arm
  Holdings <- ArmHoldings
  Indexes <- ArmIndexes
  MaxEvents = 3
INVARIANT LeftBehindNamed
SYMMETRY PushersAlike
