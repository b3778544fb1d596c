SPECIFICATION Spec
CONSTANTS
  Pusher = {p1}
  Cleaner = {g1}
  Tag = {t1}
  Manifest = {m1}
  Digest = {d1, d2}
  Chunk = {c1}
  m1 = m1
  d1 = d1
  d2 = d2
  c1 = c1
  BlobsOf <- NoDigests
  ChildrenOf <- NoDigests
  LayersOf <- OneLayer
  ChunksOf <- LayerChunk
  Grace = 3
  PushLimit = 1
  GcLimit = 1
  None = None
INVARIANTS TagComplete
