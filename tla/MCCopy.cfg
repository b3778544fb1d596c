SPECIFICATION Scenes
CONSTANTS
  Platform = {p1, p2}
  Layer = {d1, d2}
  Chunk = {c1, c2}
  p1 = p1
  p2 = p2
  d1 = d1
  d2 = d2
  c1 = c1
  c2 = c2
  LayersOf <- TwoLayers
  ChunksOf <- TwoChunks
  Filter <- NoneOrSecond
  Pushable <- ImageAndIndex
  Upstream <- JustIndex
  MaxCopies = 2
  MaxChanges = 2
  SignKey = {k1}
  None = None
  n1 = n1
  n2 = n2
  Name = {n1, n2}
  Tagged <- ImageAndIndex
  Scopes <- AllOrFirst
  MaxWrites = 2
  Fetch = {f1, f2}
  Retries = 2
  MaxTokens = 3
INVARIANTS DestComplete RecipeResolves SignedAsSource HealthySpared LossReported OrphansRight UnauthorizedRight RetriesRight
CHECK_DEADLOCK FALSE
