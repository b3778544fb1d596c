SPECIFICATION BlobSpec
CONSTANTS
  N = 3
  ReadAhead = 2
  Handler = {h1, h2}
  Max = 1
  NoChan = NoChan
INVARIANTS Inv ReadAheadBounded OkMeansAll PermitsConserved
PROPERTIES LimiterKept IsSemaphore RequestEnds NoLeak
CHECK_DEADLOCK FALSE
