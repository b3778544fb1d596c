SPECIFICATION Scenes
CONSTANTS
  MinSize = 1
  AvgSize = 2
  MaxSize = 4
  Byte = {0, 1, 2}
  HashSize = 4
  MaskS = {0}
  MaskL = {1, 2}
  Conc = 2
  MaxLen = 6
  None = None
  Path <- Flat
  Content = {c1, c2}
  c1 = c1
  c2 = c2
  Target <- Across
  LinkNames <- AtRoot
  Mixed = FALSE
  MaxOps = 5
  MaxLayers = 3
SYMMETRY ContentSymmetry
INVARIANTS CutByContent RecipeLast ReadsRight FewestChunks SeesContainerPlain
CHECK_DEADLOCK FALSE
