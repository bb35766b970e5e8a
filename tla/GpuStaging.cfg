CONSTANTS
  Stripes = 1
  CompCap = 4
  ScoreCap = 16
  RawRows = 8
  CompRows = 4
  WindowTokens = 4
  Settings <- MCSettings
  Window = 3
  PrefillCap = 8
  RawCap = 11
  MaxPos = 14
  TopK = 1
  PromptLens <- AnyPrompts
  Warps = {w1, w2}
  Kernels <- RacyKernels
  Experts = 3
  Slots = 2
  TileM = 2
  Large = 5
  Launches <- MCLaunches
  TileSize = 2
  SortSizes <- MCSortSizes
  K = 2
  MergeGroup = 2
  Lanes = 2
  PerLane = 2
  Picked = 2
  BlockLen = 2
SPECIFICATION GpuSpec
CHECK_DEADLOCK FALSE
INVARIANT TilesIntact
