CONSTANTS
  FileUnits <- Files
  Tensors <- MCTensors
  Processes <- MCProcesses
  Operations <- MCOperations
  CopyChunk = 1
  Stages = 2
  Align = 2
  Page = 2
  ArenaAlign = 2
  ArenaChunk = 4
  MaxSpan = 3
  SpanGap = 1
  MaxFaults = 1
  MaxOps = 2
  TokenStrings <- MCTokens
  MergeStrings <- MCMerges
  Specials <- MCSpecials
  MaxPrefix <- MCPrefix
  Hash <- MCHash
SPECIFICATION LoadSpec
INVARIANT WeightsRead
INVARIANT BuffersOwned
INVARIANT TextKept
INVARIANT PiecesFollowPatterns
CHECK_DEADLOCK FALSE
