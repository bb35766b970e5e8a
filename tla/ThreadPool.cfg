\* Pools of one to four threads, generations that wrap.
SPECIFICATION Spec
CONSTANTS
  MaxThreads = 4
  ThreadCounts <- MCThreadCounts
  Generations = 2
  MaxRows = 5
  RowCounts <- MCRowCounts
  MinRowCounts <- MCMinRowCounts
INVARIANT NoWorkerBehind
INVARIANT RowsOnce
INVARIANT PoolReleased
PROPERTY CallReturns
PROPERTY ImplementsLoop
