SPECIFICATION Spec
CONSTANTS
  Tokenize <- MCTokenize
  Token <- MCToken
  Configs <- MCConfigPair
  Requests <- MCRequests
  Sampled <- MCSampled
  ThinkOpen <- Open
  ThinkClose <- Close
  Eos <- End
  ResumeMin = 2
  MinTokens = 2
  ColdMax = 4
  Interval = 2
  Trim = 1
  Align = 1
  Budget = 9
  FileOverhead = 1
  MaxTokens = 1
  MaxJobs = 3
  MaxFaults = 1
  MaxHits = 1
  Broken = Broken
  NoSync = NoSync
  NoJob = NoJob
INVARIANT FilesExact
INVARIANT ServedExactly
INVARIANT BudgetKept
INVARIANT SessionSaved
PROPERTY WorkDone
