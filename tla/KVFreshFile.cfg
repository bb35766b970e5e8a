\* A fresh file among files that were hit.
SPECIFICATION Spec
CONSTANTS
  Tokenize <- MCTokenize
  Token <- MCToken
  Configs <- MCConfigs
  Requests <- MCRequests
  Sampled <- MCSampled
  ThinkOpen <- Open
  ThinkClose <- Close
  Eos <- End
  ResumeMin = 2
  MinTokens = 2
  ColdMax = 4
  Interval = 2
  Trim = 1
  Align = 1
  Budget = 9
  FileOverhead = 1
  MaxTokens = 2
  MaxJobs = 3
  MaxFaults = 0
  MaxHits = 1
  Broken = Broken
  NoSync = NoSync
  NoJob = NoJob
PROPERTIES FreshFileKept
