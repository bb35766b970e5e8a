\* Two session configurations, five prompts, one payload.
SPECIFICATION CallsSpec
CONSTANTS
  Token = {1, 2}
  Configs <- MCConfigs
  Prompts <- MCPrompts
  ResumeMin = 2
  MaxSaved = 1
  Broken = Broken
  NoSync = NoSync
INVARIANT GraphExact
PROPERTY SyncDelivers
PROPERTY BatchesAligned
PROPERTY SyncTerminates
