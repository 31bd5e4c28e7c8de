SPECIFICATION FairSpec
CONSTANTS
  f1 = f1
  c1 = c1
  c2 = c2
  Files <- MCFiles
  Configs = {c1}
  FromStart = TRUE
  Logs <- MCLogs
  Blank <- MCBlank
  MaxLines = 2
  MaxPipeline = 2
  MaxRegistrations = 2
  MaxCopies = 2
PROPERTIES
  MemoryDrains
