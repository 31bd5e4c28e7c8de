SPECIFICATION Spec
CONSTANTS
  f1 = f1
  c1 = c1
  c2 = c2
  Files <- MCFiles
  Configs = {c1, c2}
  FromStart = FALSE
  Logs <- MCLogs
  Blank <- MCBlank
  MaxLines = 2
  MaxPipeline = 2
  MaxRegistrations = 2
  MaxCopies = 2
INVARIANTS
  FailedSendsKept
