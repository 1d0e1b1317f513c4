SPECIFICATION DSpec
CONSTANTS
  Runs = {r1}
  Sessions = {a, b}
  NoSession = NoSession
  NoRun = NoRun
  NStages = 2
  MaxAttempts = 3
  LeaseTicks = 2
  RetryTicks = 1
  RequestTicks = 1
  PipeSize = 1
  Punctual = FALSE
INVARIANTS
  DTypeOK
  CheckpointMatchesStages
  OutputFromOwnAttempt
  BudgetSuffices
PROPERTIES
  StartupSettles
  ExecutionTerminates
