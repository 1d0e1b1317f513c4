SPECIFICATION DSafeSpec
CONSTANTS
  Runs = {r1}
  Sessions = {a, b}
  NoSession = NoSession
  NoRun = NoRun
  NStages = 2
  MaxAttempts = 2
  LeaseTicks = 2
  RetryTicks = 1
  RequestTicks = 1
  PipeSize = 1
  Punctual = TRUE
INVARIANT
  InterruptedRunResumes
