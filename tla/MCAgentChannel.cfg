SPECIFICATION Spec
CONSTANTS
  Runs = {r1, r2}
  Logins = {l1}
  NoOp = NoOp
  MaxToolCalls = 1
  MaxStarted = 2
  PipeBound = 2
  Attempts = 2
CHECK_DEADLOCK FALSE
INVARIANTS
  WaitIsAnswered
  PendingCallIsSomewhere
  TokenOfOwnRun
PROPERTIES
  EveryOperationEnds
