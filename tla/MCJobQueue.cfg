SPECIFICATION Spec
CONSTANTS
  Runs = {r1}
  Sessions = {a, b}
  NoSession = NoSession
  NStages = 2
  MaxAttempts = 3
  LeaseTicks = 2
  RetryTicks = 1
INVARIANTS
  TypeOK
  LeaseCoherent
  AttemptLedger
  RunMatchesStages
PROPERTIES
  OnlyLiveLeaseConcludes
  HistoryIsFinal
  ImplementsStagedRun
