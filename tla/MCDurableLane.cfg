SPECIFICATION Spec
CONSTANTS
  Nothing = Nothing
  Runs = {r1}
  Steers = {}
  FollowUps = {f1}
  NextRuns = {}
  Writes = {w1}
  Silent = {w1}
  AllSteers = TRUE
  AllFollowUps = FALSE
  Parallel = TRUE
  Safe = {1}
  MaxCalls = 2
  MaxAttempts = 2
  MaxMinted = 2
  MaxCrashes = 1
CHECK_DEADLOCK FALSE
INVARIANTS
  LaneTypeOK
  EveryEntryOnce
  OwnedAsNeeded
  ResultsFollowTheReply
  EffectsAreNotRepeated
PROPERTIES
  CancellationDecidesTheEnd
  NothingStartsCancelled
