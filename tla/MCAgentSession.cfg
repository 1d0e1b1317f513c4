SPECIFICATION Spec
CONSTANTS
  Nobody = Nobody
  Interrupts = {"abort", "compact"}
  Prompts = {p1}
  Customs = {c1}
  Bashes = {b1}
  MaxRetries = 1
  MaxToolTurns = 1
  MaxFailures = 2
  MaxCalls = 1
  MaxCompactions = 1
  MaxAsides = 1
CHECK_DEADLOCK FALSE
INVARIANTS
  SessionTypeOK
  ResultsFollowTheirCall
  EveryMessageOnce
  DisplayAgrees
  ResumeSeesTheConversation
  NobodyIsForgotten
