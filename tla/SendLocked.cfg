SPECIFICATION Spec
CONSTANTS
  Job = {1}
  Kind <- LoneKind
  Dest <- RaceDest
  Peer = {p}
  BamSteps = 1
  SlowCaller = FALSE
  NoJob = 0
INVARIANTS
  CallbackUnlocked
CHECK_DEADLOCK FALSE
