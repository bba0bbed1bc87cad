SPECIFICATION FairSpec
CONSTANTS
  Job = {1, 2, 3, 4}
  Kind <- RaceKind
  Dest <- RaceDest
  Peer = {p}
  BamSteps = 1
  SlowCaller = FALSE
  NoJob = 0
INVARIANTS
  ToldOnce
  NoOrphans
PROPERTIES
  EverySendEnds
  DestructorReturns
CHECK_DEADLOCK FALSE
