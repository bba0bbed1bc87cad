SPECIFICATION FairSpec
CONSTANTS
  Node = {1, 2}
  Transfer = {1, 2, 3, 4}
  Src <- MixedSrc
  Dst <- MixedDst
  Packets <- MixedPackets
  All = 0
  NoTransfer = 0
  NoSession = NoSession
  SeqMod = 5
  OneAtATime = TRUE
  EarlyTimeout = FALSE
  MaxLosses = 1
  MaxAborts = 0
  QueueCap = 2
INVARIANTS
  StopAndWait
PROPERTIES
  ImplementsService
  EveryTransferEnds
CHECK_DEADLOCK FALSE
