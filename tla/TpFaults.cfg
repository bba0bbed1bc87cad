SPECIFICATION Spec
CONSTANTS
  Node = {1, 2}
  Transfer = {1, 2, 3}
  Src <- FaultSrc
  Dst <- FaultDst
  Packets <- FaultPackets
  All = 0
  NoTransfer = 0
  NoSession = NoSession
  SeqMod = 4
  OneAtATime = TRUE
  EarlyTimeout = TRUE
  MaxLosses = 0
  MaxAborts = 1
  QueueCap = 2
INVARIANTS
  TypeOK
  DeliveredIntact
CHECK_DEADLOCK FALSE
