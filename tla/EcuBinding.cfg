SPECIFICATION FairSpec
CONSTANTS
  a = a
  b = b
  Ecu <- TwoEcus
  PoolSize = 1
  Heap = {2, 3}
  NoBuf = 0
  MaxFaults = 2
  Id = {0, 1}
  MaxEvents <- MostlyOne
INVARIANTS
  BuffersOwned
  ViewsIntact
  StreamFollowsBus
  SendsAccounted
PROPERTIES
  EverySendCompletes
CHECK_DEADLOCK FALSE
