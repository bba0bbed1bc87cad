CONSTANTS
  Node = {1, 2, 3}
  Rank <- MCRank
  Preferred <- FirstApart
  Null = 2
  Window = 4
  Milli = 1
  MaxLag = 1
  MaxSkew = 0
  MaxStops = 0
  MaxRequests = 0
  QueueCap = 8
  NoNode = none
SPECIFICATION Spec
INVARIANT UniqueAddresses
INVARIANT NoUsurping
INVARIANT GivesUpOnlyWhenFull
CHECK_DEADLOCK FALSE
