CONSTANTS
  Node = {1, 2}
  Rank <- MCRank
  Preferred <- SamePreferred
  Null = 1
  Window = 3
  Milli = 2
  MaxLag = 2
  MaxSkew = 2
  MaxStops = 1
  MaxRequests = 1
  QueueCap = 3
  NoNode = none
SPECIFICATION FairSpec
INVARIANT ReportMatchesState
PROPERTY EventuallySettles
CHECK_DEADLOCK FALSE
