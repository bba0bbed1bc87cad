SPECIFICATION CodecSpec
CONSTANTS
  Case <- Cases
  MaxTrips = 2
INVARIANTS
  RoundTrip
PROPERTIES
  NumbersSurvive
CHECK_DEADLOCK FALSE
