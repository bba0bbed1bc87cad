SPECIFICATION FairSpec
CONSTANTS
  Call = {1, 2, 3}
  Kind <- MixedKind
  Target <- MixedTarget
  TargetPgn <- SamePgn
  Fields <- MixedFields
  MaxLosses = 1
  NoCall = 0
INVARIANTS
  RightAnswer
  NoStalePending
PROPERTIES
  FieldsReplyArrives
  EveryCallEnds
CHECK_DEADLOCK FALSE
