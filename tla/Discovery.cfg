SPECIFICATION Spec
CONSTANTS
  Node = {w, a, b}
  Watcher = w
  Talker = {a}
  Period = 1
  OfflineTimeout = 2
  RemoveTimeout = 3
  MaxPlugs <- TalkersChange
  Request <- AskAround
  MaxRequests = 1
  MaxLosses = 1
INVARIANTS
  ListenerFollows
  NoFalseAlarm
  AbsenceNoticed
  DeviceIsKnown
  NothingOlder
CHECK_DEADLOCK FALSE
