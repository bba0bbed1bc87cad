SPECIFICATION Spec
CONSTANTS
  a = a
  BusId = {a, x}
  Bare <- Masked
  SentId = {x, b}
  PeriodicId = {b}
  NoId = NoId
  Filters <- OnlyA
  Signal = {s, t}
  SignalsOf <- AllInOne
  MaxMessages = 2
  MaxFrames = 2
  MaxGraphs = 2
  MaxPoints = 1
  Bound <- FewOfEach
INVARIANTS
  TypeOK
  LoopsGoOn
  FramesOnce
  LastFrame
  SnapshotAddsUp
  ChangesShow
SYMMETRY Symmetry
CHECK_DEADLOCK FALSE
