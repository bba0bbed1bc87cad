SPECIFICATION Spec
CONSTANTS
  a = a
  b = b
  x = x
  y = y
  Source <- Ecus
  Pgn = {x, y}
  Sizes = {2, 3}
  Readings <- PlainAs
  SeqMod = 2
  Cap = 2
  MaxSent <- SentBound
  MaxMishaps = 2
  QueueCap = 1
  None = none
SYMMETRY Symmetry
INVARIANTS
  TypeOK
  DeliveredIntact
  LossIsLocal
CHECK_DEADLOCK FALSE
