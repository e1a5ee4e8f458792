SPECIFICATION Spec
CONSTANTS
  Size = 8
  Half = 1
  EpochLimit = 3
  Transducer = {p}
  MaxDelay = 6
  LayoutMoves = FALSE
INVARIANTS TypeOK TailCoversArrivals
PROPERTIES LinesKeepTheSchedule
