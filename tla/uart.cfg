SPECIFICATION Spec
CONSTANTS
  Lens = {1, 2}
  Bauds = {1, 2}
  Freq = 64
  Depth = 1
  MaxByte = 3
  MaxOpen = 2
  Careless = {}
INVARIANTS TypeOK Bookkeeping InBuffer
PROPERTIES EachOnce
CHECK_DEADLOCK FALSE
