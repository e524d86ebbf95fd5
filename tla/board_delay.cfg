SPECIFICATION Spec
CONSTANTS
  Limit = 3
  Conv = 1
  Width = 100
  MayMask = FALSE
  Delays = {2}
  Horizon = 20
PROPERTY DelayLongEnough
CHECK_DEADLOCK FALSE
