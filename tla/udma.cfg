SPECIFICATION Spec
CONSTANTS
  NumChannels = 2
  Chn = {x, y}
  NumDesc = 2
  Sources <- SoftThenPeripheral
  Callbacks = {TRUE, FALSE}
  Failing = {1}
  Masks = TRUE
  NULL = NULL
INVARIANTS TypeOK ChannelsHeld 
PROPERTIES EndMeansDone
CHECK_DEADLOCK FALSE
SYMMETRY ClientSymmetry
