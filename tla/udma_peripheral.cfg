SPECIFICATION FairSpec
CONSTANTS
  NumChannels = 1
  Chn = {x}
  NumDesc = 1
  Sources <- PeripheralOnly
  Callbacks = {TRUE}
  Failing = {}
  Masks = FALSE
  NULL = NULL
PROPERTIES WaitEnds
CHECK_DEADLOCK FALSE
