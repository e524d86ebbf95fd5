SPECIFICATION FairESpec
CONSTANTS
  NumCpus = 2
  Core <- MCCore
  MaskOf <- MCMaskOf
  Free = Free
  Sem = {}
  Index = {0}
  SramSize = 1
  GfrcLow = 1
  GfrcMax = 0
  Caller <- MCCaller
  Handler <- MCHandler
  CoreOf <- MCCoreOf
  Reg <- OneBank
  RegOf <- SharedBank
  Calls <- MCCalls
PROPERTY InterruptAcknowledged
CHECK_DEADLOCK FALSE
