SPECIFICATION Spec
CONSTANTS
  Core = {0, 1}
  MaskOf <- MCMaskOf
  Free = Free
  Sem = {0}
  Index = {0}
  SramSize = 1
  GfrcLow = 1
  GfrcMax = 2
  Caller <- ThreadsAndHandler
  Handler <- OneHandler
  CoreOf <- MCCoreOf
  Reg <- OneBank
  RegOf <- SharedBank
  Calls <- MixedCalls
INVARIANTS IInv Exclusive
PROPERTY ImplementsAtomic
CHECK_DEADLOCK FALSE
