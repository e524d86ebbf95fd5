SPECIFICATION FairSpec
CONSTANTS
  Core = {0, 1}
  MaskOf <- MCMaskOf
  Free = Free
  Sem = {0}
  Index = {0, 1}
  SramSize = 1
  GfrcLow = 1
  GfrcMax = 0
  Caller <- TwoThreads
  Handler <- NoHandler
  CoreOf <- MCCoreOf
  Reg <- OneBank
  RegOf <- SharedBank
  Calls <- ApiCalls
INVARIANTS SemaphoreExclusive GettersTellRegister
PROPERTIES LockProgress DistributionGuarded
