SPECIFICATION Spec
CONSTANTS
  NumExcCpu = 16
  NumExcAll = 18
  Levels = 2
  ThreadCalls <- DivertThread
  HandlerCalls <- DivertHandlers
PROPERTY EnableHits
CHECK_DEADLOCK FALSE
