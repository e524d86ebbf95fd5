SPECIFICATION CoreSpec
CONSTANTS
  NumExcCpu = 16
  NumExcAll = 18
  Levels = 2
  ThreadCalls <- CoreThread
  HandlerCalls <- CoreHandlers
INVARIANTS CoreTypeOK CriticalSection TriggerKept
PROPERTIES PriSetHits TimeIsTrue
CHECK_DEADLOCK FALSE
