SPECIFICATION WorkerSpec
CONSTANTS
  MaxCalls = 3
  Id <- Calls
  MaxReports = 3
  MaxFired = 2
  Half = 32
  Timeouts = {0, 5, 6000000}
  Malloc = {8, 24, 56}
INVARIANTS LibraryReady AnswerIsOwn BuffersFreed
PROPERTIES BlockingCallReturns
CHECK_DEADLOCK FALSE
