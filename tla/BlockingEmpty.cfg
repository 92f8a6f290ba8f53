SPECIFICATION WorkerSpec
CONSTANTS
  MaxCalls = 1
  Id <- Calls
  MaxReports = 1
  MaxFired = 2
  Half = 32
  Timeouts = {0, 5, 6000000}
  Malloc = {8, 24, 56}
INVARIANTS AssertionHolds
CHECK_DEADLOCK FALSE
