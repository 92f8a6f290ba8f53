SPECIFICATION Spec
CONSTANTS
  Proto = {"a", "b", "broken", "nopackage"}
  Broken = {"broken"}
  NoPackage = {"nopackage"}
  Encodings = {"number", "string", "hexstring"}
  MaxStates = 5
  MaxCalls = 3
INVARIANTS StateRestored CallsFindTypes CanLoadAgain
CHECK_DEADLOCK FALSE
