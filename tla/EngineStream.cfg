SPECIFICATION StreamSpec
CONSTANTS
  Types = {"client", "server", "bidi"}
  Timeouts = {0, 1, 4}
  MaxOps = 4
  MaxTime = 3
INVARIANTS TypeOK OneOpAtATime WireInOrder RecvInOrder
PROPERTIES OpsEnd
CHECK_DEADLOCK FALSE
