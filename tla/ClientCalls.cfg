SPECIFICATION Spec
CONSTANTS
  k1 = k1  k2 = k2  r1 = r1  r2 = r2
  Conn = {c1}
  Sctx = {s1, s2}
  Co = {k1, k2}
  Req = {r1}
  ReqOf <- OneRequest
  NULL = NULL
  MaxOps = 3
  MayFail = FALSE
  MayExit = FALSE
  StreamTypes = {"unary", "bidi"}
INVARIANTS TypeOK KeptIsWaiting OngoingCount BufsOwned ResultStillComing OneResultPerOp SctxOwnership ContextsAlive DelayedFree EngineCtxKnown BusyIsWaited
PROPERTIES PanicOnlyIfMistaken
SYMMETRY LightThreads
CHECK_DEADLOCK FALSE
