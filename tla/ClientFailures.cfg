SPECIFICATION FairSpec
CONSTANTS
  k1 = k1  k2 = k2  r1 = r1  r2 = r2
  Conn = {c1}
  Sctx = {s1, s2}
  Co = {k1}
  Req = {r1}
  ReqOf <- OneRequest
  NULL = NULL
  MaxOps = 2
  MayFail = TRUE
  MayExit = TRUE
  StreamTypes = {"unary", "client", "server"}
INVARIANTS ContextInv UafOnlyAtExit LeakIsLost
PROPERTIES EveryCallReturns LostOnlyInCreation OrphanedOnlyByAbort
CHECK_DEADLOCK FALSE
