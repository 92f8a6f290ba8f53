SPECIFICATION Spec
CONSTANTS
  k1 = k1  k2 = k2  r1 = r1  r2 = r2
  Conn = {c1}
  Sctx = {s1, s2}
  Co = {k1, k2}
  Req = {r1, r2}
  ReqOf <- TwoRequests
  NULL = NULL
  MaxOps = 2
  MayFail = FALSE
  MayExit = FALSE
  StreamTypes = {"unary"}
INVARIANTS WaitThreadArmed
SYMMETRY Symmetry
CHECK_DEADLOCK FALSE
