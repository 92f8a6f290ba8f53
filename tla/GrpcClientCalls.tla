-------------------------- MODULE GrpcClientCalls ---------------------------
(***************************************************************************)
(* Types and calls of the worker.  Every step keeps the types of its state: *)
(* a lemma for each operation that builds a context, a coroutine context or *)
(* a queue, and one step per action.  Then ContextInv, part one: what the  *)
(* operations on queues do, what leaves the invariant alone, and the actions *)
(* by which a coroutine starts to wait.                                    *)
(***************************************************************************)
EXTENDS GrpcClient, TLAPS

\* A fresh worker has the type.
LEMMA InitType == Init => TypeOK
<1> SUFFICES ASSUME Init PROVE TypeOK
  OBVIOUS
<1> USE DEF Init, EngineInit, ClientInit
<1>1. EngineTypeOK
  BY DEF EngineTypeOK
<1>2. ctx \in [Conn -> Ctx]
  BY DEF NoCtx, Ctx
<1>3. sctx \in [Sctx -> StreamCtx]
  BY Zenon DEF NoSctx, ZeroSctx, StreamCtx, StreamType
<1>4. thctx \in ThreadCtx
  BY DEF ThreadCtx
<1>5. co \in [Co -> CoCtx]
  BY DEF IdleCo, CoCtx, Kind, EngineKind
<1>6. nops \in 0 .. MaxOps /\ ongoing_tasks_num \in Int
  BY MaxOpsAssumption
<1>7. ngx_exiting \in BOOLEAN
  BY Zenon
<1>8. ClientTypeOK
  BY <1>2, <1>3, <1>4, <1>5, <1>6, <1>7 DEF ClientTypeOK
<1> QED
  BY <1>1, <1>8 DEF TypeOK

\* kick_off_task fills in a context and a coroutine context.
LEMMA KickOffType ==
  ASSUME TypeOK, NEW k \in Co, NEW a \in Sctx, NEW s \in StreamCtx,
         NEW kind \in Kind, nops < MaxOps, kick_off_task(k, a, s, kind)
  PROVE  /\ pool' \in {"idle", "queued", "done"}
         /\ ongoing_tasks' \subseteq Sctx /\ ongoing_tasks_num' \in Int
         /\ sctx' \in [Sctx -> StreamCtx]
         /\ co' \in [Co -> CoCtx]
         /\ nops' \in 0 .. MaxOps /\ nops + 1 \in Op
<1> USE DEF TypeOK, ClientTypeOK, kick_off_task
<1>1. pool' \in {"idle", "queued", "done"}
  BY DEF Scheduled
<1>2. ongoing_tasks' \subseteq Sctx /\ ongoing_tasks_num' \in Int
  BY DEF keep_task
<1>3. [s EXCEPT !.wait_co_ctx = k, !.state = "OK", !.node = TRUE]
        \in StreamCtx
  BY Zenon DEF StreamCtx
<1>4. sctx' \in [Sctx -> StreamCtx]
  BY <1>3
<1>5. nops' \in 0 .. MaxOps /\ nops + 1 \in Op
  BY MaxOpsAssumption DEF Op
<1>6. [status |-> "wait", timer |-> TRUE, cleanup |-> TRUE, data |-> a,
       op |-> nops + 1, kind |-> kind] \in CoCtx
  BY <1>5 DEF CoCtx
<1>7. co' \in [Co -> CoCtx]
  BY <1>6
<1> QED
  BY <1>1, <1>2, <1>4, <1>5, <1>7

\* unkeep_task leaves an integer count and a smaller tree.
LEMMA UnkeepType ==
  ASSUME TypeOK, NEW a, unkeep_task(a)
  PROVE  ongoing_tasks' \subseteq Sctx /\ ongoing_tasks_num' \in Int
BY DEF TypeOK, ClientTypeOK, unkeep_task, taskVars

\* free_conn clears a connection and the contexts in its free queue.
LEMMA FreeConnType ==
  ASSUME TypeOK, NEW c, NEW q, free_conn(c, q)
  PROVE  ctx' \in [Conn -> Ctx] /\ sctx' \in [Sctx -> StreamCtx]
<1> USE DEF TypeOK, ClientTypeOK, free_conn
<1>1. [NoCtx EXCEPT !.heap = "freed"] \in Ctx
  <2>1. NoCtx \in Ctx
    BY DEF NoCtx, Ctx
  <2> QED
    BY Zenon, <2>1 DEF Ctx
<1>2. NoSctx \in StreamCtx
  BY Zenon DEF NoSctx, ZeroSctx, StreamCtx, StreamType
<1> QED
  BY Zenon, <1>1, <1>2

\* close, from Lua or from the finalizer.
LEMMA CloseType ==
  ASSUME TypeOK, NEW c \in Conn, NEW gc \in BOOLEAN, close(c, gc)
  PROVE  /\ EngineCtxRef' \subseteq Conn
         /\ ctx' \in [Conn -> Ctx] /\ sctx' \in [Sctx -> StreamCtx]
<1> USE DEF TypeOK, ClientTypeOK, EngineTypeOK
<1>1. EngineCtxRef' \subseteq Conn
  BY DEF close, grpc_engine_close
<1>2. CASE gc /\ ctx[c].opening = {}
  BY <1>1, <1>2, FreeConnType DEF close
<1>3. CASE ~(gc /\ ctx[c].opening = {})
  <2>1. [ctx[c] EXCEPT !.engine_ctx = FALSE,
                       !.free_delayed = @ \/ gc] \in Ctx
    BY Zenon DEF Ctx
  <2>2. ctx' = [ctx EXCEPT ![c] = [ctx[c] EXCEPT !.engine_ctx = FALSE,
                       !.free_delayed = @ \/ gc]]
    BY Zenon, <1>3 DEF close
  <2> QED
    BY <1>1, <1>3, <2>1, <2>2 DEF close
<1> QED
  BY <1>2, <1>3

\* close_stream, from Lua or from the finalizer, in each of its branches.
LEMMA CloseStreamType ==
  ASSUME TypeOK, NEW a \in Sctx, NEW gc \in BOOLEAN, close_stream(a, gc)
  PROVE  /\ StreamRef' \subseteq Sctx
         /\ ctx' \in [Conn -> Ctx] /\ sctx' \in [Sctx -> StreamCtx]
         /\ fault' \in {"none", "panic", "uaf"}
<1> USE DEF TypeOK, ClientTypeOK, EngineTypeOK
<1> DEFINE c == sctx[a].parent
           opening == ctx[c].opening \ {a}
           free == Append(ctx[c].free, a)
<1>1. StreamRef' \subseteq Sctx
  BY DEF close_stream, grpc_engine_close_stream
<1>2. fault' \in {"none", "panic", "uaf"}
  BY DEF close_stream
<1>3. CASE ~gc
  BY <1>1, <1>2, <1>3 DEF close_stream
<1>4. CASE gc /\ ctx[c].free_delayed /\ opening = {}
  BY <1>1, <1>2, <1>4, FreeConnType DEF close_stream
<1>5. CASE gc /\ ~(ctx[c].free_delayed /\ opening = {})
  <2>1. /\ ctx' = [ctx EXCEPT ![c].opening = opening, ![c].free = free]
        /\ sctx' = [sctx EXCEPT ![a].r = NULL]
    BY <1>5 DEF close_stream
  <2>2. ASSUME c \in Conn
        PROVE  [ctx[c] EXCEPT !.opening = opening, !.free = free] \in Ctx
    <3>1. ctx[c] \in Ctx /\ opening \in SUBSET Sctx /\ free \in Seq(Sctx)
      BY <2>2 DEF Ctx
    <3> QED
      BY Zenon, <3>1 DEF Ctx
  <2>3. ctx' \in [Conn -> Ctx]
    BY Zenon, <2>1, <2>2
  <2>4. [sctx[a] EXCEPT !.r = NULL] \in StreamCtx
    BY DEF StreamCtx
  <2>5. sctx' \in [Sctx -> StreamCtx]
    BY <2>1, <2>4
  <2> QED
    BY <1>1, <1>2, <2>3, <2>5
<1> QED
  BY <1>3, <1>4, <1>5

\* to_resume and put_res.
LEMMA ToResumeType ==
  ASSUME TypeOK, NEW k, NEW a \in Sctx, to_resume(k, a)
  PROVE  /\ ongoing_tasks' \subseteq Sctx /\ ongoing_tasks_num' \in Int
         /\ co' \in [Co -> CoCtx] /\ ctx' \in [Conn -> Ctx]
         /\ fault' \in {"none", "panic", "uaf"}
<1> USE DEF TypeOK, ClientTypeOK, to_resume
<1>1. ongoing_tasks' \subseteq Sctx /\ ongoing_tasks_num' \in Int
  BY UnkeepType
<1>2. IdleCo \in CoCtx
  BY DEF IdleCo, CoCtx, Kind, EngineKind
<1>3. co' \in [Co -> CoCtx]
  BY Zenon, <1>2
<1>4. ctx' \in [Conn -> Ctx]
  <2> DEFINE c == sctx[a].parent
             x == [ctx[c] EXCEPT !.free = Append(@, a)]
  <2>1. ASSUME c \in Conn PROVE x \in Ctx
    <3>1. ctx[c] \in Ctx /\ Append(ctx[c].free, a) \in Seq(Sctx)
      BY <2>1 DEF Ctx
    <3> QED
      BY Zenon, <3>1 DEF Ctx
  <2>2. UNCHANGED ctx \/ ctx' = [ctx EXCEPT ![c] = x]
    OBVIOUS
  <2> QED
    BY <2>1, <2>2
<1>5. fault' \in {"none", "panic", "uaf"}
  OBVIOUS
<1> QED
  BY <1>1, <1>3, <1>4, <1>5

\* What new_stream writes into a context it takes or allocates.
LEMMA NewSctxType ==
  ASSUME TypeOK, NEW k \in Co, NEW c \in Conn, NEW type \in StreamType
  PROVE  NewSctx(k, c, type) \in StreamCtx
BY Zenon, ReqAssumption DEF NewSctx, ZeroSctx, StreamCtx

\* A goroutine is started for a call or a stream operation.
LEMMA GoType ==
  ASSUME TypeOK, NEW kind \in EngineKind, NEW a \in Sctx, NEW n \in Op,
         Go(kind, a, n) \/ UNCHANGED goroutines
  PROVE  goroutines' \subseteq Goroutine
BY DEF TypeOK, EngineTypeOK, Go, Goroutine

\* Conn:call and Conn:new_*_stream up to the yield.
LEMMA StartCallType ==
  ASSUME TypeOK, NEW k \in Co, NEW c \in Conn, NEW type \in StreamType,
         StartCall(k, c, type)
  PROVE  TypeOK'
<1> PICK a \in Sctx : new_stream(k, c, a, type)
  BY DEF StartCall
<1> DEFINE kind == IF type = "unary" THEN "call" ELSE "new_stream"
<1>1. kind \in Kind /\ kind \in EngineKind
  BY DEF Kind, EngineKind
<1>2. nops < MaxOps /\ kick_off_task(k, a, NewSctx(k, c, type), kind)
  BY DEF StartCall, new_stream
<1>3. /\ pool' \in {"idle", "queued", "done"}
      /\ ongoing_tasks' \subseteq Sctx /\ ongoing_tasks_num' \in Int
      /\ sctx' \in [Sctx -> StreamCtx]
      /\ co' \in [Co -> CoCtx]
      /\ nops' \in 0 .. MaxOps /\ nops + 1 \in Op
  BY <1>1, <1>2, KickOffType, NewSctxType
<1>4. goroutines' \subseteq Goroutine
  BY <1>1, <1>3, GoType DEF new_stream
<1>5. fault' \in {"none", "panic", "uaf"}
  BY DEF new_stream, TypeOK, ClientTypeOK
<1>6. ctx' \in [Conn -> Ctx]
  <2> DEFINE open == IF type = "unary" THEN ctx[c].opening
                     ELSE ctx[c].opening \cup {a}
  <2>1. ctx[c] \in Ctx
    BY DEF TypeOK, ClientTypeOK
  <2>2. FreeWithout(c) \in Seq(Sctx) /\ open \in SUBSET Sctx
    BY <2>1 DEF FreeWithout, Ctx
  <2>3. [ctx[c] EXCEPT !.free = FreeWithout(c), !.opening = open] \in Ctx
    BY Zenon, <2>1, <2>2 DEF Ctx
  <2>4. ctx' = [ctx EXCEPT ![c] = [ctx[c] EXCEPT !.free = FreeWithout(c),
                                                 !.opening = open]]
    BY Zenon DEF new_stream, TypeOK, ClientTypeOK
  <2> QED
    BY <2>3, <2>4 DEF TypeOK, ClientTypeOK
<1> QED
  BY <1>3, <1>4, <1>5, <1>6
     DEF StartCall, TypeOK, EngineTypeOK, ClientTypeOK, luaVars

\* The same when kick_off_task fails.
LEMMA StartCallFailsType ==
  ASSUME TypeOK, NEW k \in Co, NEW c \in Conn, NEW type \in StreamType,
         StartCallFails(k, c, type)
  PROVE  TypeOK'
<1> PICK a \in Sctx : new_stream_fails(k, c, a, type)
  BY DEF StartCallFails
<1>1. pool' \in {"idle", "queued", "done"}
  BY DEF new_stream_fails, kick_off_fails, Scheduled, TypeOK, ClientTypeOK
<1>2. sctx' \in [Sctx -> StreamCtx]
  BY NewSctxType DEF new_stream_fails, TypeOK, ClientTypeOK
<1>3. ctx' \in [Conn -> Ctx]
  <2>1. ctx[c] \in Ctx
    BY DEF TypeOK, ClientTypeOK
  <2>2. Append(FreeWithout(c), a) \in Seq(Sctx)
    BY <2>1 DEF FreeWithout, Ctx
  <2>3. [ctx[c] EXCEPT !.free = Append(FreeWithout(c), a)] \in Ctx
    BY Zenon, <2>1, <2>2 DEF Ctx
  <2> QED
    BY <2>3 DEF new_stream_fails, TypeOK, ClientTypeOK
<1> QED
  BY <1>1, <1>2, <1>3 DEF StartCallFails, new_stream_fails, kick_off_fails,
     TypeOK, EngineTypeOK, ClientTypeOK, engineVars, taskVars, luaVars

\* The methods of a stream up to the yield.
LEMMA StreamOpType ==
  ASSUME TypeOK, NEW k \in Co, NEW a \in Sctx, NEW kind \in Kind,
         StreamOp(k, a, kind)
  PROVE  TypeOK'
<1>1. nops < MaxOps /\ kick_off_task(k, a, sctx[a], kind)
  BY DEF StreamOp, stream_op
<1>2. sctx[a] \in StreamCtx
  BY DEF TypeOK, ClientTypeOK
<1>3. /\ pool' \in {"idle", "queued", "done"}
      /\ ongoing_tasks' \subseteq Sctx /\ ongoing_tasks_num' \in Int
      /\ sctx' \in [Sctx -> StreamCtx]
      /\ co' \in [Co -> CoCtx]
      /\ nops' \in 0 .. MaxOps /\ nops + 1 \in Op
  BY <1>1, <1>2, KickOffType
<1>4. EngineOf(kind) \in EngineKind
  BY DEF EngineOf, Kind, EngineKind
<1>5. goroutines' \subseteq Goroutine
  BY <1>3, <1>4, GoType DEF StreamOp, stream_op
<1>6. fault' \in {"none", "panic", "uaf"}
  BY DEF StreamOp, stream_op, TypeOK, ClientTypeOK
<1> QED
  BY <1>3, <1>5, <1>6
     DEF StreamOp, TypeOK, EngineTypeOK, ClientTypeOK, luaVars

\* What the library does after the yield.
LEMMA LuaContinuesType ==
  ASSUME TypeOK, NEW k \in Co, NEW a \in Sctx, NEW ok \in BOOLEAN,
         LuaContinues(k, a, ok)
  PROVE  /\ lstream' \in [Sctx -> {"none", "open", "closed"}]
         /\ StreamRef' \subseteq Sctx
BY DEF TypeOK, EngineTypeOK, LuaContinues, grpc_engine_close_stream

\* The posted handler takes a result from its queue.
LEMMA TakePostedType ==
  ASSUME TypeOK, TakePosted, thctx.occupied # <<>>
  PROVE  thctx' \in ThreadCtx
<1> USE DEF TypeOK, ClientTypeOK, TakePosted
<1>1. thctx \in ThreadCtx
  OBVIOUS
<1>2. Tail(thctx.occupied) \in Seq(Result) /\ thctx.free + 1 \in Nat
  BY <1>1 DEF ThreadCtx
<1> QED
  BY Zenon, <1>1, <1>2 DEF ThreadCtx

\* The event handler moves results, dropping some, to the posted queue.
LEMMA ThreadEventType ==
  ASSUME TypeOK, ThreadEvent
  PROVE  TypeOK'
<1> DEFINE s == thctx.finished_tasks
           n == Len(s)
<1>1. thctx \in ThreadCtx
  BY DEF TypeOK, ClientTypeOK
<1>2. s \in Seq(Result) /\ n \in Nat /\ thctx.occupied \in Seq(Result)
      /\ thctx.free \in Nat
  BY <1>1 DEF ThreadCtx
<1>3. pool' \in {"idle", "queued", "done"} /\ fault' \in {"none", "panic", "uaf"}
  BY DEF ThreadEvent, thread_event_handler, TypeOK, ClientTypeOK
<1>4. thctx' \in ThreadCtx
  <2>1. CASE thctx.freed
    BY <1>1, <2>1 DEF ThreadEvent, thread_event_handler
  <2>2. CASE ~thctx.freed
    <3> DEFINE left == IF thctx.free > n THEN thctx.free - n ELSE 0
               ev == thctx.posted_ev \/ n > 0
    <3>1. PICK m \in 0 .. n : \E f \in [1 .. m -> 1 .. n] :
            thctx' = [finished_tasks |-> <<>>, freed |-> FALSE,
                      posted_ev |-> ev,
                      occupied |-> thctx.occupied \o
                                   [i \in 1 .. m |-> s[f[i]]],
                      free |-> left]
      BY Zenon, <2>2 DEF ThreadEvent, thread_event_handler
    <3>2. PICK f \in [1 .. m -> 1 .. n] :
            thctx' = [finished_tasks |-> <<>>, freed |-> FALSE,
                      posted_ev |-> ev,
                      occupied |-> thctx.occupied \o
                                   [i \in 1 .. m |-> s[f[i]]],
                      free |-> left]
      BY Zenon, <3>1
    <3>3. [i \in 1 .. m |-> s[f[i]]] \in Seq(Result)
      BY <1>2
    <3>4. thctx.occupied \o [i \in 1 .. m |-> s[f[i]]] \in Seq(Result)
      BY <1>2, <3>3
    <3>5. left \in Nat
      BY <1>2
    <3>6. ev \in BOOLEAN
      OBVIOUS
    <3> HIDE DEF left, ev
    <3> QED
      BY <3>2, <3>4, <3>5, <3>6 DEF ThreadCtx
  <2> QED
    BY <2>1, <2>2
<1> QED
  BY <1>3, <1>4 DEF ThreadEvent, thread_event_handler, TypeOK, EngineTypeOK,
     ClientTypeOK, engineVars, taskVars, luaVars

\* Updates of the fields of one context.
LEMMA SctxFieldsType ==
  ASSUME TypeOK, NEW a \in Sctx
  PROVE  /\ [sctx[a] EXCEPT !.node = FALSE] \in StreamCtx
         /\ [sctx[a] EXCEPT !.node = FALSE, !.wait_co_ctx = NULL]
              \in StreamCtx
         /\ [sctx[a] EXCEPT !.state = "TIMEOUT", !.node = FALSE,
                            !.wait_co_ctx = NULL] \in StreamCtx
BY ZenonT(40) DEF TypeOK, ClientTypeOK, StreamCtx

\* Buffers belong to operations.
LEMMA BufsOfType ==
  ASSUME NEW s \in Seq(Result)
  PROVE  BufsOf(s) \subseteq Op
<1>1. \A i \in 1 .. Len(s) : s[i] \in Result
  OBVIOUS
<1>2. \A i \in 1 .. Len(s) : s[i].op \in Op
  BY <1>1 DEF Result
<1> QED
  BY <1>2 DEF BufsOf

\* Every step of the worker keeps the types.
\* Every step of the worker preserves the type.
LEMMA TypeStep == TypeOK /\ [Next]_vars => TypeOK'
<1> SUFFICES ASSUME TypeOK, [Next]_vars PROVE TypeOK'
  OBVIOUS
<1> USE DEF TypeOK, EngineTypeOK, ClientTypeOK, engineVars, taskVars,
            clientVars, luaVars
<1>1. ASSUME NEW r \in Req, RunRequest(r) PROVE TypeOK'
  BY <1>1 DEF RunRequest
<1>2. CASE Yield
  BY <1>2 DEF Yield
<1>3. CASE Exit
  BY <1>3 DEF Exit
<1>4. ASSUME NEW k \in Co, NEW c \in Conn, Connect(k, c) PROVE TypeOK'
  <2>1. ctx' \in [Conn -> Ctx]
    <3>1. [ctx[c] EXCEPT !.heap = "live", !.engine_ctx = TRUE] \in Ctx
      BY ZenonT(40) DEF Ctx
    <3> QED
      BY <1>4, <3>1 DEF Connect, connect
  <2>2. EngineCtxRef' \subseteq Conn
    BY <1>4 DEF Connect, connect, grpc_engine_connect
  <2>3. lconn' \in [Conn -> {"none", "open", "closed", "gone"}]
    BY <1>4 DEF Connect
  <2> QED
    BY <1>4, <2>1, <2>2, <2>3 DEF Connect
<1>5. ASSUME NEW k \in Co, NEW c \in Conn, ConnClose(k, c) PROVE TypeOK'
  <2>1. /\ EngineCtxRef' \subseteq Conn
        /\ ctx' \in [Conn -> Ctx] /\ sctx' \in [Sctx -> StreamCtx]
    BY Zenon, <1>5, CloseType DEF ConnClose
  <2>2. lconn' \in [Conn -> {"none", "open", "closed", "gone"}]
    BY <1>5 DEF ConnClose
  <2> QED
    BY <1>5, <2>1, <2>2 DEF ConnClose
<1>6. ASSUME NEW c \in Conn, ctx_gc_handler(c) PROVE TypeOK'
  <2>1. /\ EngineCtxRef' \subseteq Conn
        /\ ctx' \in [Conn -> Ctx] /\ sctx' \in [Sctx -> StreamCtx]
    BY Zenon, <1>6, CloseType DEF ctx_gc_handler
  <2>2. lconn' \in [Conn -> {"none", "open", "closed", "gone"}]
    BY <1>6 DEF ctx_gc_handler
  <2> QED
    BY <1>6, <2>1, <2>2 DEF ctx_gc_handler
<1>7. ASSUME NEW k \in Co, NEW a \in Sctx, StreamOpFails(k, a) PROVE TypeOK'
  BY <1>7 DEF StreamOpFails, kick_off_fails, Scheduled
<1>8. ASSUME NEW k \in Co, NEW a \in Sctx, StreamClose(k, a) PROVE TypeOK'
  <2>1. /\ StreamRef' \subseteq Sctx
        /\ ctx' \in [Conn -> Ctx] /\ sctx' \in [Sctx -> StreamCtx]
        /\ fault' \in {"none", "panic", "uaf"}
    BY Zenon, <1>8, CloseStreamType DEF StreamClose
  <2>2. lstream' \in [Sctx -> {"none", "open", "closed"}]
    BY <1>8 DEF StreamClose
  <2> QED
    BY <1>8, <2>1, <2>2 DEF StreamClose
<1>9. ASSUME NEW a \in Sctx, stream_gc_handler(a) PROVE TypeOK'
  <2>1. /\ StreamRef' \subseteq Sctx
        /\ ctx' \in [Conn -> Ctx] /\ sctx' \in [Sctx -> StreamCtx]
        /\ fault' \in {"none", "panic", "uaf"}
    BY Zenon, <1>9, CloseStreamType DEF stream_gc_handler
  <2>2. lstream' \in [Sctx -> {"none", "open", "closed"}]
    BY <1>9 DEF stream_gc_handler
  <2> QED
    BY <1>9, <2>1, <2>2 DEF stream_gc_handler
<1>10. ASSUME NEW k \in Co, Kill(k) PROVE TypeOK'
  <2>1. ongoing_tasks' \subseteq Sctx /\ ongoing_tasks_num' \in Int
    BY <1>10, UnkeepType DEF Kill, cleanup
  <2>2. sctx' \in [Sctx -> StreamCtx]
    BY Zenon, <1>10, SctxFieldsType DEF Kill, cleanup
  <2>3. [IdleCo EXCEPT !.status = "dead"] \in CoCtx
    BY Zenon DEF IdleCo, CoCtx, Kind, EngineKind
  <2>4. co' \in [Co -> CoCtx]
    BY <1>10, <2>3 DEF Kill, cleanup
  <2> QED
    BY <1>10, <2>1, <2>2, <2>4 DEF Kill, cleanup
<1>11. ASSUME NEW g \in goroutines, Finish(g) PROVE TypeOK'
  <2>1. PICK type \in ResType : ReportFinishedTask(g, type)
    BY <1>11 DEF Finish, Outcome, ResType
  <2>2. goroutines' \subseteq Goroutine /\ StreamRef' \subseteq Sctx
    BY <2>1 DEF ReportFinishedTask, Goroutine
  <2>3. [id |-> g.id, op |-> g.op, type |-> type] \in Result
    BY DEF Goroutine, Result
  <2>4. tasks' \in Seq(Result)
    BY <2>1, <2>3 DEF ReportFinishedTask
  <2> QED
    BY <1>11, <2>1, <2>2, <2>4 DEF Finish, ReportFinishedTask
<1>12. CASE ThreadHandler
  <2>1. thctx' \in ThreadCtx
    BY Zenon, <1>12 DEF ThreadHandler, thread_handler, ThreadCtx
  <2>2. tasks' \in Seq(Result)
    BY <1>12 DEF ThreadHandler, thread_handler, grpc_engine_wait
  <2>3. BufsOf(tasks) \subseteq Op
    BY BufsOfType
  <2>4. bufs' \subseteq Op
    BY <1>12, <2>3 DEF ThreadHandler, thread_handler
  <2> QED
    BY <1>12, <2>1, <2>2, <2>4
       DEF ThreadHandler, thread_handler, grpc_engine_wait
<1>13. CASE PostedCancelled
  <2>1. thctx' \in ThreadCtx
    BY <1>13, TakePostedType DEF PostedCancelled, post_event_cancelled
  <2> QED
    BY <1>13, <2>1 DEF PostedCancelled, post_event_cancelled, FreeBuf
<1>14. CASE PostedEmpty
  <2>1. thctx' \in ThreadCtx
    BY ZenonT(40), <1>14 DEF PostedEmpty, post_event_empty, ThreadCtx
  <2> QED
    BY <1>14, <2>1 DEF PostedEmpty, post_event_empty
<1>15. ASSUME NEW k \in Co, NEW a \in Sctx, NEW ok \in BOOLEAN,
              PostedResumes(k, a, ok)
       PROVE  TypeOK'
  <2> USE <1>15 DEF PostedResumes, post_event_resumes
  <2>1. thctx' \in ThreadCtx
    BY ZenonT(40), TakePostedType
  <2>2. /\ ongoing_tasks' \subseteq Sctx /\ ongoing_tasks_num' \in Int
        /\ co' \in [Co -> CoCtx] /\ ctx' \in [Conn -> Ctx]
        /\ fault' \in {"none", "panic", "uaf"}
    BY ZenonT(40), ToResumeType
  <2>3. /\ lstream' \in [Sctx -> {"none", "open", "closed"}]
        /\ StreamRef' \subseteq Sctx
    BY ZenonT(40), LuaContinuesType
  <2>4. sctx' \in [Sctx -> StreamCtx]
    BY ZenonT(40), SctxFieldsType
  <2>5. bufs' \subseteq Op
    BY ZenonT(40) DEF FreeBuf
  <2>6. running' \in Req \cup {NULL}
    BY Zenon DEF Resumes, StreamCtx
  <2> QED
    BY Zenon, <2>1, <2>2, <2>3, <2>4, <2>5, <2>6
<1>16. ASSUME NEW k \in Co, NEW a \in Sctx, Timeout(k, a) PROVE TypeOK'
  <2> USE <1>16 DEF Timeout, timeout_handler
  <2>1. /\ ongoing_tasks' \subseteq Sctx /\ ongoing_tasks_num' \in Int
        /\ co' \in [Co -> CoCtx] /\ ctx' \in [Conn -> Ctx]
        /\ fault' \in {"none", "panic", "uaf"}
    BY ToResumeType
  <2>2. /\ lstream' \in [Sctx -> {"none", "open", "closed"}]
        /\ StreamRef' \subseteq Sctx
    BY Zenon, LuaContinuesType
  <2>3. sctx' \in [Sctx -> StreamCtx]
    BY Zenon, SctxFieldsType
  <2>4. running' \in Req \cup {NULL}
    BY DEF Resumes, StreamCtx
  <2> QED
    BY <2>1, <2>2, <2>3, <2>4
<1>17. CASE UNCHANGED vars
  BY Zenon, <1>17 DEF vars
<1>18. ASSUME NEW k \in Co, NEW c \in Conn, NEW type \in StreamTypes,
              StartCall(k, c, type) \/ StartCallFails(k, c, type)
       PROVE  TypeOK'
  BY Zenon, <1>18, StartCallType, StartCallFailsType, LuaAssumption
<1> USE DEF Next, EventLoop, Lua, Handlers, Posted
<1>19. CASE EventLoop
  BY Zenon, <1>19, <1>1, <1>2, <1>3
<1>20. CASE Lua
  BY ZenonT(40), <1>20, <1>4, <1>5, <1>6, <1>7, <1>8, <1>9, <1>10, <1>18,
     StreamOpType
<1>21. CASE Handlers
  BY Zenon, <1>21, <1>11, <1>12, <1>13, <1>14, <1>15, <1>16, ThreadEventType
<1> QED
  BY Zenon, <1>17, <1>19, <1>20, <1>21

\* The state of a worker always has its type.
THEOREM TypeCorrect == Spec => []TypeOK
BY InitType, TypeStep, PTL DEF Spec

----------------------------------------------------------------------------
\* What the queue operations do to the elements of a queue.
LEMMA QueueAppend ==
  ASSUME NEW S, NEW q \in Seq(S), NEW a \in S
  PROVE  /\ Elems(Append(q, a)) = Elems(q) \cup {a}
         /\ NoDup(q) /\ a \notin Elems(q) => NoDup(Append(q, a))
<1>1. /\ Len(Append(q, a)) = Len(q) + 1
      /\ \A i \in 1 .. Len(q) : Append(q, a)[i] = q[i]
      /\ Append(q, a)[Len(q) + 1] = a
  OBVIOUS
<1>2. Elems(Append(q, a)) = Elems(q) \cup {a}
  <2>1. ASSUME NEW x \in Elems(Append(q, a)) PROVE x \in Elems(q) \cup {a}
    BY <1>1 DEF Elems
  <2>2. ASSUME NEW x \in Elems(q) \cup {a} PROVE x \in Elems(Append(q, a))
    BY <1>1 DEF Elems
  <2> QED
    BY <2>1, <2>2
<1>3. NoDup(q) /\ a \notin Elems(q) => NoDup(Append(q, a))
  BY <1>1 DEF NoDup, Elems
<1> QED
  BY <1>2, <1>3

\* Taking the head (the last of the C queue) leaves a queue without it.
LEMMA QueueTail ==
  ASSUME NEW S, NEW q \in Seq(S), q # <<>>
  PROVE  /\ Elems(Tail(q)) \subseteq Elems(q)
         /\ Head(q) \in Elems(q)
         /\ NoDup(q) => NoDup(Tail(q)) /\ Head(q) \notin Elems(Tail(q))
<1>1. /\ Len(q) > 0 /\ Len(Tail(q)) = Len(q) - 1 /\ Len(q) \in Nat
      /\ \A i \in 1 .. Len(q) - 1 : Tail(q)[i] = q[i + 1]
      /\ Head(q) = q[1]
  OBVIOUS
<1>2. Elems(Tail(q)) \subseteq Elems(q) /\ Head(q) \in Elems(q)
  BY <1>1 DEF Elems
<1>3. NoDup(q) => NoDup(Tail(q))
  BY <1>1 DEF NoDup
<1>4. NoDup(q) => Head(q) \notin Elems(Tail(q))
  BY <1>1 DEF NoDup, Elems
<1> QED
  BY <1>2, <1>3, <1>4

\* The queues of a connection hold stream contexts.
LEMMA QueuesType ==
  ASSUME TypeOK
  PROVE  \A c \in Conn : /\ ctx[c].free \in Seq(Sctx)
                         /\ Elems(ctx[c].free) \subseteq Sctx
                         /\ ctx[c].opening \subseteq Sctx
<1>1. \A c \in Conn : ctx[c].free \in Seq(Sctx) /\ ctx[c].opening \subseteq Sctx
  BY DEF TypeOK, ClientTypeOK, Ctx
<1>2. ASSUME NEW q \in Seq(Sctx) PROVE Elems(q) \subseteq Sctx
  BY DEF Elems
<1> QED
  BY Zenon, <1>1, <1>2

\* A fresh connection has empty queues.
LEMMA QueueEmpty == NoDup(<<>>) /\ Elems(<<>>) = {}
BY DEF NoDup, Elems

----------------------------------------------------------------------------

\* The call in flight on context b is not disturbed: nothing of the context,
\* its coroutine and its handle changes, the context stays in the opening
\* queue, and a unary call's connection is not collected.
LEMMA FliesFrame ==
  ASSUME NEW b, Flies(b),
         sctx'[b].heap = sctx[b].heap, sctx'[b].parent = sctx[b].parent,
         sctx'[b].type = sctx[b].type,
         sctx'[b].wait_co_ctx = sctx[b].wait_co_ctx,
         co'[sctx[b].wait_co_ctx] = co[sctx[b].wait_co_ctx],
         lstream'[b] = lstream[b],
         ctx'[sctx[b].parent].heap = ctx[sctx[b].parent].heap,
         b \in ctx[sctx[b].parent].opening =>
           b \in ctx'[sctx[b].parent].opening,
         co[sctx[b].wait_co_ctx].kind = "call" =>
           lconn'[sctx[b].parent] # "gone" \/ lconn[sctx[b].parent] = "gone"
  PROVE  Flies(b)'
BY DEF Flies

\* The queues of connection d are not disturbed.
LEMMA OwnedFrame ==
  ASSUME NEW d, Owned(d),
         ctx'[d].free = ctx[d].free, ctx'[d].opening = ctx[d].opening,
         \A b \in Elems(ctx[d].free) :
           /\ sctx'[b].heap = sctx[b].heap
           /\ sctx'[b].parent = sctx[b].parent
           /\ b \in ongoing_tasks' => b \in ongoing_tasks
           /\ lstream'[b] # "none" => lstream[b] # "none",
         \A b \in ctx[d].opening : /\ sctx'[b].heap = sctx[b].heap
                                   /\ sctx'[b].parent = sctx[b].parent
  PROVE  Owned(d)'
BY DEF Owned

\* The handle of context b is not disturbed, or is dropped.
LEMMA OpensFrame ==
  ASSUME NEW b, Opens(b),
         sctx'[b].parent = sctx[b].parent, sctx'[b].type = sctx[b].type,
         lstream'[b] # "none" => lstream[b] # "none",
         \A d \in Conn : b \in ctx'[d].opening <=> b \in ctx[d].opening
  PROVE  Opens(b)'
BY DEF Opens

----------------------------------------------------------------------------

\* A worker starts without connections, streams and tasks.
LEMMA ContextInit == Init => ContextInv
<1> SUFFICES ASSUME Init PROVE ContextInv
  OBVIOUS
<1> USE DEF Init, ClientInit, NoCtx, NoSctx, ZeroSctx, IdleCo
<1>1. KeptIsWaiting
  BY DEF KeptIsWaiting, Waits
<1>2. InFlight
  BY DEF InFlight, Flies
<1>3. SctxOwnership
  BY Zenon, QueueEmpty DEF SctxOwnership, Owned
<1>4. HandleIsOpening /\ ConnPhases
  BY DEF HandleIsOpening, Opens, ConnPhases
<1> QED
  BY <1>1, <1>2, <1>3, <1>4 DEF ContextInv

\* Steps that touch neither contexts nor tasks nor coroutines nor handles: the
\* event loop, the engine, the pool thread and the handling of its results.
LEMMA ContextFrame ==
  ASSUME ContextInv, UNCHANGED <<ctx, sctx, ongoing_tasks, co, lconn, lstream>>
  PROVE  ContextInv'
<1> USE DEF ContextInv
<1>1. KeptIsWaiting'
  BY DEF KeptIsWaiting, Waits
<1>2. InFlight'
  BY DEF InFlight, Flies
<1>3. SctxOwnership'
  BY DEF SctxOwnership, Owned
<1>4. HandleIsOpening' /\ ConnPhases'
  BY DEF HandleIsOpening, Opens, ConnPhases
<1> QED
  BY <1>1, <1>2, <1>3, <1>4

----------------------------------------------------------------------------

\* A coroutine that starts to wait on a context nobody waits on.
LEMMA KickOffKept ==
  ASSUME TypeOK, KeptIsWaiting, NEW k \in Co, NEW a \in Sctx,
         NEW s \in StreamCtx, NEW kind \in Kind,
         co[k].status = "idle", a \notin ongoing_tasks, s.r = ReqOf[k],
         kick_off_task(k, a, s, kind)
  PROVE  KeptIsWaiting'
<1> USE DEF TypeOK, ClientTypeOK
<1>1. /\ ongoing_tasks' = ongoing_tasks \cup {a}
      /\ \A b \in Sctx : b # a => sctx'[b] = sctx[b]
      /\ \A j \in Co : j # k => co'[j] = co[j]
  BY DEF kick_off_task, keep_task
<1>2. sctx'[a].node /\ sctx'[a].wait_co_ctx = k /\ sctx'[a].r = ReqOf[k]
  BY DEF kick_off_task, StreamCtx
<1>3. /\ co'[k].status = "wait" /\ co'[k].timer /\ co'[k].cleanup
      /\ co'[k].data = a
  BY DEF kick_off_task
<1>4. \A b \in ongoing_tasks : sctx[b].wait_co_ctx # k
  BY DEF KeptIsWaiting, Waits
<1> QED
  BY <1>1, <1>2, <1>3, <1>4 DEF KeptIsWaiting, Waits

\* The context that new_stream takes is nobody's: not ongoing, without a Lua
\* handle, in no opening queue, and in no free queue once it is taken.
LEMMA TakenIsUnused ==
  ASSUME TypeOK, ContextInv, NEW c \in Conn, NEW a \in Sctx, TakesSctx(c, a)
  PROVE  /\ a \notin ongoing_tasks /\ lstream[a] = "none"
         /\ \A d \in Conn : a \notin ctx[d].opening
         /\ \A d \in Conn : d # c => a \notin Elems(ctx[d].free)
         /\ NoDup(FreeWithout(c)) /\ FreeWithout(c) \in Seq(Sctx)
         /\ Elems(FreeWithout(c)) \subseteq Elems(ctx[c].free)
         /\ a \notin Elems(FreeWithout(c))
<1> USE DEF ContextInv
<1>1. ctx[c].free \in Seq(Sctx)
  BY DEF TypeOK, ClientTypeOK, Ctx
<1>2. CASE ctx[c].free # <<>>
  <2>1. a = Head(ctx[c].free) /\ FreeWithout(c) = Tail(ctx[c].free)
    BY <1>2 DEF TakesSctx, FreeWithout
  <2>2. /\ NoDup(FreeWithout(c)) /\ FreeWithout(c) \in Seq(Sctx)
        /\ Elems(FreeWithout(c)) \subseteq Elems(ctx[c].free)
        /\ a \notin Elems(FreeWithout(c)) /\ a \in Elems(ctx[c].free)
    BY <1>1, <1>2, <2>1, QueueTail DEF SctxOwnership, Owned
  <2>3. /\ a \notin ongoing_tasks /\ lstream[a] = "none"
        /\ sctx[a].parent = c /\ a \notin ctx[c].opening
    BY <2>2 DEF SctxOwnership, Owned
  <2>4. \A d \in Conn : d # c => a \notin ctx[d].opening
                                 /\ a \notin Elems(ctx[d].free)
    BY <2>3 DEF SctxOwnership, Owned
  <2> QED
    BY <2>2, <2>3, <2>4
<1>3. CASE ctx[c].free = <<>>
  <2>1. ~sctx[a].heap /\ FreeWithout(c) = <<>>
    BY <1>3 DEF TakesSctx, FreeWithout
  <2>2. a \notin ongoing_tasks
    BY <2>1 DEF InFlight, Flies
  <2>3. \A d \in Conn : a \notin ctx[d].opening /\ a \notin Elems(ctx[d].free)
    BY <2>1 DEF SctxOwnership, Owned
  <2>4. lstream[a] = "none"
    BY <2>3 DEF HandleIsOpening, Opens
  <2> QED
    BY <2>1, <2>2, <2>3, <2>4, QueueEmpty
<1> QED
  BY <1>2, <1>3

\* new_stream succeeds: a context nobody uses becomes a unary call's, in no
\* queue, or a stream's, in the opening queue.
LEMMA StartCallContext ==
  ASSUME TypeOK, ContextInv, NEW k \in Co, NEW c \in Conn,
         NEW type \in StreamType, StartCall(k, c, type)
  PROVE  ContextInv'
<1> PICK a \in Sctx : new_stream(k, c, a, type)
  BY DEF StartCall
<1> USE DEF ContextInv
<1> DEFINE kind == IF type = "unary" THEN "call" ELSE "new_stream"
           s == NewSctx(k, c, type)
<1>1. /\ co[k].status = "idle" /\ lconn[c] = "open" /\ ctx[c].heap = "live"
      /\ TakesSctx(c, a) /\ kick_off_task(k, a, s, kind)
      /\ UNCHANGED <<lconn, lstream>>
  BY DEF StartCall, Runs, new_stream, ConnPhases, luaVars
<1>2. /\ a \notin ongoing_tasks /\ lstream[a] = "none"
      /\ \A d \in Conn : a \notin ctx[d].opening
      /\ \A d \in Conn : d # c => a \notin Elems(ctx[d].free)
      /\ NoDup(FreeWithout(c)) /\ FreeWithout(c) \in Seq(Sctx)
      /\ Elems(FreeWithout(c)) \subseteq Elems(ctx[c].free)
      /\ a \notin Elems(FreeWithout(c))
  BY Zenon, <1>1, TakenIsUnused
<1>3. /\ s \in StreamCtx /\ kind \in Kind
      /\ s.r = ReqOf[k] /\ s.heap /\ s.parent = c /\ s.type = type
  BY Zenon, NewSctxType DEF NewSctx, ZeroSctx, Kind, EngineKind
<1> HIDE DEF s, kind
<1>4. KeptIsWaiting'
  BY Zenon, <1>1, <1>2, <1>3, KickOffKept
<1>5. /\ ongoing_tasks' = ongoing_tasks \cup {a}
      /\ \A b \in Sctx : b # a => sctx'[b] = sctx[b]
      /\ \A j \in Co : j # k => co'[j] = co[j]
      /\ sctx'[a].heap /\ sctx'[a].parent = c /\ sctx'[a].type = type
      /\ sctx'[a].wait_co_ctx = k /\ co'[k].kind = kind
  BY <1>1, <1>3 DEF kick_off_task, keep_task, TypeOK, ClientTypeOK, StreamCtx
<1>6. /\ \A d \in Conn : d # c => ctx'[d] = ctx[d]
      /\ ctx'[c].free = FreeWithout(c)
      /\ ctx'[c].opening = IF type = "unary" THEN ctx[c].opening
                           ELSE ctx[c].opening \cup {a}
      /\ ctx'[c].heap = ctx[c].heap
      /\ ctx'[c].free_delayed = ctx[c].free_delayed
  BY DEF new_stream, TypeOK, ClientTypeOK, Ctx
<1>7. \A b \in ongoing_tasks : sctx[b].wait_co_ctx \in Co \ {k}
  BY Zenon, <1>1 DEF KeptIsWaiting, Waits
<1>8. InFlight'
  <2> SUFFICES ASSUME NEW b \in ongoing_tasks' PROVE Flies(b)'
    BY DEF InFlight
  <2>1. CASE b = a
    BY ZenonT(40), <1>1, <1>2, <1>5, <1>6, <2>1 DEF Flies, kind
  <2>2. CASE b # a
    <3>1. b \in ongoing_tasks /\ b \in Sctx /\ Flies(b)
      BY Zenon, <1>5, <2>2 DEF InFlight, TypeOK, ClientTypeOK
    <3>2. \A d \in Conn : /\ ctx'[d].heap = ctx[d].heap
                          /\ ctx[d].opening \subseteq ctx'[d].opening
      BY Zenon, <1>6
    <3>3. sctx[b].parent \in Conn
      BY Zenon, <3>1 DEF Flies
    <3> QED
      BY Zenon, <1>1, <1>5, <1>7, <2>2, <3>1, <3>2, <3>3, FliesFrame
  <2> QED
    BY <2>1, <2>2
<1>9. SctxOwnership'
  <2> SUFFICES ASSUME NEW d \in Conn PROVE Owned(d)'
    BY DEF SctxOwnership
  <2>1. Owned(d) /\ ctx[d].opening \subseteq Sctx
        /\ Elems(ctx[d].free) \subseteq Sctx
    BY ZenonT(40), QueuesType DEF SctxOwnership
  <2>2. CASE d = c
    <3>1. \A b \in Elems(FreeWithout(c)) :
            b \in Elems(ctx[c].free) /\ b # a /\ sctx'[b] = sctx[b]
      BY Zenon, <1>2, <1>5, <2>1, <2>2
    <3>2. \A b \in ctx'[c].opening : b = a \/ b \in ctx[c].opening
      BY Zenon, <1>6
    <3>3. \A b \in ctx[c].opening : sctx[b].heap /\ sctx[b].parent = c
      BY Zenon, <2>1, <2>2 DEF Owned
    <3>4. \A b \in Elems(FreeWithout(c)) :
            /\ sctx[b].heap /\ sctx[b].parent = c
            /\ b \notin ongoing_tasks /\ b \notin ctx[c].opening
            /\ lstream[b] = "none"
      BY Zenon, <2>1, <2>2, <3>1 DEF Owned
    <3>5. NoDup(ctx'[c].free) /\ Elems(ctx'[c].free) = Elems(FreeWithout(c))
      BY Zenon, <1>2, <1>6
    <3>6. \A b \in ctx'[c].opening : sctx'[b].heap /\ sctx'[b].parent = c
      BY Zenon, <1>5, <2>1, <2>2, <3>2, <3>3
    <3>7. \A b \in Elems(FreeWithout(c)) :
            /\ sctx'[b].heap /\ sctx'[b].parent = c
            /\ b \notin ongoing_tasks' /\ b \notin ctx'[c].opening
            /\ lstream'[b] = "none"
      BY ZenonT(40), <1>1, <1>5, <3>1, <3>2, <3>4
    <3> QED
      BY Zenon, <2>2, <3>5, <3>6, <3>7 DEF Owned
  <2>3. CASE d # c
    <3>1. \A b \in Elems(ctx[d].free) \cup ctx[d].opening :
            b # a /\ sctx'[b] = sctx[b]
      BY <1>2, <1>5, <2>1, <2>3
    <3> QED
      BY Zenon, <1>1, <1>5, <1>6, <2>1, <2>3, <3>1, OwnedFrame
  <2> QED
    BY <2>2, <2>3
<1>10. HandleIsOpening'
  <2> SUFFICES ASSUME NEW b \in Sctx PROVE Opens(b)'
    BY Zenon DEF HandleIsOpening
  <2>1. CASE b = a
    BY ZenonT(40), <1>1, <1>2, <1>5, <1>6, <2>1 DEF Opens
  <2>2. CASE b # a
    <3>1. \A d \in Conn : b \in ctx'[d].opening <=> b \in ctx[d].opening
      BY ZenonT(40), <1>6, <2>2
    <3> QED
      BY Zenon, <1>1, <1>5, <2>2, <3>1, OpensFrame DEF HandleIsOpening
  <2> QED
    BY <2>1, <2>2
<1>11. ConnPhases'
  BY Zenon, <1>1, <1>6 DEF ConnPhases
<1> QED
  BY <1>4, <1>8, <1>9, <1>10, <1>11

\* A step that writes one context nobody waits on, and leaves it out of the
\* tree, keeps the tree and the coroutines in agreement.
LEMMA KeptFrame ==
  ASSUME KeptIsWaiting, ongoing_tasks \subseteq Sctx,
         NEW a \in Sctx, a \notin ongoing_tasks, ~sctx'[a].node,
         \A b \in Sctx : b # a => sctx'[b] = sctx[b],
         UNCHANGED <<ongoing_tasks, co>>
  PROVE  KeptIsWaiting'
BY DEF KeptIsWaiting, Waits

\* new_stream fails after it has taken a context: the context ends in the free
\* queue, once.
LEMMA StartCallFailsContext ==
  ASSUME TypeOK, ContextInv, NEW k \in Co, NEW c \in Conn,
         NEW type \in StreamType, StartCallFails(k, c, type)
  PROVE  ContextInv'
<1> PICK a \in Sctx : new_stream_fails(k, c, a, type)
  BY DEF StartCallFails
<1> USE DEF ContextInv
<1>1. /\ ctx[c].heap = "live" /\ TakesSctx(c, a)
      /\ UNCHANGED <<lconn, lstream, ongoing_tasks, co>>
  BY SMTT(40) DEF StartCallFails, new_stream_fails, kick_off_fails, ConnPhases,
         luaVars, taskVars
<1>2. /\ a \notin ongoing_tasks /\ lstream[a] = "none"
      /\ \A d \in Conn : a \notin ctx[d].opening
      /\ \A d \in Conn : d # c => a \notin Elems(ctx[d].free)
      /\ NoDup(FreeWithout(c)) /\ FreeWithout(c) \in Seq(Sctx)
      /\ Elems(FreeWithout(c)) \subseteq Elems(ctx[c].free)
      /\ a \notin Elems(FreeWithout(c))
  BY Zenon, <1>1, TakenIsUnused
<1>3. /\ \A b \in Sctx : b # a => sctx'[b] = sctx[b]
      /\ sctx'[a].heap /\ sctx'[a].parent = c /\ ~sctx'[a].node
  BY DEF new_stream_fails, NewSctx, ZeroSctx, TypeOK, ClientTypeOK
<1>4. /\ \A d \in Conn : d # c => ctx'[d] = ctx[d]
      /\ ctx'[c].free = Append(FreeWithout(c), a)
      /\ ctx'[c].opening = ctx[c].opening
      /\ ctx'[c].heap = ctx[c].heap
      /\ ctx'[c].free_delayed = ctx[c].free_delayed
  BY DEF new_stream_fails, TypeOK, ClientTypeOK, Ctx
<1>5. /\ Elems(ctx'[c].free) = Elems(FreeWithout(c)) \cup {a}
      /\ NoDup(ctx'[c].free)
  BY <1>2, <1>4, QueueAppend
<1>6. ongoing_tasks \subseteq Sctx
  BY Zenon DEF TypeOK, ClientTypeOK
<1>7. KeptIsWaiting'
  BY Zenon, <1>1, <1>2, <1>3, <1>6, KeptFrame
<1>8. InFlight'
  <2> SUFFICES ASSUME NEW b \in ongoing_tasks PROVE Flies(b)'
    BY Zenon, <1>1 DEF InFlight
  <2>1. Flies(b) /\ sctx[b].parent \in Conn /\ sctx'[b] = sctx[b]
    BY ZenonT(40), <1>2, <1>3, <1>6 DEF InFlight, Flies
  <2>2. \A d \in Conn : /\ ctx'[d].heap = ctx[d].heap
                        /\ ctx'[d].opening = ctx[d].opening
    BY SMTT(40), <1>4
  <2> QED
    BY Zenon, <1>1, <2>1, <2>2, FliesFrame
<1>9. SctxOwnership'
  <2> SUFFICES ASSUME NEW d \in Conn PROVE Owned(d)'
    BY DEF SctxOwnership
  <2>1. Owned(d)
    BY DEF SctxOwnership
  <2>2. \A b \in ctx[d].opening : b # a /\ sctx'[b] = sctx[b]
    BY Zenon, <1>2, <1>3, QueuesType
  <2>3. \A b \in Elems(ctx'[d].free) :
          (b = a /\ d = c) \/ (b # a /\ b \in Elems(ctx[d].free))
    BY Zenon, <1>2, <1>4, <1>5
  <2>4. \A b \in Elems(ctx'[d].free) :
          /\ sctx'[b].heap /\ sctx'[b].parent = d
          /\ b \notin ongoing_tasks /\ b \notin ctx[d].opening
          /\ lstream[b] = "none"
    <3> TAKE b \in Elems(ctx'[d].free)
    <3>1. CASE b = a /\ d = c
      BY Zenon, <1>2, <1>3, <3>1
    <3>2. CASE b # a /\ b \in Elems(ctx[d].free)
      <4>1. sctx'[b] = sctx[b]
        BY <1>3, <3>2, QueuesType
      <4> QED
        BY Zenon, <2>1, <3>2, <4>1 DEF Owned
    <3> QED
      BY Zenon, <2>3, <3>1, <3>2
  <2>5. ctx'[d].opening = ctx[d].opening /\ NoDup(ctx'[d].free)
    BY Zenon, <1>4, <1>5, <2>1 DEF Owned
  <2> QED
    BY Zenon, <1>1, <2>1, <2>2, <2>4, <2>5 DEF Owned
<1>10. HandleIsOpening'
  <2> SUFFICES ASSUME NEW b \in Sctx PROVE Opens(b)'
    BY DEF HandleIsOpening
  <2>1. \A d \in Conn : ctx'[d].opening = ctx[d].opening
    BY Zenon, <1>4
  <2>2. CASE b = a
    BY Zenon, <1>1, <1>2, <2>1, <2>2 DEF Opens
  <2>3. CASE b # a
    BY Zenon, <1>1, <1>3, <2>1, <2>3, OpensFrame DEF HandleIsOpening
  <2> QED
    BY <2>2, <2>3
<1>11. ConnPhases'
  BY Zenon, <1>1, <1>4 DEF ConnPhases
<1> QED
  BY <1>7, <1>8, <1>9, <1>10, <1>11

\* stream_send, stream_recv and stream_close_send: check_stream_status makes
\* sure that nobody waits on the context, which is an opening stream's.
LEMMA StreamOpContext ==
  ASSUME TypeOK, ContextInv, NEW k \in Co, NEW a \in Sctx, NEW kind \in Kind,
         StreamOp(k, a, kind)
  PROVE  ContextInv'
<1> USE DEF ContextInv
<1>1. /\ co[k].status = "idle" /\ lstream[a] = "open"
      /\ sctx[a].r = ReqOf[k] /\ sctx[a].wait_co_ctx = NULL
      /\ kick_off_task(k, a, sctx[a], kind)
      /\ UNCHANGED <<ctx, lconn, lstream>>
  BY DEF StreamOp, Runs, stream_op, check_stream_status, luaVars
<1>2. kind \notin {"call", "new_stream"} /\ sctx[a] \in StreamCtx
  BY ZenonT(40)
  DEF StreamOp, Methods, TypeOK, ClientTypeOK, StreamCtx, StreamType
<1>3. a \notin ongoing_tasks
  BY Zenon, <1>1, ReqAssumption DEF KeptIsWaiting
<1>4. KeptIsWaiting'
  BY <1>1, <1>2, <1>3, KickOffKept
<1>5. /\ ongoing_tasks' = ongoing_tasks \cup {a}
      /\ \A b \in Sctx : b # a => sctx'[b] = sctx[b]
      /\ \A j \in Co : j # k => co'[j] = co[j]
      /\ sctx'[a].heap = sctx[a].heap /\ sctx'[a].parent = sctx[a].parent
      /\ sctx'[a].type = sctx[a].type
      /\ sctx'[a].wait_co_ctx = k /\ co'[k].kind = kind
  BY <1>1, <1>2 DEF kick_off_task, keep_task, TypeOK, ClientTypeOK, StreamCtx
<1>6. \A b \in ongoing_tasks : sctx[b].wait_co_ctx \in Co \ {k}
  BY ZenonT(40), <1>1 DEF KeptIsWaiting, Waits
<1>7. /\ sctx[a].parent \in Conn /\ a \in ctx[sctx[a].parent].opening
      /\ sctx[a].type # "unary" /\ sctx[a].heap
      /\ ctx[sctx[a].parent].heap = "live"
  BY ZenonT(40), <1>1
  DEF HandleIsOpening, Opens, SctxOwnership, Owned, ConnPhases
<1>8. \A c \in Conn : a \notin Elems(ctx[c].free)
  BY <1>1 DEF SctxOwnership, Owned
<1>9. InFlight'
  <2> SUFFICES ASSUME NEW b \in ongoing_tasks' PROVE Flies(b)'
    BY DEF InFlight
  <2>1. CASE b = a
    BY Zenon, <1>1, <1>2, <1>5, <1>7, <2>1 DEF Flies
  <2>2. CASE b # a
    <3>1. b \in ongoing_tasks /\ b \in Sctx /\ Flies(b)
      BY <1>5, <2>2 DEF InFlight, TypeOK, ClientTypeOK
    <3> QED
      BY ZenonT(40), <1>1, <1>5, <1>6, <2>2, <3>1, FliesFrame
  <2> QED
    BY <2>1, <2>2
<1>10. SctxOwnership'
  <2>1. ASSUME NEW d \in Conn PROVE Owned(d)'
    <3>1. Owned(d)
      BY ZenonT(40) DEF SctxOwnership
    <3>2. \A b \in ctx[d].opening : sctx'[b].heap /\ sctx'[b].parent = d
      BY <1>5, <3>1, QueuesType DEF Owned
    <3> QED
      BY ZenonT(40), <1>1, <1>5, <1>8, <3>1, <3>2, QueuesType DEF Owned
  <2> QED
    BY ZenonT(40), <2>1 DEF SctxOwnership
<1>11. HandleIsOpening'
  <2>1. ASSUME NEW b \in Sctx PROVE Opens(b)'
    BY Zenon, <1>1, <1>5, OpensFrame DEF HandleIsOpening
  <2> QED
    BY Zenon, <2>1 DEF HandleIsOpening
<1>12. ConnPhases'
  BY <1>1 DEF ConnPhases
<1> QED
  BY SMTT(40), <1>4, <1>9, <1>10, <1>11, <1>12
=============================================================================
