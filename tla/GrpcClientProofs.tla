-------------------------- MODULE GrpcClientProofs --------------------------
(***************************************************************************)
(* The worker is correct for any number of connections, stream contexts,   *)
(* requests and coroutines: contexts, engine handles and busy marks, the   *)
(* count of ongoing tasks, and the results with their buffers; and it      *)
(* implements Calls.  ContextInv is inductive; the lemmas on single        *)
(* actions are in GrpcClientCalls, GrpcClientContexts and                  *)
(* GrpcClientPipeline.                                                     *)
(***************************************************************************)
EXTENDS GrpcClientPipeline, FiniteSetTheorems

\* Every step of the worker preserves ContextInv.
LEMMA ContextStep == TypeOK /\ ContextInv /\ [Next]_vars => ContextInv'
<1> SUFFICES ASSUME TypeOK, ContextInv, [Next]_vars PROVE ContextInv'
  OBVIOUS
<1>1. CASE EventLoop
  BY <1>1, ContextFrame
  DEF EventLoop, RunRequest, Yield, Exit, clientVars, taskVars, luaVars
<1>2. CASE Lua
  <2>1. ASSUME NEW k \in Co, NEW c \in Conn, NEW type \in StreamTypes,
               StartCall(k, c, type) \/ StartCallFails(k, c, type)
        PROVE  ContextInv'
    BY <2>1, LuaAssumption, StartCallContext, StartCallFailsContext
  <2>2. ASSUME NEW k \in Co, NEW a \in Sctx, StreamOpFails(k, a)
        PROVE  ContextInv'
    BY <2>2, ContextFrame
    DEF StreamOpFails, kick_off_fails, taskVars, luaVars
  <2> QED
    BY ZenonT(40), <1>2, <2>1, <2>2, ConnectContext, ConnCloseContext,
       StreamOpContext, StreamCloseContext, ConnGcContext, StreamGcContext,
       KillContext
    DEF Lua
<1>3. CASE Handlers
  <2>1. ASSUME NEW g \in goroutines, Finish(g) PROVE ContextInv'
    BY <2>1, ContextFrame DEF Finish, clientVars, taskVars, luaVars
  <2>2. CASE ThreadHandler
    BY <2>2, ContextFrame DEF ThreadHandler, thread_handler, taskVars, luaVars
  <2>3. CASE ThreadEvent
    BY <2>3, ContextFrame
    DEF ThreadEvent, thread_event_handler, taskVars, luaVars
  <2>4. CASE PostedCancelled
    BY <2>4, ContextFrame
    DEF PostedCancelled, post_event_cancelled, taskVars, luaVars
  <2>5. CASE PostedEmpty
    BY <2>5, ContextFrame DEF PostedEmpty, post_event_empty, taskVars, luaVars
  <2> QED
    BY ZenonT(40), <1>3, <2>1, <2>2, <2>3, <2>4, <2>5, PostedResumesContext,
       TimeoutContext
    DEF Handlers, Posted
<1>4. CASE UNCHANGED vars
  BY <1>4, ContextFrame DEF vars, clientVars, taskVars, luaVars
<1> QED
  BY <1>1, <1>2, <1>3, <1>4 DEF Next

\* Of a worker with any number of connections, stream contexts, requests and
\* coroutines: queues, tree, Lua handles and delayed frees never disagree
\* about who may still use a context.
THEOREM ContextCorrect == Spec => []ContextInv
<1>1. TypeOK /\ ContextInv /\ [Next]_vars => ContextInv'
  BY ContextStep
<1>2. Init => ContextInv
  BY ContextInit
<1> QED
  BY <1>1, <1>2, TypeCorrect, PTL DEF Spec

\* The tree of ongoing tasks and the coroutines always agree, so that a
\* result is handed to a coroutine that waits (kick_off_task, to_resume,
\* cleanup).
THEOREM KeptCorrect == Spec => []KeptIsWaiting
<1>1. ContextInv => KeptIsWaiting
  BY DEF ContextInv
<1> QED
  BY <1>1, ContextCorrect, PTL

\* new_stream never takes, and free_conn never frees, a context in use.
THEOREM OwnershipCorrect == Spec => []SctxOwnership
<1>1. ContextInv => SctxOwnership
  BY DEF ContextInv
<1> QED
  BY <1>1, ContextCorrect, PTL

\* A stream context with a pointer to it is allocated, and so is its
\* connection.
LEMMA PointerAlive ==
  ASSUME TypeOK, ContextInv, NEW a \in SctxPointers
  PROVE  /\ a \in Sctx /\ sctx[a].heap /\ sctx[a].parent \in Conn
         /\ ctx[sctx[a].parent].heap = "live"
<1>1. CASE a \in ongoing_tasks
  BY Zenon, <1>1 DEF ContextInv, InFlight, Flies, TypeOK, ClientTypeOK
<1>2. ASSUME NEW k \in Co, co[k].timer \/ co[k].cleanup, a = co[k].data
      PROVE  a \in ongoing_tasks
  BY Zenon, <1>2 DEF ContextInv, KeptIsWaiting
<1>3. ASSUME NEW c \in Conn, a \in ctx[c].opening \/ a \in Elems(ctx[c].free)
      PROVE  /\ a \in Sctx /\ sctx[a].heap /\ sctx[a].parent = c
             /\ ctx[c].heap = "live"
  <2>1. a \in Sctx
    BY Zenon, <1>3, QueuesType
  <2>2. sctx[a].heap /\ sctx[a].parent = c
    BY Zenon, <1>3 DEF ContextInv, SctxOwnership, Owned
  <2>3. ctx[c].heap = "live"
    BY <1>3, QueueEmpty DEF ContextInv, ConnPhases
  <2> QED
    BY <2>1, <2>2, <2>3
<1>4. ASSUME a \in Sctx, lstream[a] # "none"
      PROVE  \E c \in Conn : a \in ctx[c].opening
  BY Zenon, <1>4 DEF ContextInv, HandleIsOpening, Opens
<1> QED
  BY Zenon, <1>1, <1>2, <1>3, <1>4 DEF SctxPointers

\* Hence no pointer dangles.
LEMMA PointersAlive ==
  ASSUME TypeOK, ContextInv
  PROVE  ContextsAlive
<1>1. \A a \in SctxPointers : a \in Sctx /\ sctx[a].heap
  BY Zenon, PointerAlive
<1>2. ASSUME NEW c \in ConnPointers PROVE c \in Conn /\ ctx[c].heap = "live"
  <2>1. CASE c \in Conn /\ lconn[c] \in {"open", "closed"}
    BY Zenon, <2>1 DEF ContextInv, ConnPhases
  <2>2. ASSUME NEW a \in SctxPointers, c = sctx[a].parent
        PROVE  c \in Conn /\ ctx[c].heap = "live"
    BY Zenon, <2>2, PointerAlive
  <2> QED
    BY Zenon, <2>1, <2>2 DEF ConnPointers
<1> QED
  BY Zenon, <1>1, <1>2 DEF ContextsAlive

\* Whatever operations, handlers and finalizers follow, in whatever order
\* they come, leads into an allocated context (close, close_stream,
\* free_conn, put_res, cleanup).
THEOREM AliveCorrect == Spec => []ContextsAlive
<1>1. TypeOK /\ ContextInv => ContextsAlive
  BY PointersAlive
<1> QED
  BY <1>1, TypeCorrect, ContextCorrect, PTL

\* The array of results is freed under the event handler, or has been used
\* after that, only in an exiting worker.
ArrayInv == thctx.freed \/ fault = "uaf" => ngx_exiting

\* Only the thread of an exiting worker frees the array the event handler
\* reads, and no other step uses it.
LEMMA ArrayStep ==
  TypeOK /\ ContextInv /\ ArrayInv /\ [Next]_vars => ArrayInv'
<1> SUFFICES ASSUME TypeOK, ContextInv, ArrayInv, [Next]_vars
             PROVE  ArrayInv'
  OBVIOUS
<1> USE DEF ArrayInv
<1>0. thctx \in ThreadCtx
  BY DEF TypeOK, ClientTypeOK
<1>1. CASE EventLoop
  BY <1>1 DEF EventLoop, RunRequest, Yield, Exit, clientVars
<1>2. CASE Lua
  <2>1. ASSUME NEW k \in Co, NEW c \in Conn, NEW type \in StreamTypes,
               StartCall(k, c, type) \/ StartCallFails(k, c, type)
        PROVE  ArrayInv'
    BY <2>1 DEF StartCall, StartCallFails, new_stream
  <2>2. ASSUME NEW k \in Co, NEW a \in Sctx, NEW kind \in Kind,
               StreamOp(k, a, kind)
        PROVE  ArrayInv'
    BY <2>2 DEF StreamOp, stream_op
  <2>3. ASSUME NEW k \in Co, NEW a \in Sctx,
               StreamOpFails(k, a) \/ StreamClose(k, a)
        PROVE  ArrayInv'
    BY <2>3 DEF StreamOpFails, StreamClose, close_stream
  <2>4. ASSUME NEW k \in Co, NEW c \in Conn, Connect(k, c) \/ ConnClose(k, c)
        PROVE  ArrayInv'
    BY Zenon, <2>4 DEF Connect, ConnClose
  <2>5. ASSUME NEW c \in Conn, ctx_gc_handler(c) PROVE ArrayInv'
    BY <2>5 DEF ctx_gc_handler
  <2>6. ASSUME NEW a \in Sctx, stream_gc_handler(a) PROVE ArrayInv'
    BY Zenon, <2>6, StreamGcContext DEF stream_gc_handler
  <2>7. ASSUME NEW k \in Co, Kill(k) PROVE ArrayInv'
    BY <2>7 DEF Kill, cleanup
  <2> QED
    BY ZenonT(40), <1>2, <2>1, <2>2, <2>3, <2>4, <2>5, <2>6, <2>7 DEF Lua
<1>3. CASE Handlers
  <2>1. ASSUME NEW g \in goroutines, Finish(g) PROVE ArrayInv'
    BY <2>1 DEF Finish, clientVars
  <2>2. CASE ThreadHandler
    BY ZenonT(40), <1>0, <2>2 DEF ThreadHandler, thread_handler, ThreadCtx
  <2>3. CASE ThreadEvent
    BY <2>3 DEF ThreadEvent, thread_event_handler
  <2>4. CASE PostedCancelled \/ PostedEmpty
    BY ZenonT(40), <1>0, <2>4
    DEF PostedCancelled, post_event_cancelled, PostedEmpty,
        post_event_empty, TakePosted, ThreadCtx
  <2>5. ASSUME NEW k \in Co, NEW a \in Sctx, NEW ok \in BOOLEAN,
               PostedResumes(k, a, ok)
        PROVE  ArrayInv'
    <3>1. fault' = fault
      BY ZenonT(40), <2>5, PostedResumesContext
    <3>2. thctx'.freed = thctx.freed /\ ngx_exiting' = ngx_exiting
      BY Zenon, <1>0, <2>5
      DEF PostedResumes, post_event_resumes, TakePosted, ThreadCtx
    <3> QED
      BY <3>1, <3>2
  <2>6. ASSUME NEW k \in Co, NEW a \in Sctx, Timeout(k, a)
        PROVE  ArrayInv'
    BY Zenon, <2>6, TimeoutContext DEF Timeout, timeout_handler
  <2> QED
    BY ZenonT(40), <1>3, <2>1, <2>2, <2>3, <2>4, <2>5, <2>6
    DEF Handlers, Posted
<1>4. CASE UNCHANGED vars
  BY <1>4 DEF vars, clientVars
<1> QED
  BY ZenonT(40), <1>1, <1>2, <1>3, <1>4 DEF Next

\* No pointer to a context dangles, exiting worker and failing allocations or
\* not; the freed array of results is used only in a worker that is exiting
\* (thread_handler, thread_event_handler).
THEOREM UafCorrect == Spec => []UafOnlyAtExit
<1>1. Init => ArrayInv
  BY DEF Init, ClientInit, ArrayInv
<1>2. TypeOK /\ ContextInv /\ ArrayInv => UafOnlyAtExit
  BY PointersAlive DEF ArrayInv, UafOnlyAtExit
<1> QED
  BY <1>1, <1>2, ArrayStep, TypeCorrect, ContextCorrect, PTL DEF Spec

----------------------------------------------------------------------------

\* The count is right, and there is one.
CountInv == IsFiniteSet(ongoing_tasks) /\ OngoingCount

\* keep_task is only called for a context that is not in the tree: the tree
\* would hold it once and the count twice.
LEMMA KeepCount ==
  ASSUME CountInv, NEW a, a \notin ongoing_tasks, keep_task(a)
  PROVE  CountInv'
BY FS_AddElement DEF CountInv, OngoingCount, keep_task

\* unkeep_task goes by the node pointer of the context, which agrees with the
\* tree.
LEMMA UnkeepCount ==
  ASSUME CountInv, KeptIsWaiting, NEW a \in Sctx, unkeep_task(a)
  PROVE  CountInv'
<1>1. CASE sctx[a].node
  BY <1>1, FS_RemoveElement
  DEF CountInv, OngoingCount, unkeep_task, KeptIsWaiting
<1>2. CASE ~sctx[a].node
  BY <1>2 DEF CountInv, OngoingCount, unkeep_task, taskVars
<1> QED
  BY <1>1, <1>2

\* Every step of the worker keeps the count right.
LEMMA CountStep ==
  TypeOK /\ ContextInv /\ CountInv /\ [Next]_vars => CountInv'
<1> SUFFICES ASSUME TypeOK, ContextInv, CountInv, [Next]_vars PROVE CountInv'
  OBVIOUS
<1>0. ASSUME UNCHANGED taskVars PROVE CountInv'
  BY <1>0 DEF CountInv, OngoingCount, taskVars
<1>1. CASE EventLoop
  BY <1>0, <1>1 DEF EventLoop, RunRequest, Yield, Exit, clientVars
<1>2. CASE Lua
  <2>1. ASSUME NEW k \in Co, NEW c \in Conn, NEW type \in StreamTypes,
               StartCall(k, c, type)
        PROVE  CountInv'
    <3>1. PICK a \in Sctx : TakesSctx(c, a) /\ keep_task(a)
      BY <2>1 DEF StartCall, new_stream, kick_off_task
    <3> QED
      BY <3>1, TakenIsUnused, KeepCount
  <2>2. ASSUME NEW k \in Co, NEW a \in Sctx, NEW kind \in Kind,
               StreamOp(k, a, kind)
        PROVE  CountInv'
    <3>1. sctx[a].wait_co_ctx = NULL /\ keep_task(a)
      BY <2>2 DEF StreamOp, stream_op, check_stream_status, kick_off_task
    <3>2. a \notin ongoing_tasks
      BY ZenonT(40), <3>1, ReqAssumption DEF ContextInv, KeptIsWaiting
    <3> QED
      BY <3>1, <3>2, KeepCount
  <2>3. ASSUME NEW k \in Co, Kill(k) PROVE CountInv'
    <3>1. unkeep_task(co[k].data) /\ co[k].data \in Sctx
      BY <2>3
      DEF Kill, cleanup, ContextInv, KeptIsWaiting, TypeOK, ClientTypeOK
    <3> QED
      BY ZenonT(40), <3>1, UnkeepCount DEF ContextInv
  <2>4. ASSUME NEW k \in Co, NEW c \in Conn, NEW type \in StreamTypes,
               StartCallFails(k, c, type)
        PROVE  CountInv'
    BY <1>0, <2>4 DEF StartCallFails, new_stream_fails, kick_off_fails
  <2>5. ASSUME NEW k \in Co, NEW a \in Sctx,
               StreamOpFails(k, a) \/ StreamClose(k, a)
        PROVE  CountInv'
    BY Zenon, <1>0, <2>5 DEF StreamOpFails, StreamClose, kick_off_fails
  <2>6. ASSUME NEW k \in Co, NEW c \in Conn, Connect(k, c) \/ ConnClose(k, c)
        PROVE  CountInv'
    BY Zenon, <1>0, <2>6 DEF Connect, ConnClose
  <2>7. ASSUME NEW c \in Conn, ctx_gc_handler(c) PROVE CountInv'
    BY <1>0, <2>7 DEF ctx_gc_handler
  <2>8. ASSUME NEW a \in Sctx, stream_gc_handler(a) PROVE CountInv'
    BY <1>0, <2>8 DEF stream_gc_handler
  <2> QED
    BY ZenonT(40), <1>2, <2>1, <2>2, <2>3, <2>4, <2>5, <2>6, <2>7, <2>8 DEF Lua
<1>3. CASE Handlers
  <2>1. ASSUME NEW g \in goroutines, Finish(g) PROVE CountInv'
    BY <1>0, <2>1 DEF Finish, clientVars
  <2>2. CASE ThreadHandler \/ ThreadEvent
    BY <1>0, <2>2
    DEF ThreadHandler, thread_handler, ThreadEvent, thread_event_handler
  <2>3. CASE PostedCancelled \/ PostedEmpty
    BY <1>0, <2>3 DEF PostedCancelled, post_event_cancelled, PostedEmpty,
                      post_event_empty
  <2>4. ASSUME NEW k \in Co, NEW a \in Sctx, NEW ok \in BOOLEAN,
               PostedResumes(k, a, ok) \/ Timeout(k, a)
        PROVE  CountInv'
    <3>1. unkeep_task(a)
      BY Zenon, <2>4 DEF PostedResumes, post_event_resumes, Timeout,
                  timeout_handler, to_resume
    <3> QED
      BY Zenon, <3>1, UnkeepCount DEF ContextInv
  <2> QED
    BY Zenon, <1>3, <2>1, <2>2, <2>3, <2>4 DEF Handlers, Posted
<1>4. CASE UNCHANGED vars
  BY <1>0, <1>4 DEF vars, clientVars
<1> QED
  BY <1>1, <1>2, <1>3, <1>4 DEF Next

\* The count is right in every worker.
LEMMA CountInvCorrect == Spec => []CountInv
<1>1. Init => CountInv
  BY FS_EmptySet DEF Init, ClientInit, CountInv, OngoingCount
<1>2. TypeOK /\ ContextInv /\ CountInv /\ [Next]_vars => CountInv'
  BY CountStep
<1> QED
  BY <1>1, <1>2, TypeCorrect, ContextCorrect, PTL DEF Spec

\* ongoing_tasks_num is the number of tasks in the tree, whatever completes,
\* expires or is killed: the count that thread_event_handler compares with
\* the number of finished tasks is never off.
THEOREM CountCorrect == Spec => []OngoingCount
<1>1. CountInv => OngoingCount
  BY DEF CountInv
<1> QED
  BY <1>1, CountInvCorrect, PTL

----------------------------------------------------------------------------
\* Handles and delayed frees are right in every worker.
LEMMA HandleInvCorrect == Spec => []HandleInv
<1>1. Init => HandleInv
  BY DEF Init, EngineInit, ClientInit, NoCtx, HandleInv, EngineCtxKnown,
         DelayedFree
<1> QED
  BY <1>1, HandleStep, TypeCorrect, ContextCorrect, PTL DEF Spec

\* The engine handles the module holds are those the engine knows, so that
\* mustFind finds the connection of every call.
THEOREM HandleCorrect == Spec => []EngineCtxKnown
<1>1. HandleInv => EngineCtxKnown
  BY DEF HandleInv
<1> QED
  BY <1>1, HandleInvCorrect, PTL

\* A collected connection that is kept has an open stream left, whose
\* finalizer will free it (close and close_stream).
THEOREM DelayedCorrect == Spec => []DelayedFree
<1>1. HandleInv => DelayedFree
  BY ZenonT(40) DEF HandleInv
<1> QED
  BY <1>1, HandleInvCorrect, PTL

\* The marks are right in every worker.
LEMMA MarkCorrect == Spec => []MarkInv
<1>1. Init => MarkInv
  BY DEF Init, ClientInit, NoSctx, ZeroSctx, MarkInv, BusyIsWaited, StateInv
<1> QED
  BY <1>1, MarkStep, TypeCorrect, ContextCorrect, PTL DEF Spec

\* A stream that refuses an operation as busy has one in progress, or the
\* coroutine of its last one was killed.
THEOREM BusyCorrect == Spec => []BusyIsWaited
<1>1. MarkInv => BusyIsWaited
  BY ZenonT(40) DEF MarkInv
<1> QED
  BY <1>1, MarkCorrect, PTL

----------------------------------------------------------------------------
\* Every operation has one answer, which names the context its coroutine
\* waits on and is there as long as the coroutine waits.
LEMMA AnswerCorrect == Spec => []AnswerInv
<1>1. Init => AnswerInv
  <2> SUFFICES ASSUME Init PROVE AnswerInv
    OBVIOUS
  <2>1. /\ goroutines = {} /\ tasks = <<>> /\ thctx.finished_tasks = <<>>
        /\ thctx.occupied = <<>> /\ ~thctx.freed
        /\ \A k \in Co : ~Waits(k)
    BY DEF Init, EngineInit, ClientInit, IdleCo, Waits
  <2>2. Answers = {} /\ Reported = {} /\ Fetched = {} /\ Occupied = {}
    BY <2>1, QueueEmpty DEF Answers, Reported, Fetched, Occupied
  <2>3. Distinct(<<>>)
    BY DEF Distinct
  <2> QED
    BY <2>1, <2>2, <2>3
    DEF AnswerInv, FetchInv, OpsInv, IdInv, ComingInv, Apart
<1> QED
  BY <1>1, AnswerStep, TypeCorrect, ContextCorrect, PTL DEF Spec

\* The engine answers an operation once, and its answer is in one place.
THEOREM OneResultCorrect == Spec => []OneResultPerOp
<1>1. TypeOK /\ AnswerInv => OneResultPerOp
  <2> SUFFICES ASSUME TypeOK, AnswerInv PROVE OneResultPerOp
    OBVIOUS
  <2>1. Distinct(Pipeline)
    BY PipelineElems DEF AnswerInv
  <2>2. \A g \in goroutines, x \in Elems(Pipeline) : g.op # x.op
    BY PipelineElems DEF AnswerInv, OpsInv, Apart
  <2>3. \A n : ~(InEngine(n) /\ InPipeline(n))
    BY ZenonT(40), <2>2 DEF InEngine, InPipeline
  <2> QED
    BY <2>1, <2>3, Zenon DEF OneResultPerOp
<1> QED
  BY <1>1, AnswerCorrect, TypeCorrect, PTL

\* Whatever is cancelled, times out or reuses a context, no call loses the
\* result it waits for.
THEOREM ComingCorrect == Spec => []ResultStillComing
<1>1. TypeOK /\ AnswerInv => ResultStillComing
  <2> SUFFICES ASSUME TypeOK, AnswerInv, NEW k \in Co, Waits(k), ~MayFail,
                      ~ngx_exiting, Up
               PROVE  InEngine(co[k].op) \/ InPipeline(co[k].op)
    BY DEF ResultStillComing
  <2>1. PICK x \in Answers : x.op = co[k].op
    BY DEF AnswerInv, ComingInv
  <2>2. x \in goroutines \/ x \in Elems(Pipeline)
    BY PipelineElems DEF Answers
  <2> QED
    BY <2>1, <2>2 DEF InEngine, InPipeline
<1> QED
  BY <1>1, AnswerCorrect, TypeCorrect, PTL

\* The buffer of a result is freed once, with its result: none is freed
\* twice, and none leaks where memory does not run out.
THEOREM BufsCorrect == Spec => []BufsOwned
<1>1. Init => BufsOwned
  BY DEF Init, ClientInit, BufsOwned, BufsOf
<1> QED
  BY <1>1, BufsStep, MarkCorrect, AnswerCorrect, TypeCorrect, ContextCorrect,
     PTL DEF Spec

----------------------------------------------------------------------------
\* The worker implements Calls.

\* What a step does to the answers and to those who wait for them.  Nothing,
\* except that the thread may be posted:
Quiet ==
  /\ UNCHANGED <<goroutines, tasks, co, nops, fault>>
  /\ thctx'.finished_tasks = thctx.finished_tasks
  /\ thctx'.occupied = thctx.occupied
  /\ pool' \in {pool, Scheduled}
  /\ ngx_exiting => ngx_exiting'

\* goroutine g is started for the operation of coroutine k:
Goes(k, g) ==
  /\ g.op = nops + 1 /\ goroutines' = goroutines \cup {g}
  /\ co'[k].kind = "new_stream" => g.kind = "new_stream"

\* coroutine k starts an operation:
Begins(k) ==
  /\ ~Waits(k) /\ Waits(k)' /\ co'[k].op = nops + 1
  /\ \A j \in Co \ {k} : co'[j] = co[j]
  /\ nops < MaxOps /\ nops' = nops + 1
  /\ UNCHANGED <<tasks, thctx, ngx_exiting>> /\ pool' = Scheduled
  /\ \/ fault' = "panic" /\ UNCHANGED goroutines
     \/ UNCHANGED fault /\ \E g : Goes(k, g)

\* coroutine k stops to wait:
Ends(k) ==
  /\ Waits(k) /\ ~Waits(k)'
  /\ \A j \in Co \ {k} : co'[j] = co[j]

\* without a result:
GivesUp(k) ==
  /\ Ends(k)
  /\ UNCHANGED <<goroutines, tasks, thctx, pool, nops, ngx_exiting, fault>>

\* or the first posted result leaves the queue:
Takes ==
  /\ thctx.occupied # <<>> /\ thctx'.occupied = Tail(thctx.occupied)
  /\ thctx'.finished_tasks = thctx.finished_tasks
  /\ UNCHANGED <<goroutines, tasks, pool, nops, ngx_exiting, fault>>

\* and is dropped, or resumes coroutine k.
Drops == Takes /\ UNCHANGED co /\ Head(thctx.occupied).id \notin ongoing_tasks
Resumed(k) == Takes /\ Ends(k) /\ co[k].data = Head(thctx.occupied).id

\* A coroutine that runs starts to wait.
LEMMA KickOffBegins ==
  ASSUME TypeOK, NEW k \in Co, Runs(k), nops < MaxOps, NEW a, NEW s, NEW kind,
         NEW engineKind, kick_off_task(k, a, s, kind),
         kind = "new_stream" => engineKind = "new_stream",
         \/ Go(engineKind, a, nops + 1) /\ UNCHANGED fault
         \/ fault' = "panic" /\ UNCHANGED goroutines,
         UNCHANGED <<tasks, thctx, ngx_exiting>>
  PROVE  Begins(k)
<1> DEFINE g == [kind |-> engineKind, id |-> a, op |-> nops + 1]
<1>1. /\ nops' = nops + 1 /\ pool' = Scheduled
      /\ \A j \in Co \ {k} : co'[j] = co[j]
      /\ co'[k].op = nops + 1 /\ co'[k].status = "wait" /\ co'[k].kind = kind
  BY DEF kick_off_task, TypeOK, ClientTypeOK
<1>2. co[k].status = "idle"
  BY DEF Runs
<1>3. \/ goroutines' = goroutines \cup {g} /\ fault' = fault
      \/ fault' = "panic" /\ goroutines' = goroutines
  BY DEF Go
<1>4. g.op = nops + 1 /\ g.kind = engineKind
  OBVIOUS
<1> HIDE DEF g
<1>5. goroutines' = goroutines \cup {g} => Goes(k, g)
  BY <1>1, <1>4 DEF Goes
<1> QED
  BY <1>1, <1>2, <1>3, <1>5 DEF Begins, Waits

\* A coroutine that waits stops.
LEMMA StopEnds ==
  ASSUME TypeOK, NEW k \in Co, Waits(k), NEW x, x.status # "wait",
         co' = [co EXCEPT ![k] = x]
  PROVE  Ends(k)
BY DEF Ends, Waits, TypeOK, ClientTypeOK

\* The posted handler takes the first result.
LEMMA TakesFirst ==
  ASSUME TypeOK, TakePosted
  PROVE  /\ thctx'.finished_tasks = thctx.finished_tasks
         /\ thctx'.occupied = Tail(thctx.occupied)
BY DEF TypeOK, ClientTypeOK, TakePosted, ThreadCtx

\* The coroutine that a posted result resumes waits on the context it names.
LEMMA ResumesResume ==
  ASSUME TypeOK, ContextInv, NEW k \in Co, NEW a \in Sctx, NEW ok \in BOOLEAN,
         PostedResumes(k, a, ok)
  PROVE  Resumed(k)
<1>1. /\ UNCHANGED <<goroutines, tasks, nops, pool, ngx_exiting>>
      /\ thctx.occupied # <<>> /\ TakePosted
      /\ a = Head(thctx.occupied).id /\ k = sctx[a].wait_co_ctx
      /\ a \in ongoing_tasks /\ co' = [co EXCEPT ![k] = IdleCo]
  BY Zenon DEF PostedResumes, post_event_resumes, to_resume, lookup_task
<1>2. fault' = fault
  BY ZenonT(40), PostedResumesContext
<1>3. Waits(k) /\ co[k].data = a
  BY Zenon, <1>1 DEF ContextInv, KeptIsWaiting
<1>4. Ends(k)
  BY Zenon, <1>1, <1>3, StopEnds DEF IdleCo
<1> QED
  BY Zenon, <1>1, <1>2, <1>3, <1>4, TakesFirst DEF Resumed, Takes

\* Every step is of one of these kinds, or one of the three by which results
\* get from the engine to the queue of posted ones.
LEMMA StepKinds ==
  ASSUME TypeOK, ContextInv, [Next]_vars
  PROVE  \/ Quiet \/ ThreadHandler \/ ThreadEvent \/ Drops
         \/ \E g \in goroutines : Finish(g)
         \/ \E k \in Co : Begins(k) \/ GivesUp(k) \/ Resumed(k)
<1>0. KeptIsWaiting /\ co \in [Co -> CoCtx] /\ thctx \in ThreadCtx
  BY Zenon DEF ContextInv, TypeOK, ClientTypeOK
<1>1. CASE EventLoop \/ UNCHANGED vars
  BY <1>1 DEF EventLoop, RunRequest, Yield, Exit, vars, engineVars, clientVars,
              Quiet
<1>2. CASE Lua
  <2>1. ASSUME NEW k \in Co, NEW c \in Conn, NEW type \in StreamTypes,
               StartCall(k, c, type)
        PROVE  Begins(k)
    <3> DEFINE kind == IF type = "unary" THEN "call" ELSE "new_stream"
    <3>1. PICK a \in Sctx : new_stream(k, c, a, type)
      BY <2>1 DEF StartCall
    <3>2. /\ kick_off_task(k, a, NewSctx(k, c, type), kind)
          /\ \/ Go(kind, a, nops + 1) /\ UNCHANGED fault
             \/ fault' = "panic" /\ UNCHANGED goroutines
      BY <3>1 DEF new_stream
    <3>3. /\ UNCHANGED <<tasks, thctx, ngx_exiting>>
          /\ Runs(k) /\ nops < MaxOps
      BY <2>1 DEF StartCall
    <3> QED
      BY <3>2, <3>3, KickOffBegins
  <2>2. ASSUME NEW k \in Co, NEW a \in Sctx, NEW kind \in Kind,
               StreamOp(k, a, kind)
        PROVE  Begins(k)
    <3>1. /\ kick_off_task(k, a, sctx[a], kind)
          /\ \/ Go(EngineOf(kind), a, nops + 1) /\ UNCHANGED fault
             \/ fault' = "panic" /\ UNCHANGED goroutines
      BY <2>2 DEF StreamOp, stream_op
    <3>2. /\ UNCHANGED <<tasks, thctx, ngx_exiting>>
          /\ Runs(k) /\ nops < MaxOps
      BY <2>2 DEF StreamOp
    <3> QED
      BY ZenonT(40), <3>1, <3>2, KickOffBegins DEF EngineOf
  <2>3. ASSUME NEW k \in Co, NEW c \in Conn, NEW type \in StreamTypes,
               StartCallFails(k, c, type)
        PROVE  Quiet
    BY Zenon, <2>3 DEF StartCallFails, new_stream_fails, kick_off_fails,
                       engineVars, Quiet
  <2>4. ASSUME NEW k \in Co, NEW a \in Sctx, StreamOpFails(k, a)
        PROVE  Quiet
    BY Zenon, <2>4 DEF StreamOpFails, kick_off_fails, engineVars, Quiet
  <2>5. ASSUME NEW k \in Co, NEW c \in Conn, Connect(k, c) \/ ConnClose(k, c)
        PROVE  Quiet
    <3>1. UNCHANGED <<goroutines, tasks, co, nops, fault, thctx, pool,
                      ngx_exiting>>
      BY ZenonT(40), <2>5 DEF Connect, ConnClose
    <3> QED
      BY <3>1 DEF Quiet
  <2>6. ASSUME NEW k \in Co, NEW a \in Sctx, StreamClose(k, a)
        PROVE  Quiet
    BY <2>6 DEF StreamClose, close_stream, Quiet
  <2>7. ASSUME NEW c \in Conn, ctx_gc_handler(c) PROVE Quiet
    BY <2>7 DEF ctx_gc_handler, Quiet
  <2>8. ASSUME NEW a \in Sctx, stream_gc_handler(a) PROVE Quiet
    BY Zenon, <2>8, StreamGcContext DEF stream_gc_handler, Quiet
  <2>9. ASSUME NEW k \in Co, Kill(k) PROVE GivesUp(k)
    <3>1. /\ UNCHANGED <<goroutines, tasks, thctx, nops, pool, fault,
                         ngx_exiting>>
          /\ co' = [co EXCEPT ![k] = [IdleCo EXCEPT !.status = "dead"]]
          /\ co[k].cleanup
      BY <2>9 DEF Kill, cleanup, engineVars
    <3>2. Waits(k)
      BY Zenon, <1>0, <3>1 DEF KeptIsWaiting
    <3>3. [IdleCo EXCEPT !.status = "dead"].status # "wait"
      BY DEF IdleCo
    <3> QED
      BY Zenon, <3>1, <3>2, <3>3, StopEnds DEF GivesUp
  <2> QED
    BY ZenonT(40), <1>2, <2>1, <2>2, <2>3, <2>4, <2>5, <2>6, <2>7, <2>8, <2>9
    DEF Lua
<1>3. CASE Handlers
  <2>1. CASE PostedEmpty
    <3>1. /\ UNCHANGED <<goroutines, tasks, co, nops, pool, fault, ngx_exiting>>
          /\ thctx' = [thctx EXCEPT !.posted_ev = FALSE]
      BY <2>1 DEF PostedEmpty, post_event_empty, engineVars
    <3> QED
      BY <1>0, <3>1 DEF ThreadCtx, Quiet
  <2>3. CASE PostedCancelled
    BY <2>3, TakesFirst DEF PostedCancelled, post_event_cancelled, lookup_task,
                      engineVars, Drops, Takes
  <2>5. ASSUME NEW k \in Co, NEW a \in Sctx, Timeout(k, a) PROVE GivesUp(k)
    <3>1. /\ UNCHANGED <<goroutines, tasks, thctx, nops, pool, ngx_exiting>>
          /\ co' = [co EXCEPT ![sctx[a].wait_co_ctx] = IdleCo]
          /\ co[k].timer /\ a = co[k].data
      BY Zenon, <2>5 DEF Timeout, timeout_handler, to_resume
    <3>2. fault' = fault
      BY Zenon, <2>5, TimeoutContext
    <3>3. Waits(k) /\ sctx[a].wait_co_ctx = k
      BY Zenon, <1>0, <3>1 DEF KeptIsWaiting
    <3>4. Ends(k)
      BY Zenon, <3>1, <3>3, StopEnds DEF IdleCo
    <3> QED
      BY Zenon, <3>1, <3>2, <3>4 DEF GivesUp
  <2> QED
    BY ZenonT(40), <1>3, <2>1, <2>3, <2>5, ResumesResume DEF Handlers, Posted
<1> QED
  BY Zenon, <1>1, <1>2, <1>3 DEF Next

\* Results of operations are those of goroutines and of the three queues.
LEMMA ComingAre == TypeOK => Coming = {x.op : x \in Answers}
<1> SUFFICES ASSUME TypeOK PROVE Coming = {x.op : x \in Answers}
  OBVIOUS
<1>1. Answers = goroutines \cup Elems(Pipeline)
  BY PipelineElems DEF Answers
<1>2. \A x \in Answers : x.op \in Op
  <2>1. ASSUME NEW q \in Seq(Result) PROVE Elems(q) \subseteq Result
    BY DEF Elems
  <2> QED
    BY <2>1, ResultTypes
    DEF Answers, Reported, Fetched, Occupied, Result, Goroutine
<1> QED
  BY <1>1, <1>2 DEF Coming, InEngine, InPipeline

\* A worker that has faulted takes no step.
LEMMA NextUp == Next => Up
<1>1. EventLoop => Up
  BY Zenon DEF EventLoop, RunRequest, Yield, Exit, InLoop
<1>2. Lua => Up
  BY Zenon DEF Lua, Connect, ConnClose, StartCall, StartCallFails, StreamOp,
               StreamOpFails, StreamClose, ctx_gc_handler, stream_gc_handler,
               Kill, Runs
<1>3. Handlers => Up
  BY Zenon DEF Handlers, Posted, Finish, ThreadHandler, ThreadEvent,
               PostedCancelled, PostedEmpty, PostedResumes, Timeout, InLoop
<1> QED
  BY <1>1, <1>2, <1>3 DEF Next

\* A coroutine that waits does so for an operation.
OpInv == \A k \in Co : Waits(k) => co[k].op # 0

\* Operations are numbered from 1.
LEMMA OpCorrect == Spec => []OpInv
<1>1. Init => OpInv
  BY DEF Init, ClientInit, IdleCo, OpInv, Waits
<1>2. TypeOK /\ ContextInv /\ OpInv /\ [Next]_vars => OpInv'
  <2> SUFFICES ASSUME TypeOK, ContextInv, OpInv, [Next]_vars PROVE OpInv'
    OBVIOUS
  <2>1. ASSUME UNCHANGED co PROVE OpInv'
    BY <2>1 DEF OpInv, Waits
  <2>2. ASSUME NEW k \in Co, Begins(k) PROVE OpInv'
    BY <2>2, ResultTypes DEF OpInv, Waits, Begins
  <2>3. ASSUME NEW k \in Co, Ends(k) PROVE OpInv'
    BY <2>3 DEF OpInv, Waits, Ends
  <2>4. ASSUME NEW g, Finish(g) PROVE UNCHANGED co
    BY <2>4 DEF Finish, clientVars
  <2>5. ThreadHandler \/ ThreadEvent => UNCHANGED co
    BY Zenon
    DEF ThreadHandler, thread_handler, ThreadEvent, thread_event_handler
  <2> QED
    BY Zenon, StepKinds, <2>1, <2>2, <2>3, <2>4, <2>5
    DEF Quiet, Drops, Resumed, GivesUp
<1> QED
  BY <1>1, <1>2, TypeCorrect, ContextCorrect, PTL DEF Spec

\* The event handler loses answers only if memory runs out, or reads the
\* array that has been freed.
LEMMA EventKeeps ==
  ASSUME TypeOK, ThreadEvent
  PROVE  /\ UNCHANGED <<goroutines, tasks, co, nops, ngx_exiting>>
         /\ thctx.freed => fault' = "uaf"
         /\ ~thctx.freed => /\ fault' = fault
                            /\ Answers' \subseteq Answers
                            /\ ~MayFail => Answers' = Answers
<1>1. UNCHANGED <<goroutines, tasks, co, nops, ngx_exiting>>
  BY Zenon DEF ThreadEvent, thread_event_handler, engineVars
<1>2. thctx.freed => fault' = "uaf"
  BY DEF ThreadEvent, thread_event_handler
<1>3. ASSUME ~thctx.freed
      PROVE  /\ fault' = fault /\ Answers' \subseteq Answers
             /\ ~MayFail => Answers' = Answers
  <2>1. PICK t \in Seq(Result) :
          /\ thctx'.finished_tasks = <<>>
          /\ thctx'.occupied = thctx.occupied \o t
          /\ Elems(t) \subseteq Fetched /\ (~MayFail => Elems(t) = Fetched)
    BY Zenon, <1>3, EventMoves
  <2>2. /\ Occupied' = Occupied \cup Elems(t) /\ Reported' = Reported
        /\ Fetched' = {}
    BY <1>1, <2>1, ResultTypes, ConcatResults, QueueEmpty
    DEF Occupied, Reported, Fetched
  <2>3. fault' = fault
    BY <1>3 DEF ThreadEvent, thread_event_handler
  <2> QED
    BY <1>1, <2>1, <2>2, <2>3 DEF Answers
<1> QED
  BY <1>1, <1>2, <1>3

\* One answer leaves the queue.
LEMMA TakesOne ==
  ASSUME TypeOK, OpsInv, Takes
  PROVE  /\ Head(thctx.occupied) \in Answers
         /\ {x.op : x \in Answers'}
              = {x.op : x \in Answers} \ {Head(thctx.occupied).op}
<1> DEFINE h == Head(thctx.occupied)
<1>1. /\ Occupied = {h} \cup Occupied' /\ Apart({h}, Occupied')
      /\ Reported' = Reported /\ Fetched' = Fetched /\ goroutines' = goroutines
  BY Zenon, ResultTypes, TakeHead
  DEF Takes, OpsInv, Occupied, Reported, Fetched
<1> HIDE DEF h
<1>2. \A x \in Answers' : x \in Answers /\ x.op # h.op
  BY <1>1 DEF OpsInv, Apart, Answers
<1>3. h \in Answers /\ \A x \in Answers : x = h \/ x \in Answers'
  BY <1>1 DEF Answers
<1> QED
  BY <1>2, <1>3 DEF h

\* Steps that answer nobody are steps of Calls.
LEMMA QuietAnswers ==
  ASSUME TypeOK, AnswerInv,
         Quiet \/ ThreadHandler \/ \E g \in goroutines : Finish(g)
  PROVE  /\ UNCHANGED <<co, nops, fault>>
         /\ {x.op : x \in Answers'} = {x.op : x \in Answers}
<1>1. CASE Quiet
  BY <1>1 DEF Quiet, Answers, Reported, Fetched, Occupied
<1>2. CASE ThreadHandler
  <2>1. /\ pool = "queued" /\ tasks' = <<>>
        /\ thctx'.finished_tasks = tasks /\ thctx'.occupied = thctx.occupied
        /\ UNCHANGED <<goroutines, co, nops, fault>>
    BY <1>2, ResultTypes
    DEF ThreadHandler, thread_handler, grpc_engine_wait, ThreadCtx
  <2>2. thctx.finished_tasks = <<>>
    BY <2>1 DEF AnswerInv, FetchInv
  <2>3. /\ Reported' = {} /\ Fetched' = Reported /\ Occupied' = Occupied
        /\ Fetched = {}
    BY <2>1, <2>2, QueueEmpty DEF Reported, Fetched, Occupied
  <2> QED
    BY <2>1, <2>3 DEF Answers
<1>3. ASSUME NEW g \in goroutines, Finish(g)
      PROVE  /\ UNCHANGED <<co, nops, fault>>
             /\ {x.op : x \in Answers'} = {x.op : x \in Answers}
  <2>1. PICK type \in ResType : ReportFinishedTask(g, type)
    BY <1>3 DEF Finish, Outcome, ResType
  <2> DEFINE r == [id |-> g.id, op |-> g.op, type |-> type]
  <2>2. /\ r \in Result /\ r.op = g.op
        /\ goroutines' = goroutines \ {g} /\ tasks' = Append(tasks, r)
    BY <2>1, ResultTypes DEF ReportFinishedTask, Goroutine, Result
  <2> HIDE DEF r
  <2>3. UNCHANGED <<Fetched, Occupied, co, nops, fault>>
    BY Zenon, <1>3 DEF Finish, clientVars, Fetched, Occupied
  <2>4. Reported' = Reported \cup {r}
    BY <2>2, ResultTypes, QueueAppend DEF Reported
  <2>5. \A x \in Answers' : x = r \/ x \in Answers
    BY <2>2, <2>3, <2>4 DEF Answers
  <2>6. \A x \in Answers : x = g \/ x \in Answers'
    BY <2>2, <2>3, <2>4 DEF Answers
  <2>7. g \in Answers /\ r \in Answers'
    BY <2>4 DEF Answers
  <2> QED
    BY <2>2, <2>3, <2>5, <2>6, <2>7
<1> QED
  BY Zenon, <1>1, <1>2, <1>3

\* A coroutine that stops to wait does not call any more.
LEMMA EndsCalling ==
  ASSUME NEW k \in Co, Ends(k), OpInv
  PROVE  Calling[k] # 0 /\ Calling' = [Calling EXCEPT ![k] = 0]
BY Zenon DEF Ends, Calling, Waits, OpInv

\* Every step of the worker is one of Calls, or none.
LEMMA PromiseStep ==
  TypeOK /\ TypeOK' /\ ContextInv /\ AnswerInv /\ OpInv /\ [Next]_vars
  => [Promise!Next]_(Promise!vars)
<1> SUFFICES ASSUME TypeOK, TypeOK', ContextInv, AnswerInv, OpInv, [Next]_vars
             PROVE  [Promise!Next]_(Promise!vars)
  OBVIOUS
<1>1. Coming = {x.op : x \in Answers} /\ Coming' = {x.op : x \in Answers'}
  <2>1. (TypeOK => Coming = {x.op : x \in Answers})'
    BY ComingAre, PTL
  <2> QED
    BY Zenon, ComingAre, <2>1
<1>2. ASSUME UNCHANGED <<co, nops, fault>>, Coming' = Coming
      PROVE  UNCHANGED Promise!vars
  BY <1>2 DEF Promise!vars, Calling, Waits, Up
<1>3. CASE UNCHANGED vars
  <2>1. UNCHANGED <<goroutines, tasks, thctx, co, nops, fault>>
    BY Zenon, <1>3 DEF vars, engineVars, clientVars
  <2>2. Coming' = Coming
    BY <2>1 DEF Coming, InEngine, InPipeline, Pipeline
  <2> QED
    BY Zenon, <1>2, <2>1, <2>2
<1>4. CASE Next
  <2>0. Up
    BY <1>4, NextUp
  <2>1. ASSUME Quiet \/ ThreadHandler \/ \E g \in goroutines : Finish(g)
        PROVE  UNCHANGED Promise!vars
    BY Zenon, <1>1, <1>2, <2>1, QuietAnswers
  <2>2. ASSUME NEW k \in Co, Begins(k) PROVE Promise!Crash \/ Promise!Start(k)
    <3>1. CASE fault' = "panic"
      BY <3>1 DEF Promise!Crash, Up
    <3>2. ASSUME UNCHANGED fault, NEW g, Goes(k, g)
          PROVE  Promise!Start(k)
      <4>1. Answers' = Answers \cup {g}
        BY <2>2, <3>2 DEF Begins, Goes, Answers, Reported, Fetched, Occupied
      <4>2. Coming' = Coming \cup {nops + 1}
        BY <1>1, <3>2, <4>1 DEF Goes
      <4>3. Calling[k] = 0 /\ Calling' = [Calling EXCEPT ![k] = nops + 1]
        BY ZenonT(40), <2>2 DEF Begins, Calling, Waits
      <4>4. nops' = nops + 1 /\ UNCHANGED Up
        BY <2>2, <3>2 DEF Begins, Up
      <4> QED
        BY <4>2, <4>3, <4>4 DEF Promise!Start
    <3> QED
      BY Zenon, <2>2, <3>1, <3>2 DEF Begins
  <2>3. CASE ThreadEvent
    <3>1. CASE thctx.freed
      BY <2>0, <2>3, <3>1, EventKeeps DEF Promise!Next, Promise!Crash, Up
    <3>2. CASE ~thctx.freed
      <4>1. /\ UNCHANGED <<co, nops, fault>> /\ Coming' \subseteq Coming
            /\ ~MayFail => Coming' = Coming
        BY <1>1, <2>3, <3>2, EventKeeps
      <4> QED
        BY <1>2, <2>0, <4>1
        DEF Promise!Next, Promise!Lose, Promise!vars, Calling, Waits, Up
    <3> QED
      BY <3>1, <3>2
  <2>4. ASSUME Takes
        PROVE  /\ Head(thctx.occupied).op \in Coming
               /\ Coming' = Coming \ {Head(thctx.occupied).op}
    BY <1>1, <2>4, TakesOne DEF AnswerInv
  <2>5. CASE Drops
    <3>1. Head(thctx.occupied) \in Answers
      BY <2>5, TakesOne DEF Drops, AnswerInv
    <3>2. \A k \in Co : Waits(k) => co[k].data # Head(thctx.occupied).id
      BY Zenon, <2>5 DEF Drops, ContextInv, KeptIsWaiting
    <3>3. Promise!Abandoned(Head(thctx.occupied).op)
      <4> SUFFICES ASSUME NEW k \in Co
                   PROVE  Calling[k] # Head(thctx.occupied).op
        BY DEF Promise!Abandoned
      <4>1. Head(thctx.occupied).op # 0
        BY <2>4, <2>5 DEF Drops, Coming, Op
      <4> QED
        BY <3>1, <3>2, <4>1 DEF Calling, AnswerInv, IdInv
    <3>4. UNCHANGED <<Calling, nops, Up>>
      BY <2>5 DEF Drops, Takes, Calling, Waits, Up
    <3> QED
      BY <2>0, <2>4, <2>5, <3>3, <3>4 DEF Drops, Promise!Drop, Promise!Next
  <2>6. ASSUME NEW k \in Co, GivesUp(k) PROVE Promise!GiveUp(k)
    <3>1. /\ UNCHANGED <<nops, fault, goroutines, tasks, thctx>>
          /\ Ends(k)
      BY <2>6 DEF GivesUp
    <3>2. UNCHANGED <<Coming, nops, Up>>
      BY <3>1 DEF Coming, InEngine, InPipeline, Pipeline, Up
    <3> QED
      BY <3>1, <3>2, EndsCalling DEF Promise!GiveUp
  <2>7. ASSUME NEW k \in Co, Resumed(k) PROVE Promise!Return(k)
    <3> DEFINE n == Head(thctx.occupied).op
    <3>1. Head(thctx.occupied) \in Answers
      BY <2>7, TakesOne DEF Resumed, AnswerInv
    <3>2. n = Calling[k] \/ Promise!Abandoned(n)
      <4> SUFFICES ASSUME NEW j \in Co, Calling[j] = n PROVE n = Calling[k]
        BY DEF Promise!Abandoned
      <4>1. n # 0
        BY <2>4, <2>7 DEF Resumed, Coming, Op
      <4>2. Waits(j) /\ co[j].op = n
        BY <4>1 DEF Calling
      <4>3. co[j].data = Head(thctx.occupied).id
        BY <3>1, <4>2 DEF AnswerInv, IdInv
      <4>4. j = k
        BY <2>7, <4>2, <4>3 DEF Resumed, Ends, ContextInv, KeptIsWaiting
      <4> QED
        BY <4>4
    <3>3. Calling[k] # 0 /\ Calling' = [Calling EXCEPT ![k] = 0]
      BY <2>7, EndsCalling DEF Resumed
    <3>4. UNCHANGED <<nops, Up>>
      BY <2>7 DEF Resumed, Takes, Up
    <3>5. n \in Coming /\ Coming' = Coming \ {n}
      BY <2>4, <2>7 DEF Resumed
    <3> HIDE DEF n
    <3> QED
      BY <3>2, <3>3, <3>4, <3>5 DEF Promise!Return
  <2> QED
    BY Zenon, StepKinds, <2>0, <2>1, <2>2, <2>3, <2>5, <2>6, <2>7
    DEF Promise!Next
<1> QED
  BY <1>3, <1>4

\* Whatever threads, timers, finalizers and late results interleave, a call
\* that returns has used up its own answer or one whose caller has given up,
\* and no answer is dropped or given away while its caller waits, for any
\* number of coroutines, contexts and calls.
THEOREM PromiseCorrect == Spec => ImplementsCalls
<1>1. Init => Promise!Init
  <2> SUFFICES ASSUME Init PROVE Promise!Init
    OBVIOUS
  <2>1. goroutines = {} /\ tasks = <<>> /\ thctx.finished_tasks = <<>>
        /\ thctx.occupied = <<>> /\ nops = 0 /\ fault = "none"
        /\ \A k \in Co : ~Waits(k)
    BY DEF Init, EngineInit, ClientInit, IdleCo, Waits
  <2>2. Answers = {}
    BY <2>1, QueueEmpty DEF Answers, Reported, Fetched, Occupied
  <2>3. Coming = {}
    BY <2>2, ComingAre, InitType
  <2>4. Up = TRUE
    BY <2>1 DEF Up
  <2>5. Calling = [k \in Co |-> 0]
    BY <2>1 DEF Calling
  <2> QED
    BY <2>1, <2>3, <2>4, <2>5 DEF Promise!Init
<1> QED
  BY <1>1, PromiseStep, TypeCorrect, ContextCorrect, AnswerCorrect, OpCorrect,
     PTL DEF Spec, ImplementsCalls, Promise!Spec
=============================================================================
