-------------------------- MODULE GrpcClientLimits --------------------------
(***************************************************************************)
(* How far the exceptions to the worker's promises go: the thread is left  *)
(* idle under a waiting call only with a straggler's result in hand, the   *)
(* engine panics on a stream only after a mistaken result, contexts are    *)
(* lost only in the creation of streams and leak only with unary calls.    *)
(***************************************************************************)
EXTENDS GrpcClientProofs

\* The thread is idle under a waiting call only with a straggler's result.

\* WaitThreadArmed, by the set of posted results.
Armed ==
  \A k \in Co :
    Waits(k) /\ ~ngx_exiting /\ Up /\ (\A x \in Occupied : x.op # co[k].op)
    => pool # "idle"

\* The set holds what the sequence does.
LEMMA ArmedIs == WaitThreadArmed <=> Armed
BY DEF WaitThreadArmed, Armed, Occupied, Elems

\* The thread stays active, and no coroutine begins to wait or loses a posted
\* result.
LEMMA ArmedFrame ==
  ASSUME Armed, Up' => Up, ngx_exiting => ngx_exiting',
         pool' = "idle" => pool = "idle",
         \A j \in Co : Waits(j)' =>
           /\ Waits(j) /\ co'[j].op = co[j].op
           /\ \A x \in Occupied : x.op = co[j].op => x \in Occupied'
  PROVE  Armed'
BY DEF Armed

\* Each of the n results fetched is that of a waiting call, and there are no
\* more than n calls: the result of every call is among them.
LEMMA AllFetched ==
  ASSUME TypeOK, ContextInv, AnswerInv, CountInv, ~StragglerFetched,
         ongoing_tasks_num <= Len(thctx.finished_tasks),
         NEW k \in Co, Waits(k)
  PROVE  \E x \in Fetched : x.op = co[k].op
<1> DEFINE s == thctx.finished_tasks
           F == [i \in 1 .. Len(s) |-> s[i].id]
<1>0. s \in Seq(Result) /\ Len(s) \in Nat
  BY ResultTypes
<1>1. \A j \in Co : Waits(j) => /\ co[j].data \in ongoing_tasks
                                /\ sctx[co[j].data].wait_co_ctx = j
  BY Zenon DEF ContextInv, KeptIsWaiting
<1>2. ASSUME NEW i \in 1 .. Len(s)
      PROVE  \E j \in Co : /\ Waits(j) /\ co[j].op = s[i].op
                           /\ co[j].data = s[i].id
  <2>1. s[i] \in Answers
    BY DEF Answers, Fetched, Elems
  <2>2. PICK j \in Co : Waits(j) /\ co[j].op = s[i].op
    BY DEF StragglerFetched
  <2> QED
    BY <2>1, <2>2 DEF AnswerInv, IdInv
<1>3. F \in [1 .. Len(s) -> ongoing_tasks]
  BY <1>1, <1>2
<1>4. ASSUME NEW i \in 1 .. Len(s), NEW j \in 1 .. Len(s), s[i].id = s[j].id
      PROVE  i = j
  <2>1. s[i].op = s[j].op
    BY <1>1, <1>2, <1>4
  <2> QED
    BY <2>1 DEF AnswerInv, OpsInv, Distinct
<1>5. F \in Injection(1 .. Len(s), ongoing_tasks)
  BY <1>3, <1>4 DEF Injection, IsInjective
<1> HIDE DEF F
<1>6. F \in Surjection(1 .. Len(s), ongoing_tasks)
  <2>1. /\ IsFiniteSet(ongoing_tasks)
        /\ Cardinality(ongoing_tasks) <= Len(s)
    BY DEF CountInv, OngoingCount
  <2>2. Cardinality(1 .. Len(s)) = Len(s)
    BY <1>0, FS_Interval
  <2>3. Cardinality(ongoing_tasks) \in Nat
    BY <2>1, FS_CardinalityType
  <2>4. Len(s) <= Cardinality(ongoing_tasks)
    BY <1>5, <2>1, <2>2, FS_Injection
  <2>5. Cardinality(1 .. Len(s)) = Cardinality(ongoing_tasks)
    BY <1>0, <2>1, <2>2, <2>3, <2>4
  <2> QED
    BY <1>5, <2>1, <2>5, FS_Injection
<1>7. PICK i \in 1 .. Len(s) : s[i].id = co[k].data
  BY Zenon, <1>1, <1>6 DEF Surjection, F
<1>8. s[i].op = co[k].op
  BY <1>1, <1>2, <1>7
<1> QED
  BY <1>8 DEF Fetched, Elems

\* A coroutine that goes on waiting does not wait for the result that leaves
\* the queue.
LEMMA TakesArmed ==
  ASSUME TypeOK, AnswerInv, Armed, Takes,
         \A j \in Co : Waits(j)' => /\ Waits(j) /\ co'[j] = co[j]
                                    /\ co[j].data # Head(thctx.occupied).id
  PROVE  Armed'
<1> DEFINE h == Head(thctx.occupied)
<1>1. Occupied = {h} \cup Occupied'
  BY ZenonT(40), ResultTypes, TakeHead DEF Takes, Occupied
<1>2. h \in Answers
  BY <1>1 DEF Answers
<1>3. \A j \in Co : Waits(j)' => co[j].op # h.op
  BY <1>2 DEF AnswerInv, IdInv
<1> HIDE DEF h
<1> QED
  BY <1>1, <1>3, ArmedFrame DEF Takes, Up

\* Every step but the one that counts a straggler's result leaves the thread
\* armed.
LEMMA ArmedStep ==
  ASSUME TypeOK, ContextInv, AnswerInv, CountInv, [Next]_vars, Armed,
         ~StragglerFetched, ~MayFail
  PROVE  Armed'
<1>1. ASSUME Quiet PROVE Armed'
  BY <1>1, ArmedFrame DEF Quiet, Occupied, Waits, Up, Scheduled
<1>2. ASSUME NEW g, Finish(g) PROVE Armed'
  <2>1. UNCHANGED <<thctx, pool, co, ngx_exiting, fault>>
    BY Zenon, <1>2 DEF Finish, clientVars
  <2> QED
    BY <2>1, ArmedFrame DEF Occupied, Waits, Up
<1>3. ASSUME ThreadHandler PROVE Armed'
  BY <1>3 DEF ThreadHandler, thread_handler, Armed
<1>4. ASSUME NEW k \in Co, Begins(k) PROVE Armed'
  BY <1>4 DEF Begins, Armed, Scheduled
<1>5. ASSUME NEW k \in Co, GivesUp(k) PROVE Armed'
  <2>1. \A j \in Co : Waits(j)' => Waits(j) /\ co'[j] = co[j]
    BY <1>5 DEF GivesUp, Ends, Waits
  <2> QED
    BY <1>5, <2>1, ArmedFrame DEF GivesUp, Occupied, Up
<1>6. ASSUME Drops PROVE Armed'
  <2>1. \A j \in Co : Waits(j) => co[j].data # Head(thctx.occupied).id
    BY Zenon, <1>6 DEF Drops, ContextInv, KeptIsWaiting
  <2> QED
    BY <1>6, <2>1, TakesArmed DEF Drops, Waits
<1>7. ASSUME NEW k \in Co, Resumed(k) PROVE Armed'
  <2>1. \A j \in Co : Waits(j)' => Waits(j) /\ co'[j] = co[j] /\ j # k
    BY <1>7 DEF Resumed, Ends, Waits
  <2>2. \A j \in Co : Waits(j) /\ j # k => co[j].data # Head(thctx.occupied).id
    BY <1>7 DEF Resumed, Ends, ContextInv, KeptIsWaiting
  <2> QED
    BY <1>7, <2>1, <2>2, TakesArmed DEF Resumed
<1>8. ASSUME ThreadEvent PROVE Armed'
  <2>1. CASE thctx.freed
    BY <1>8, <2>1, EventKeeps DEF Armed, Up
  <2>2. CASE ~thctx.freed
    <3>1. /\ pool' = IF StillHaveTasksToWait(Len(thctx.finished_tasks))
                     THEN "queued" ELSE "idle"
          /\ UNCHANGED <<co, ngx_exiting>>
      BY <1>8, <2>2 DEF ThreadEvent, thread_event_handler
    <3>2. CASE pool' = "queued" \/ ngx_exiting
      BY <3>1, <3>2 DEF Armed
    <3>3. CASE pool' = "idle" /\ ~ngx_exiting
      <4>1. ongoing_tasks_num <= Len(thctx.finished_tasks)
        BY <3>1, <3>3, ResultTypes
        DEF StillHaveTasksToWait, TypeOK, ClientTypeOK
      <4>2. PICK t \in Seq(Result) :
              /\ thctx'.occupied = thctx.occupied \o t
              /\ Elems(t) = Fetched
        BY Zenon, <1>8, <2>2, EventMoves
      <4>3. Fetched \subseteq Occupied'
        BY <4>2, ResultTypes, ConcatResults DEF Occupied
      <4>4. \A k \in Co : Waits(k) => \E x \in Occupied' : x.op = co[k].op
        BY <4>1, <4>3, AllFetched
      <4> QED
        BY <3>1, <4>4 DEF Armed, Waits
    <3> QED
      BY <3>1, <3>2, <3>3
  <2> QED
    BY <2>1, <2>2
<1> QED
  BY Zenon, StepKinds, <1>1, <1>2, <1>3, <1>4, <1>5, <1>6, <1>7, <1>8

\* The comparison of ongoing_tasks_num with the number of finished tasks is
\* right, for any number of coroutines, unless a straggler's result is among
\* them: only then does the thread become idle under a waiting call.
THEOREM ArmedCorrect == Spec => ArmedUnlessStraggler
<1>1. TypeOK /\ ContextInv /\ AnswerInv /\ CountInv /\ [Next]_vars
      => [WaitThreadArmed /\ ~StragglerFetched /\ ~MayFail
          => WaitThreadArmed']_vars
  <2> SUFFICES ASSUME TypeOK, ContextInv, AnswerInv, CountInv, [Next]_vars,
                      WaitThreadArmed, ~StragglerFetched, ~MayFail
               PROVE  WaitThreadArmed'
    OBVIOUS
  <2>1. Armed'
    BY ArmedIs, ArmedStep
  <2>2. (WaitThreadArmed <=> Armed)'
    BY ArmedIs, PTL
  <2> QED
    BY <2>1, <2>2
<1> QED
  BY <1>1, TypeCorrect, ContextCorrect, AnswerCorrect, CountInvCorrect, PTL
  DEF Spec, ArmedUnlessStraggler

----------------------------------------------------------------------------
\* Contexts are lost only in the creation of streams.

\* A connection that leaks has an opening stream which nothing will close
\* (close and close_stream).
THEOREM LeakCorrect == Spec => []LeakIsLost
<1>1. TypeOK /\ ContextInv /\ HandleInv => LeakIsLost
  <2> SUFFICES ASSUME TypeOK, ContextInv, HandleInv, NEW c \in Conn,
                      lconn[c] = "gone", ctx[c].heap # "freed",
                      \A a \in Sctx : sctx[a].parent = c =>
                        lstream[a] = "none" /\ a \notin ongoing_tasks
               PROVE  \E a \in ctx[c].opening : Lost(a)
    BY Zenon DEF LeakIsLost, Leaks
  <2>1. ctx[c].opening # {}
    BY DEF HandleInv, DelayedFree
  <2>2. PICK a \in ctx[c].opening : a \in Sctx
    BY <2>1 DEF TypeOK, ClientTypeOK, Ctx
  <2>3. sctx[a].parent = c
    BY DEF ContextInv, SctxOwnership, Owned
  <2> QED
    BY <2>2, <2>3 DEF Lost
<1> QED
  BY <1>1, TypeCorrect, ContextCorrect, HandleInvCorrect, PTL

\* A step that opens no stream, drops no handle and ends no wait loses no
\* context.
LEMMA LostFrame ==
  ASSUME NEW a, \A c \in Conn : a \in ctx'[c].opening => a \in ctx[c].opening,
         lstream'[a] = "none" => lstream[a] = "none",
         a \in ongoing_tasks => a \in ongoing_tasks'
  PROVE  Lost(a)' => Lost(a)
BY DEF Lost

\* The context of a wait that ends is lost if it was for a new stream.
LEMMA LostUnkept ==
  ASSUME TypeOK, ContextInv, NEW k \in Co, Waits(k), ~Waits(k)',
         ongoing_tasks' = ongoing_tasks \ {co[k].data},
         \A c \in Conn : ctx'[c].opening = ctx[c].opening,
         \A b \in Sctx : lstream'[b] = "none" => lstream[b] = "none",
         NEW a \in Sctx, Lost(a)', ~Lost(a)
  PROVE  co[k].kind = "new_stream" /\ co[k].data = a
<1>1. co[k].data = a
  BY LostFrame
<1>2. a \in ongoing_tasks /\ sctx[a].wait_co_ctx = k
  BY <1>1 DEF ContextInv, KeptIsWaiting
<1>3. lstream[a] = "none" /\ \E c \in Conn : a \in ctx[c].opening
  BY DEF Lost
<1>4. sctx[a].type # "unary"
  BY <1>3 DEF ContextInv, HandleIsOpening, Opens
<1>5. Flies(a)
  BY <1>2 DEF ContextInv, InFlight
<1> QED
  BY <1>1, <1>2, <1>3, <1>4, <1>5 DEF Flies

\* The step that loses a context ends a wait for a new stream.
LEMMA LostStep ==
  ASSUME TypeOK, ContextInv, [Next]_vars, NEW a \in Sctx, Lost(a)', ~Lost(a)
  PROVE  \E k \in Co : /\ Waits(k) /\ co[k].kind = "new_stream"
                       /\ co[k].data = a /\ ~Waits(k)'
<1>0. /\ ctx \in [Conn -> Ctx]
      /\ lstream \in [Sctx -> {"none", "open", "closed"}]
      /\ ongoing_tasks \subseteq Sctx
  BY DEF TypeOK, ClientTypeOK
<1>1. ASSUME UNCHANGED <<ctx, lstream, ongoing_tasks>> PROVE FALSE
  BY <1>1, LostFrame
<1>2. CASE EventLoop \/ UNCHANGED vars
  BY <1>1, <1>2 DEF EventLoop, RunRequest, Yield, Exit, vars, clientVars,
                    taskVars, luaVars
<1>3. CASE Lua
  <2>1. ASSUME NEW c \in Conn, UNCHANGED <<lstream, ongoing_tasks>>,
               connect(c) \/ close(c, FALSE) \/ close(c, TRUE)
        PROVE  FALSE
    <3>1. ASSUME connect(c)
          PROVE  \A d \in Conn : ctx'[d].opening = ctx[d].opening
      BY <1>0, <3>1 DEF connect, Ctx
    <3>2. ASSUME NEW gc \in BOOLEAN, close(c, gc)
          PROVE  \A d \in Conn : ctx'[d].opening \subseteq ctx[d].opening
      <4>1. CASE gc /\ ctx[c].opening = {}
        <5>1. ctx' = [ctx EXCEPT ![c] = [NoCtx EXCEPT !.heap = "freed"]]
          BY <3>2, <4>1 DEF close, free_conn
        <5> QED
          BY <1>0, <5>1 DEF NoCtx
      <4>2. CASE ~(gc /\ ctx[c].opening = {})
        <5>1. ctx' = [ctx EXCEPT ![c].engine_ctx = FALSE,
                                 ![c].free_delayed = @ \/ gc]
          BY Zenon, <3>2, <4>2 DEF close
        <5> QED
          BY <1>0, <5>1 DEF Ctx
      <4> QED
        BY <4>1, <4>2
    <3>3. \A d \in Conn : ctx'[d].opening \subseteq ctx[d].opening
      BY Zenon, <2>1, <3>1, <3>2
    <3> QED
      BY <2>1, <3>3, LostFrame
  <2>9. ASSUME NEW k \in Co, NEW c \in Conn, Connect(k, c) \/ ConnClose(k, c)
        PROVE  FALSE
    BY Zenon, <2>1, <2>9 DEF Connect, ConnClose, taskVars
  <2>10. ASSUME NEW c \in Conn, ctx_gc_handler(c) PROVE FALSE
    BY Zenon, <2>1, <2>10 DEF ctx_gc_handler, taskVars
  <2>2. ASSUME NEW k \in Co, NEW c \in Conn, NEW type \in StreamTypes,
               StartCall(k, c, type)
        PROVE  FALSE
    <3>1. PICK b \in Sctx : new_stream(k, c, b, type)
      BY <2>2 DEF StartCall
    <3>2. \A d \in Conn : ctx'[d].opening \subseteq ctx[d].opening \cup {b}
      BY <1>0, <3>1 DEF new_stream, Ctx
    <3>3. ongoing_tasks' = ongoing_tasks \cup {b} /\ lstream' = lstream
      BY <2>2, <3>1 DEF StartCall, new_stream, kick_off_task, keep_task, luaVars
    <3>4. a # b
      BY <3>3 DEF Lost
    <3> QED
      BY <3>2, <3>3, <3>4, LostFrame
  <2>3. ASSUME NEW k \in Co, NEW c \in Conn, NEW type \in StreamTypes,
               StartCallFails(k, c, type)
        PROVE  FALSE
    <3>1. PICK b \in Sctx : new_stream_fails(k, c, b, type)
      BY <2>3 DEF StartCallFails
    <3>2. \A d \in Conn : ctx'[d].opening \subseteq ctx[d].opening
      BY <1>0, <3>1 DEF new_stream_fails, Ctx
    <3>3. ongoing_tasks' = ongoing_tasks /\ lstream' = lstream
      BY <2>3, <3>1
      DEF StartCallFails, new_stream_fails, kick_off_fails, luaVars, taskVars
    <3> QED
      BY <3>2, <3>3, LostFrame
  <2>4. ASSUME NEW k \in Co, NEW b \in Sctx, NEW kind \in Kind,
               StreamOp(k, b, kind)
        PROVE  FALSE
    BY <2>4, LostFrame
    DEF StreamOp, stream_op, kick_off_task, keep_task, luaVars
  <2>5. ASSUME NEW k \in Co, NEW b \in Sctx, StreamOpFails(k, b) PROVE FALSE
    BY <1>1, <2>5 DEF StreamOpFails, kick_off_fails, luaVars, taskVars
  <2>6. ASSUME NEW k \in Co, NEW b \in Sctx, StreamClose(k, b) PROVE FALSE
    <3>1. /\ UNCHANGED <<ctx, ongoing_tasks>>
          /\ lstream' = [lstream EXCEPT ![b] = "closed"]
      BY <2>6 DEF StreamClose, close_stream, taskVars
    <3> QED
      BY <1>0, <3>1, LostFrame
  <2>7. ASSUME NEW b \in Sctx, stream_gc_handler(b) PROVE FALSE
    <3> DEFINE c == sctx[b].parent
    <3>1. /\ c \in Conn /\ b \in ctx[c].opening
          /\ \A d \in Conn : b \in ctx[d].opening => d = c
      BY <2>7 DEF stream_gc_handler, ContextInv, HandleIsOpening, Opens,
                  SctxOwnership, Owned
    <3>2. ctx[c].heap = "live"
      BY <3>1 DEF ContextInv, ConnPhases
    <3>3. /\ close_stream(b, TRUE) /\ ongoing_tasks' = ongoing_tasks
          /\ lstream' = [lstream EXCEPT ![b] = "none"]
      BY Zenon, <2>7 DEF stream_gc_handler, taskVars
    <3>4. /\ \A d \in Conn : ctx'[d].opening \subseteq ctx[d].opening
          /\ b \notin ctx'[c].opening
      <4>1. CASE ctx[c].free_delayed /\ ctx[c].opening \ {b} = {}
        <5>1. ctx' = [ctx EXCEPT ![c] = [NoCtx EXCEPT !.heap = "freed"]]
          BY <3>2, <3>3, <4>1 DEF close_stream, free_conn
        <5> QED
          BY <1>0, <3>1, <5>1 DEF NoCtx
      <4>2. CASE ~(ctx[c].free_delayed /\ ctx[c].opening \ {b} = {})
        <5>1. ctx' = [ctx EXCEPT ![c].opening = ctx[c].opening \ {b},
                                 ![c].free = Append(ctx[c].free, b)]
          BY Zenon, <3>2, <3>3, <4>2 DEF close_stream
        <5> QED
          BY <1>0, <3>1, <5>1 DEF Ctx
      <4> QED
        BY <4>1, <4>2
    <3> HIDE DEF c
    <3>5. a # b
      BY <3>1, <3>4 DEF Lost
    <3> QED
      BY <1>0, <3>3, <3>4, <3>5, LostFrame
  <2>8. ASSUME NEW k \in Co, Kill(k)
        PROVE  /\ Waits(k) /\ co[k].kind = "new_stream"
               /\ co[k].data = a /\ ~Waits(k)'
    <3>1. /\ co[k].cleanup /\ unkeep_task(co[k].data)
          /\ co' = [co EXCEPT ![k] = [IdleCo EXCEPT !.status = "dead"]]
          /\ UNCHANGED <<ctx, lstream>>
      BY Zenon, <2>8 DEF Kill, cleanup, luaVars
    <3>2. Waits(k) /\ co[k].data \in ongoing_tasks
      BY Zenon, <3>1 DEF ContextInv, KeptIsWaiting
    <3>3. ~Waits(k)'
      BY <3>1 DEF Waits, IdleCo, TypeOK, ClientTypeOK
    <3>4. ongoing_tasks' = ongoing_tasks \ {co[k].data}
      BY <1>0, <3>1, <3>2, UnkeepRemoves
    <3> QED
      BY <3>1, <3>2, <3>3, <3>4, LostUnkept
  <2> QED
    BY ZenonT(40), <1>3, <2>2, <2>3, <2>4, <2>5, <2>6, <2>7, <2>8, <2>9, <2>10
    DEF Lua
<1>4. CASE Handlers
  <2>1. ASSUME \/ \E g \in goroutines : Finish(g)
               \/ ThreadHandler \/ ThreadEvent \/ PostedCancelled \/ PostedEmpty
        PROVE  FALSE
    BY Zenon, <1>1, <2>1
    DEF Finish, ThreadHandler, thread_handler, ThreadEvent,
        thread_event_handler, PostedCancelled, post_event_cancelled,
        PostedEmpty, post_event_empty, clientVars, taskVars, luaVars
  <2>2. ASSUME NEW k \in Co, NEW b \in Sctx, NEW ok \in BOOLEAN,
               b \in ongoing_tasks, k = sctx[b].wait_co_ctx, to_resume(k, b),
               LuaContinues(k, b, ok)
        PROVE  /\ Waits(k) /\ co[k].kind = "new_stream"
               /\ co[k].data = a /\ ~Waits(k)'
    <3>1. Waits(k) /\ co[k].data = b
      BY Zenon, <2>2 DEF ContextInv, KeptIsWaiting
    <3>2. ~Waits(k)'
      BY <2>2 DEF to_resume, Waits, IdleCo, TypeOK, ClientTypeOK
    <3>3. ongoing_tasks' = ongoing_tasks \ {b}
      BY Zenon, <2>2, UnkeepRemoves DEF to_resume
    <3>4. \A d \in Sctx : lstream'[d] = "none" => lstream[d] = "none"
      BY <1>0, <2>2 DEF LuaContinues
    <3>5. \A c \in Conn : ctx'[c].opening = ctx[c].opening
      <4> DEFINE p == sctx[b].parent
                 x == [ctx[p] EXCEPT !.free = Append(@, b)]
      <4>1. ASSUME p \in Conn PROVE x.opening = ctx[p].opening
        BY <1>0, <4>1 DEF Ctx
      <4>2. ctx' = ctx \/ ctx' = [ctx EXCEPT ![p] = x]
        BY <2>2 DEF to_resume
      <4> HIDE DEF p, x
      <4> QED
        BY <1>0, <4>1, <4>2
    <3> QED
      BY <3>1, <3>2, <3>3, <3>4, <3>5, LostUnkept
  <2>3. ASSUME NEW k \in Co, NEW b \in Sctx, NEW ok \in BOOLEAN,
               PostedResumes(k, b, ok)
        PROVE  /\ b \in ongoing_tasks /\ k = sctx[b].wait_co_ctx
               /\ to_resume(k, b) /\ LuaContinues(k, b, ok)
    BY Zenon, <2>3 DEF PostedResumes, post_event_resumes, lookup_task
  <2>4. ASSUME NEW k \in Co, NEW b \in Sctx, Timeout(k, b)
        PROVE  /\ b \in ongoing_tasks /\ k = sctx[b].wait_co_ctx
               /\ to_resume(k, b) /\ LuaContinues(k, b, FALSE)
    <3>1. /\ co[k].timer /\ b = co[k].data /\ LuaContinues(k, b, FALSE)
          /\ to_resume(sctx[b].wait_co_ctx, b)
      BY Zenon, <2>4 DEF Timeout, timeout_handler
    <3>2. b \in ongoing_tasks /\ k = sctx[b].wait_co_ctx
      BY Zenon, <3>1 DEF ContextInv, KeptIsWaiting
    <3> QED
      BY Zenon, <3>1, <3>2
  <2>5. ASSUME NEW k \in Co, NEW b \in Sctx, NEW ok \in BOOLEAN,
               PostedResumes(k, b, ok) \/ Timeout(k, b)
        PROVE  /\ Waits(k) /\ co[k].kind = "new_stream"
               /\ co[k].data = a /\ ~Waits(k)'
    BY ZenonT(40), <2>2, <2>3, <2>4, <2>5
  <2> QED
    BY ZenonT(40), <1>4, <2>1, <2>5 DEF Handlers, Posted
<1> QED
  BY Zenon, <1>2, <1>3, <1>4 DEF Next

\* From the moment Lua has the handle of a stream its finalizer comes, for
\* any number of streams and connections: a context is lost only by the
\* coroutine that creates its stream.
THEOREM LostCorrect == Spec => LostOnlyInCreation
<1>1. TypeOK /\ ContextInv /\ [Next]_vars => LosesInCreation
  BY LostStep DEF LosesInCreation
<1> QED
  BY <1>1, TypeCorrect, ContextCorrect, PTL DEF Spec, LostOnlyInCreation

----------------------------------------------------------------------------
\* Contexts leak only when a unary call is aborted.

\* For any number of connections, streams and coroutines, a stream context
\* leaks only when the coroutine of a unary call is killed: cleanup is the
\* one handler that leaves a context where neither new_stream nor free_conn
\* finds it.
THEOREM OrphanCorrect == Spec => OrphanedOnlyByAbort
<1>1. TypeOK /\ ContextInv /\ [Next]_vars => OrphansAborted
  <2> SUFFICES ASSUME TypeOK, ContextInv, [Next]_vars, NEW a \in Sctx,
                      Orphan(a)', ~Orphan(a)
               PROVE  \E k \in Co : /\ Waits(k) /\ co[k].kind = "call"
                                    /\ co[k].data = a /\ co'[k].status = "dead"
    BY Zenon DEF OrphansAborted
  <2>1. TypeOK' /\ ContextInv'
    BY TypeStep, ContextStep
  <2>2. (TypeOK /\ ContextInv => HeldInv)'
    BY HeldAre, PTL
  <2>3. Drop(a)
    BY Zenon, <2>1, <2>2, HeldAre DEF HeldInv, Orphan, Drop
  <2> QED
    BY <2>3, DropStep
<1> QED
  BY <1>1, TypeCorrect, ContextCorrect, PTL DEF Spec, OrphanedOnlyByAbort

----------------------------------------------------------------------------
\* The engine panics on a stream only after a mistaken result.

\* The results on their way, wherever they are.
Results == Reported \cup Fetched \cup Occupied

\* The answer to a coroutine that creates a stream comes from a goroutine
\* that creates it, and says that there is a stream only if there is.
CreatedInv ==
  \A k \in Co : Waits(k) /\ co[k].kind = "new_stream" =>
    /\ \A g \in goroutines : g.op = co[k].op => g.kind = "new_stream"
    /\ \A x \in Results : x.op = co[k].op /\ x.type # "err" =>
                          co[k].data \in StreamRef

\* The first posted result says that coroutine k has created stream a.
Creates(k, a) == /\ Resumed(k) /\ co[k].kind = "new_stream" /\ co[k].data = a
                 /\ Head(thctx.occupied).type # "err"
                 /\ UNCHANGED StreamRef

\* The streams the engine knows.  It forgets one that Lua has, and will not
\* have open any more:
Forgets(a) == a \in StreamRef /\ a \notin StreamRef'

\* Lua opens one only with a result, and the engine panics only if Lua has
\* one open that the engine does not know.
RefStepOK ==
  /\ \A a \in Sctx : Forgets(a) => lstream[a] # "none" /\ lstream'[a] # "open"
  /\ \A a \in Sctx : lstream'[a] = "open" /\ lstream[a] # "open" =>
                     \E k \in Co : Creates(k, a)
  /\ fault' = "panic" => fault = "panic" \/ ~StreamKnown

\* Nothing happens to streams.
LEMMA RefFrame ==
  ASSUME UNCHANGED <<StreamRef, lstream, fault>>
  PROVE  RefStepOK
BY DEF RefStepOK, Forgets

\* What each step does to streams.
LEMMA RefStep ==
  ASSUME TypeOK, ContextInv, HandleInv, [Next]_vars
  PROVE  RefStepOK
<1>0. /\ lstream \in [Sctx -> {"none", "open", "closed"}]
      /\ StreamRef \subseteq Sctx
  BY DEF TypeOK, EngineTypeOK
<1>1. CASE EventLoop \/ UNCHANGED vars
  BY <1>1, RefFrame DEF EventLoop, RunRequest, Yield, Exit, vars, engineVars,
                        clientVars, luaVars
<1>2. CASE Lua
  <2>1. ASSUME NEW k \in Co, NEW c \in Conn, NEW type \in StreamTypes,
               StartCall(k, c, type)
        PROVE  RefStepOK
    <3>1. c \in EngineCtxRef
      BY <2>1 DEF StartCall, HandleInv, EngineCtxKnown
    <3>2. UNCHANGED <<StreamRef, lstream>>
      BY <2>1 DEF StartCall, luaVars
    <3>3. UNCHANGED fault
      BY <2>1, <3>1 DEF StartCall, new_stream, MustFindConn
    <3> QED
      BY <3>2, <3>3, RefFrame
  <2>2. ASSUME NEW k \in Co, NEW a \in Sctx, NEW kind \in Kind,
               StreamOp(k, a, kind)
        PROVE  RefStepOK
    <3>1. UNCHANGED <<StreamRef, lstream>> /\ lstream[a] = "open"
      BY <2>2 DEF StreamOp, luaVars
    <3>2. UNCHANGED fault \/ a \notin StreamRef
      BY Zenon, <2>2 DEF StreamOp, stream_op, MustFindStream
    <3> QED
      BY <3>1, <3>2 DEF RefStepOK, Forgets, StreamKnown
  <2>3. ASSUME NEW k \in Co, NEW c \in Conn, NEW type \in StreamTypes,
               StartCallFails(k, c, type)
        PROVE  RefStepOK
    BY <2>3, RefFrame DEF StartCallFails, engineVars, luaVars
  <2>4. ASSUME NEW k \in Co, NEW a \in Sctx, StreamOpFails(k, a)
        PROVE  RefStepOK
    BY <2>4, RefFrame DEF StreamOpFails, engineVars, luaVars
  <2>5. ASSUME NEW k \in Co, NEW c \in Conn, Connect(k, c) \/ ConnClose(k, c)
        PROVE  RefStepOK
    BY Zenon, <2>5, RefFrame DEF Connect, ConnClose
  <2>6. ASSUME NEW c \in Conn, ctx_gc_handler(c) PROVE RefStepOK
    BY Zenon, <2>6, RefFrame DEF ctx_gc_handler
  <2>7. ASSUME NEW k \in Co, Kill(k) PROVE RefStepOK
    BY <2>7, RefFrame DEF Kill, cleanup, engineVars, luaVars
  <2>8. ASSUME NEW a \in Sctx, lstream[a] # "none", NEW v, v # "open",
               lstream' = [lstream EXCEPT ![a] = v],
               StreamRef' = StreamRef \ {a}, fault' = fault
        PROVE  RefStepOK
    BY <1>0, <2>8 DEF RefStepOK, Forgets
  <2>9. ASSUME NEW k \in Co, NEW a \in Sctx, StreamClose(k, a)
        PROVE  RefStepOK
    <3>1. /\ lstream[a] = "open" /\ StreamRef' = StreamRef \ {a}
          /\ lstream' = [lstream EXCEPT ![a] = "closed"] /\ fault' = fault
      BY <2>9 DEF StreamClose, close_stream, grpc_engine_close_stream
    <3> QED
      BY Zenon, <2>8, <3>1
  <2>10. ASSUME NEW a \in Sctx, stream_gc_handler(a) PROVE RefStepOK
    <3>1. /\ lstream[a] # "none" /\ StreamRef' = StreamRef \ {a}
          /\ lstream' = [lstream EXCEPT ![a] = "none"]
      BY Zenon, <2>10
      DEF stream_gc_handler, close_stream, grpc_engine_close_stream
    <3>2. fault' = fault
      BY Zenon, <2>10, StreamGcContext
    <3> QED
      BY Zenon, <2>8, <3>1, <3>2
  <2> QED
    BY ZenonT(40), <1>2, <2>1, <2>2, <2>3, <2>4, <2>5, <2>6, <2>7, <2>9, <2>10
    DEF Lua
<1>3. CASE Handlers
  <2>1. ASSUME NEW g \in goroutines, Finish(g) PROVE RefStepOK
    <3>1. /\ UNCHANGED <<lstream, fault>> /\ StreamRef \subseteq StreamRef'
      BY <2>1 DEF Finish, ReportFinishedTask, clientVars, luaVars
    <3> QED
      BY <3>1 DEF RefStepOK, Forgets
  <2>2. CASE ThreadHandler
    BY <2>2, RefFrame DEF ThreadHandler, thread_handler, grpc_engine_wait,
                          luaVars
  <2>3. CASE ThreadEvent
    <3>1. UNCHANGED <<StreamRef, lstream>>
      BY <2>3 DEF ThreadEvent, engineVars, luaVars
    <3>2. fault' = fault \/ fault' = "uaf"
      BY <2>3, EventKeeps
    <3> QED
      BY <3>1, <3>2 DEF RefStepOK, Forgets
  <2>4. CASE PostedCancelled \/ PostedEmpty
    BY Zenon, <2>4, RefFrame
    DEF PostedCancelled, post_event_cancelled, PostedEmpty, post_event_empty,
        engineVars, luaVars
  <2>5. ASSUME NEW k \in Co, NEW a \in Sctx, NEW ok \in BOOLEAN,
               LuaContinues(k, a, ok), fault' = fault,
               ok /\ co[k].kind = "new_stream" /\ UNCHANGED StreamRef =>
                 Creates(k, a)
        PROVE  RefStepOK
    <3>1. CASE /\ ok /\ co[k].kind = "new_stream"
               /\ lstream' = [lstream EXCEPT ![a] = "open"]
               /\ UNCHANGED StreamRef
      <4>1. Creates(k, a)
        BY <2>5, <3>1
      <4>2. \A b \in Sctx : b # a => lstream'[b] = lstream[b]
        BY <1>0, <3>1
      <4>3. \A b \in Sctx : ~Forgets(b)
        BY <3>1 DEF Forgets
      <4> QED
        BY <2>5, <4>1, <4>2, <4>3 DEF RefStepOK
    <3>2. CASE /\ lstream[a] = "open"
               /\ lstream' = [lstream EXCEPT ![a] = "closed"]
               /\ StreamRef' = StreamRef \ {a}
      BY <1>0, <2>5, <3>2 DEF RefStepOK, Forgets
    <3>3. CASE UNCHANGED <<lstream, StreamRef>>
      BY <2>5, <3>3, RefFrame
    <3> QED
      BY Zenon, <2>5, <3>1, <3>2, <3>3
      DEF LuaContinues, grpc_engine_close_stream
  <2>6. ASSUME NEW k \in Co, NEW a \in Sctx, NEW ok \in BOOLEAN,
               PostedResumes(k, a, ok)
        PROVE  RefStepOK
    <3>1. /\ LuaContinues(k, a, ok) /\ a = Head(thctx.occupied).id
          /\ ok => Head(thctx.occupied).type # "err"
      BY Zenon, <2>6 DEF PostedResumes, post_event_resumes
    <3>2. fault' = fault
      BY ZenonT(40), <2>6, PostedResumesContext
    <3>3. Resumed(k)
      BY ZenonT(40), <2>6, ResumesResume
    <3>4. co[k].data = a
      BY <3>1, <3>3 DEF Resumed
    <3> QED
      BY Zenon, <2>5, <3>1, <3>2, <3>3, <3>4 DEF Creates
  <2>7. ASSUME NEW k \in Co, NEW a \in Sctx, Timeout(k, a) PROVE RefStepOK
    <3>1. LuaContinues(k, a, FALSE)
      BY Zenon, <2>7 DEF Timeout
    <3>2. fault' = fault
      BY Zenon, <2>7, TimeoutContext
    <3> QED
      BY Zenon, <2>5, <3>1, <3>2
  <2> QED
    BY ZenonT(40), <1>3, <2>1, <2>2, <2>3, <2>4, <2>6, <2>7
    DEF Handlers, Posted
<1> QED
  BY Zenon, <1>1, <1>2, <1>3 DEF Next

\* No coroutine begins to wait, and none of those that create streams gets
\* another answer or loses its stream.
LEMMA CreatedFrame ==
  ASSUME CreatedInv, \A j \in Co : Waits(j)' => Waits(j) /\ co'[j] = co[j],
         goroutines' \subseteq goroutines, Results' \subseteq Results,
         \A j \in Co : Waits(j) /\ co[j].kind = "new_stream" =>
                       ~Forgets(co[j].data)
  PROVE  CreatedInv'
BY DEF CreatedInv, Forgets

\* Every step of the worker preserves CreatedInv.
LEMMA CreatedStep ==
  TypeOK /\ ContextInv /\ HandleInv /\ AnswerInv /\ CreatedInv /\ [Next]_vars
  => CreatedInv'
<1> SUFFICES ASSUME TypeOK, ContextInv, HandleInv, AnswerInv, CreatedInv,
                    [Next]_vars
             PROVE  CreatedInv'
  OBVIOUS
<1>0. /\ thctx.occupied \in Seq(Result) /\ nops \in Nat
      /\ \A x \in Answers : x.op \in Nat
      /\ goroutines \subseteq Goroutine /\ tasks \in Seq(Result)
  BY Zenon, ResultTypes
<1>1. ASSUME NEW j \in Co, Waits(j), co[j].kind = "new_stream"
      PROVE  co[j].data \in Sctx /\ ~Forgets(co[j].data)
  <2>1. /\ co[j].data \in ongoing_tasks /\ sctx[co[j].data].wait_co_ctx = j
        /\ co[j].data \in Sctx
    BY Zenon, <1>1 DEF ContextInv, KeptIsWaiting, TypeOK, ClientTypeOK
  <2>2. lstream[co[j].data] = "none"
    BY <1>1, <2>1 DEF ContextInv, InFlight, Flies
  <2> QED
    BY <2>1, <2>2, RefStep DEF RefStepOK
<1>2. ASSUME Quiet PROVE CreatedInv'
  <2>1. UNCHANGED <<goroutines, Results, co>>
    BY <1>2 DEF Quiet, Results, Reported, Fetched, Occupied
  <2> QED
    BY <1>1, <2>1, CreatedFrame DEF Waits
<1>3. ASSUME ThreadHandler PROVE CreatedInv'
  <2>1. /\ pool = "queued" /\ tasks' = <<>>
        /\ thctx'.finished_tasks = tasks /\ thctx'.occupied = thctx.occupied
        /\ UNCHANGED <<goroutines, co>>
    BY <1>3, ResultTypes
    DEF ThreadHandler, thread_handler, grpc_engine_wait, ThreadCtx
  <2>2. Results' \subseteq Results
    BY <2>1, QueueEmpty DEF Results, Reported, Fetched, Occupied
  <2> QED
    BY <1>1, <2>1, <2>2, CreatedFrame DEF Waits
<1>4. ASSUME ThreadEvent PROVE CreatedInv'
  <2>1. UNCHANGED <<goroutines, tasks, co>>
    BY <1>4, EventKeeps
  <2>2. Results' \subseteq Results
    <3>1. CASE thctx.freed
      BY <1>4, <2>1, <3>1 DEF ThreadEvent, thread_event_handler, Results,
                              Reported, Fetched, Occupied
    <3>2. CASE ~thctx.freed
      <4>1. PICK t \in Seq(Result) : /\ thctx'.finished_tasks = <<>>
                                     /\ thctx'.occupied = thctx.occupied \o t
                                     /\ Elems(t) \subseteq Fetched
        BY Zenon, <1>4, <3>2, EventMoves
      <4>2. Occupied' = Occupied \cup Elems(t) /\ Fetched' = {}
        BY <1>0, <4>1, ConcatResults, QueueEmpty DEF Occupied, Fetched
      <4> QED
        BY <2>1, <4>1, <4>2 DEF Results, Reported
    <3> QED
      BY <3>1, <3>2
  <2> QED
    BY <1>1, <2>1, <2>2, CreatedFrame DEF Waits
<1>5. ASSUME Takes, \A j \in Co : Waits(j)' => Waits(j) /\ co'[j] = co[j]
      PROVE  CreatedInv'
  <2>1. Results' \subseteq Results /\ UNCHANGED goroutines
    BY Zenon, <1>0, <1>5, TakeHead
    DEF Takes, Results, Reported, Fetched, Occupied
  <2> QED
    BY <1>1, <1>5, <2>1, CreatedFrame
<1>6. ASSUME NEW k \in Co, Ends(k)
      PROVE  \A j \in Co : Waits(j)' => Waits(j) /\ co'[j] = co[j]
  BY <1>6 DEF Ends, Waits
<1>7. ASSUME NEW k \in Co, GivesUp(k) PROVE CreatedInv'
  <2>1. UNCHANGED <<goroutines, Results>> /\ Ends(k)
    BY <1>7 DEF GivesUp, Results, Reported, Fetched, Occupied
  <2> QED
    BY <1>1, <1>6, <2>1, CreatedFrame
<1>8. ASSUME NEW k \in Co, Begins(k) PROVE CreatedInv'
  <2>1. /\ UNCHANGED Results /\ co'[k].op = nops + 1
        /\ \A j \in Co \ {k} : co'[j] = co[j]
    BY <1>8 DEF Begins, Results, Reported, Fetched, Occupied
  <2>2. \A g \in goroutines' :
          \/ g \in goroutines
          \/ /\ g.op = nops + 1
             /\ co'[k].kind = "new_stream" => g.kind = "new_stream"
    <3>1. ASSUME NEW h, Goes(k, h), NEW g \in goroutines'
          PROVE  \/ g \in goroutines
                 \/ /\ g.op = nops + 1
                    /\ co'[k].kind = "new_stream" => g.kind = "new_stream"
      BY <3>1 DEF Goes
    <3> QED
      BY Zenon, <1>8, <3>1 DEF Begins
  <2>3. \A x \in Results \cup goroutines : x.op # nops + 1
    BY <1>0 DEF AnswerInv, OpsInv, Answers, Results
  <2>4. \A j \in Co : Waits(j) => co[j].op <= nops /\ co[j].op \in Nat
    BY MaxOpsAssumption DEF AnswerInv, IdInv, TypeOK, ClientTypeOK, CoCtx, Op
  <2> SUFFICES ASSUME NEW j \in Co, Waits(j)', co'[j].kind = "new_stream"
               PROVE  /\ \A g \in goroutines' :
                           g.op = co'[j].op => g.kind = "new_stream"
                      /\ \A x \in Results' :
                           x.op = co'[j].op /\ x.type # "err" =>
                           co'[j].data \in StreamRef'
    BY DEF CreatedInv
  <2>5. CASE j = k
    BY <2>1, <2>2, <2>3, <2>5
  <2>6. CASE j # k
    <3>1. co'[j] = co[j] /\ Waits(j) /\ co[j].op # nops + 1
      BY <1>0, <2>1, <2>4, <2>6 DEF Waits
    <3>2. ~Forgets(co[j].data)
      BY <1>1, <3>1
    <3> QED
      BY <2>1, <2>2, <3>1, <3>2 DEF CreatedInv, Forgets
  <2> QED
    BY <2>5, <2>6
<1>9. ASSUME NEW g \in goroutines, Finish(g) PROVE CreatedInv'
  <2>1. PICK type \in ResType : ReportFinishedTask(g, type)
    BY <1>9 DEF Finish, Outcome, ResType
  <2> DEFINE r == [id |-> g.id, op |-> g.op, type |-> type]
  <2>2. /\ r \in Result /\ r.op = g.op /\ r.type = type
        /\ goroutines' = goroutines \ {g} /\ tasks' = Append(tasks, r)
        /\ StreamRef \subseteq StreamRef'
        /\ g.kind = "new_stream" /\ type # "err" => g.id \in StreamRef'
    BY <1>0, <2>1 DEF ReportFinishedTask, Goroutine, Result
  <2> HIDE DEF r
  <2>3. UNCHANGED <<Fetched, Occupied, co>>
    BY Zenon, <1>9 DEF Finish, clientVars, Fetched, Occupied
  <2>4. Results' = Results \cup {r}
    BY <1>0, <2>2, <2>3, QueueAppend DEF Results, Reported
  <2>5. g \in Answers
    BY DEF Answers
  <2>6. ASSUME NEW j \in Co, Waits(j), co[j].kind = "new_stream",
               g.op = co[j].op, type # "err"
        PROVE  co[j].data \in StreamRef'
    <3>1. g.kind = "new_stream"
      BY <2>6 DEF CreatedInv
    <3>2. g.id = co[j].data
      BY <2>5, <2>6 DEF AnswerInv, IdInv
    <3> QED
      BY <2>2, <2>6, <3>1, <3>2
  <2> QED
    BY Zenon, <2>2, <2>3, <2>4, <2>6 DEF CreatedInv, Waits
<1> QED
  BY Zenon, StepKinds, <1>2, <1>3, <1>4, <1>5, <1>6, <1>7, <1>8, <1>9
  DEF Drops, Resumed, Waits

\* New streams are known to the engine before Lua is told of them.
LEMMA CreatedCorrect == Spec => []CreatedInv
<1>1. Init => CreatedInv
  BY DEF Init, ClientInit, IdleCo, CreatedInv, Waits
<1> QED
  BY <1>1, CreatedStep, TypeCorrect, ContextCorrect, HandleInvCorrect,
     AnswerCorrect, PTL DEF Spec

\* For any number of streams and coroutines: mustFind panics on a stream only
\* after a coroutine has been resumed with another operation's result.
THEOREM PanicCorrect == Spec => PanicOnlyIfMistaken
<1>1. TypeOK /\ ContextInv /\ HandleInv /\ AnswerInv /\ CreatedInv
      /\ [Next]_vars
      => [StreamKnown /\ ~SomeMistaken
          => StreamKnown' /\ fault' # "panic"]_vars
  <2> SUFFICES ASSUME TypeOK, ContextInv, HandleInv, AnswerInv, CreatedInv,
                      Next, StreamKnown, ~SomeMistaken
               PROVE  StreamKnown' /\ fault' # "panic"
    OBVIOUS
  <2>1. RefStepOK
    BY RefStep
  <2>2. fault' # "panic"
    BY <2>1, NextUp DEF RefStepOK, Up
  <2>3. ASSUME NEW a \in Sctx, lstream'[a] = "open" PROVE a \in StreamRef'
    <3>1. CASE lstream[a] = "open"
      BY <2>1, <2>3, <3>1 DEF StreamKnown, RefStepOK, Forgets
    <3>2. CASE lstream[a] # "open"
      <4>1. PICK k \in Co : Creates(k, a)
        BY <2>1, <2>3, <3>2 DEF RefStepOK
      <4>2. /\ Takes /\ Waits(k) /\ ~Waits(k)' /\ co[k].kind = "new_stream"
            /\ Head(thctx.occupied).type # "err" /\ co[k].data = a
            /\ StreamRef' = StreamRef
        BY <4>1 DEF Creates, Resumed, Ends
      <4>3. /\ Head(thctx.occupied) \in Results
            /\ thctx'.occupied # thctx.occupied
        <5>1. /\ thctx.occupied \in Seq(Result) /\ thctx.occupied # <<>>
              /\ thctx'.occupied = Tail(thctx.occupied)
          BY <4>2, ResultTypes DEF Takes
        <5>2. Head(thctx.occupied) \in Occupied
          BY Zenon, <5>1, TakeHead DEF Occupied
        <5>3. Len(Tail(thctx.occupied)) # Len(thctx.occupied)
          BY <5>1
        <5> QED
          BY Zenon, <5>1, <5>2, <5>3 DEF Results
      <4>4. Head(thctx.occupied).op = co[k].op
        BY <4>2, <4>3 DEF Mistaken, SomeMistaken
      <4> QED
        BY <4>2, <4>3, <4>4 DEF CreatedInv
    <3> QED
      BY <3>1, <3>2
  <2> QED
    BY <2>2, <2>3 DEF StreamKnown
<1> QED
  BY <1>1, TypeCorrect, ContextCorrect, HandleInvCorrect, AnswerCorrect,
     CreatedCorrect, PTL
  DEF Spec, PanicOnlyIfMistaken
=============================================================================
