------------------------- MODULE GrpcClientContexts -------------------------
(***************************************************************************)
(* ContextInv of the worker, part two: the actions by which a coroutine    *)
(* stops to wait, on a result, a timeout or an abort, and the marks that   *)
(* waiting leaves on a stream context; then connections are made, and      *)
(* connections and streams are closed and collected, with the handles that *)
(* module, engine and Lua hold of a connection; last, which step leaves a  *)
(* context without anything that leads to it.                              *)
(***************************************************************************)
EXTENDS GrpcClientCalls

\* Coroutine k stops to wait on context a.
LEMMA StopWaiting ==
  ASSUME TypeOK, KeptIsWaiting, InFlight, NEW k \in Co, NEW a \in ongoing_tasks,
         k = sctx[a].wait_co_ctx,
         NEW x \in CoCtx, x.status # "wait", ~x.timer, ~x.cleanup,
         co' = [co EXCEPT ![k] = x],
         unkeep_task(a), ~sctx'[a].node,
         \A b \in Sctx : b # a => sctx'[b] = sctx[b]
  PROVE  /\ KeptIsWaiting'
         /\ ongoing_tasks' = ongoing_tasks \ {a}
         /\ \A b \in ongoing_tasks' : sctx[b].wait_co_ctx \in Co \ {k}
         /\ \A j \in Co : j # k => co'[j] = co[j]
<1> USE DEF TypeOK, ClientTypeOK
<1>1. ongoing_tasks' = ongoing_tasks \ {a} /\ a \in Sctx
  BY DEF unkeep_task, KeptIsWaiting
<1>2. /\ \A j \in Co : j # k => co'[j] = co[j]
      /\ co'[k] = x
  OBVIOUS
<1>3. \A b \in ongoing_tasks : b # a => sctx[b].wait_co_ctx \in Co \ {k}
  BY DEF KeptIsWaiting, Waits
<1>4. KeptIsWaiting'
  BY <1>1, <1>2, <1>3 DEF KeptIsWaiting, Waits
<1> QED
  BY <1>1, <1>2, <1>3, <1>4

\* cleanup takes a killed coroutine's task out of the tree; the context stays
\* where it is.
LEMMA KillContext ==
  ASSUME TypeOK, ContextInv, NEW k \in Co, Kill(k)
  PROVE  ContextInv'
<1> USE DEF ContextInv
<1> DEFINE a == co[k].data
           x == [IdleCo EXCEPT !.status = "dead"]
<1>1. a \in ongoing_tasks /\ a \in Sctx /\ k = sctx[a].wait_co_ctx
  BY DEF Kill, cleanup, KeptIsWaiting, TypeOK, ClientTypeOK
<1>2. x \in CoCtx /\ x.status # "wait" /\ ~x.timer /\ ~x.cleanup
  BY Zenon DEF IdleCo, CoCtx, Kind, EngineKind
<1>3. /\ unkeep_task(a) /\ co' = [co EXCEPT ![k] = x]
      /\ UNCHANGED <<ctx, lconn, lstream>>
  BY DEF Kill, cleanup, luaVars
<1>4. /\ \A b \in Sctx : b # a => sctx'[b] = sctx[b]
      /\ ~sctx'[a].node /\ sctx'[a].heap = sctx[a].heap
      /\ sctx'[a].parent = sctx[a].parent /\ sctx'[a].type = sctx[a].type
  BY <1>1 DEF Kill, cleanup, TypeOK, ClientTypeOK, StreamCtx
<1> HIDE DEF a, x
<1>5. /\ KeptIsWaiting'
      /\ ongoing_tasks' = ongoing_tasks \ {a}
      /\ \A b \in ongoing_tasks' : sctx[b].wait_co_ctx \in Co \ {k}
      /\ \A j \in Co : j # k => co'[j] = co[j]
  BY Zenon, <1>1, <1>2, <1>3, <1>4, StopWaiting
<1>6. InFlight'
  <2> SUFFICES ASSUME NEW b \in ongoing_tasks' PROVE Flies(b)'
    BY DEF InFlight
  <2>1. b \in Sctx /\ b # a /\ Flies(b)
    BY <1>5 DEF InFlight, TypeOK, ClientTypeOK
  <2> QED
    BY <1>3, <1>4, <1>5, <2>1, FliesFrame
<1>7. SctxOwnership'
  <2>1. ASSUME NEW d \in Conn PROVE Owned(d)'
    <3>1. Owned(d) /\ ctx[d].opening \subseteq Sctx
          /\ Elems(ctx[d].free) \subseteq Sctx
      BY QueuesType DEF SctxOwnership
    <3>2. \A b \in Sctx : /\ sctx'[b].heap = sctx[b].heap
                          /\ sctx'[b].parent = sctx[b].parent
      BY <1>4
    <3> QED
      BY <1>3, <1>5, <3>1, <3>2, OwnedFrame
  <2> QED
    BY <2>1 DEF SctxOwnership
<1>8. HandleIsOpening'
  <2>1. ASSUME NEW b \in Sctx PROVE Opens(b)'
    BY <1>3, <1>4, OpensFrame DEF HandleIsOpening
  <2> QED
    BY <2>1 DEF HandleIsOpening
<1>9. ConnPhases'
  BY <1>3 DEF ConnPhases
<1> QED
  BY <1>5, <1>6, <1>7, <1>8, <1>9

\* A unary call returns, with its result or by its timer: to_resume puts its
\* context, so far in no queue, into the free queue of a live connection.
LEMMA ResumeUnary ==
  ASSUME TypeOK, ContextInv, NEW k \in Co, NEW a \in ongoing_tasks,
         NEW ok \in BOOLEAN,
         k = sctx[a].wait_co_ctx, sctx[a].type = "unary",
         to_resume(k, a), LuaContinues(k, a, ok), lconn' = lconn,
         \A b \in Sctx : b # a => sctx'[b] = sctx[b],
         ~sctx'[a].node, sctx'[a].heap = sctx[a].heap,
         sctx'[a].parent = sctx[a].parent, sctx'[a].type = sctx[a].type
  PROVE  ContextInv' /\ fault' = fault
<1> USE DEF ContextInv
<1> DEFINE c == sctx[a].parent
<1>0. a \in Sctx
  BY DEF TypeOK, ClientTypeOK
<1>1. /\ c \in Conn /\ ctx[c].heap = "live" /\ sctx[a].heap
      /\ co[k].kind = "call" /\ lconn[c] # "gone" /\ lstream[a] = "none"
  BY DEF InFlight, Flies
<1>2. lstream' = lstream
  BY <1>1 DEF LuaContinues
<1>3. /\ ctx' = [ctx EXCEPT ![c].free = Append(@, a)]
      /\ fault' = fault /\ co' = [co EXCEPT ![k] = IdleCo] /\ unkeep_task(a)
  BY <1>1 DEF to_resume
<1>4. \A d \in Conn : a \notin Elems(ctx[d].free) /\ a \notin ctx[d].opening
  BY <1>0 DEF SctxOwnership, Owned, HandleIsOpening, Opens
<1>5. IdleCo \in CoCtx /\ IdleCo.status # "wait"
      /\ ~IdleCo.timer /\ ~IdleCo.cleanup
  BY DEF IdleCo, CoCtx, Kind, EngineKind
<1> HIDE DEF c
<1>6. /\ KeptIsWaiting'
      /\ ongoing_tasks' = ongoing_tasks \ {a}
      /\ \A b \in ongoing_tasks' : sctx[b].wait_co_ctx \in Co \ {k}
      /\ \A j \in Co : j # k => co'[j] = co[j]
  BY Zenon, <1>3, <1>5, StopWaiting
<1>7. /\ \A d \in Conn : d # c => ctx'[d] = ctx[d]
      /\ ctx'[c].free = Append(ctx[c].free, a)
      /\ ctx'[c].opening = ctx[c].opening /\ ctx'[c].heap = ctx[c].heap
      /\ ctx'[c].free_delayed = ctx[c].free_delayed
  BY ZenonT(40), <1>1, <1>3 DEF TypeOK, ClientTypeOK, Ctx
<1>8. InFlight'
  <2> SUFFICES ASSUME NEW b \in ongoing_tasks' PROVE Flies(b)'
    BY DEF InFlight
  <2>1. b \in Sctx /\ b # a /\ Flies(b)
    BY <1>6 DEF InFlight, TypeOK, ClientTypeOK
  <2>2. \A d \in Conn : /\ ctx'[d].heap = ctx[d].heap
                        /\ ctx'[d].opening = ctx[d].opening
    BY <1>7
  <2>3. sctx[b].parent \in Conn
    BY <2>1 DEF Flies
  <2> QED
    BY <1>2, <1>6, <2>1, <2>2, <2>3, FliesFrame
<1>9. SctxOwnership'
  <2> SUFFICES ASSUME NEW d \in Conn PROVE Owned(d)'
    BY DEF SctxOwnership
  <2>1. Owned(d)
    BY DEF SctxOwnership
  <2>2. \A b \in ctx[d].opening : b # a /\ sctx'[b] = sctx[b]
    BY <1>4, QueuesType
  <2>3. \A b \in Elems(ctx[d].free) : b # a /\ sctx'[b] = sctx[b]
    BY <1>4, QueuesType
  <2>4. CASE d = c
    <3>1. /\ Elems(ctx'[c].free) = Elems(ctx[c].free) \cup {a}
          /\ NoDup(ctx'[c].free)
      BY <1>0, <1>1, <1>4, <1>7, <2>1, <2>4, QueuesType, QueueAppend DEF Owned
    <3>2. sctx'[a].heap /\ sctx'[a].parent = c
      BY <1>1 DEF c
    <3>3. \A b \in Elems(ctx'[c].free) :
            /\ sctx'[b].heap /\ sctx'[b].parent = c
            /\ b \notin ongoing_tasks' /\ b \notin ctx'[c].opening
            /\ lstream'[b] = "none"
      <4> TAKE b \in Elems(ctx'[c].free)
      <4>1. CASE b = a
        BY Zenon, <1>1, <1>2, <1>4, <1>6, <1>7, <3>2, <4>1
      <4>2. CASE b \in Elems(ctx[c].free)
        BY ZenonT(40), <1>2, <1>6, <1>7, <2>1, <2>3, <2>4, <4>2 DEF Owned
      <4> QED
        BY <3>1, <4>1, <4>2
    <3>4. \A b \in ctx'[c].opening : sctx'[b].heap /\ sctx'[b].parent = c
      BY ZenonT(40), <1>7, <2>1, <2>2, <2>4 DEF Owned
    <3> QED
      BY Zenon, <2>4, <3>1, <3>3, <3>4 DEF Owned
  <2>5. CASE d # c
    BY Zenon, <1>2, <1>6, <1>7, <2>1, <2>2, <2>3, <2>5, OwnedFrame
  <2> QED
    BY <2>4, <2>5
<1>10. HandleIsOpening'
  <2> SUFFICES ASSUME NEW b \in Sctx PROVE Opens(b)'
    BY DEF HandleIsOpening
  <2>1. \A d \in Conn : ctx'[d].opening = ctx[d].opening
    BY <1>7
  <2>2. /\ sctx'[b].parent = sctx[b].parent /\ sctx'[b].type = sctx[b].type
    OBVIOUS
  <2> QED
    BY <1>2, <2>1, <2>2, OpensFrame DEF HandleIsOpening
<1>11. ConnPhases'
  BY <1>1, <1>7 DEF ConnPhases
<1> QED
  BY <1>3, <1>6, <1>8, <1>9, <1>10, <1>11

\* A stream operation returns: its context stays in the opening queue, and
\* the library makes or closes the handle at most.
LEMMA ResumeStream ==
  ASSUME TypeOK, ContextInv, NEW k \in Co, NEW a \in ongoing_tasks,
         NEW ok \in BOOLEAN,
         k = sctx[a].wait_co_ctx, sctx[a].type # "unary",
         to_resume(k, a), LuaContinues(k, a, ok), lconn' = lconn,
         \A b \in Sctx : b # a => sctx'[b] = sctx[b],
         ~sctx'[a].node, sctx'[a].heap = sctx[a].heap,
         sctx'[a].parent = sctx[a].parent, sctx'[a].type = sctx[a].type
  PROVE  ContextInv' /\ fault' = fault
<1> USE DEF ContextInv
<1>0. a \in Sctx
  BY DEF TypeOK, ClientTypeOK
<1>1. /\ sctx[a].parent \in Conn /\ a \in ctx[sctx[a].parent].opening
      /\ ctx[sctx[a].parent].heap = "live" /\ sctx[a].heap
  BY DEF InFlight, Flies
<1>2. /\ ctx' = ctx /\ fault' = fault
      /\ co' = [co EXCEPT ![k] = IdleCo] /\ unkeep_task(a)
  BY DEF to_resume
<1>3. \A b \in Sctx : b # a => lstream'[b] = lstream[b]
  BY DEF LuaContinues, TypeOK
<1>4. \A d \in Conn : a \notin Elems(ctx[d].free)
  BY <1>1 DEF SctxOwnership, Owned
<1>5. IdleCo \in CoCtx /\ IdleCo.status # "wait"
      /\ ~IdleCo.timer /\ ~IdleCo.cleanup
  BY DEF IdleCo, CoCtx, Kind, EngineKind
<1>6. /\ KeptIsWaiting'
      /\ ongoing_tasks' = ongoing_tasks \ {a}
      /\ \A b \in ongoing_tasks' : sctx[b].wait_co_ctx \in Co \ {k}
      /\ \A j \in Co : j # k => co'[j] = co[j]
  BY ZenonT(40), <1>2, <1>5, StopWaiting
<1>7. InFlight'
  <2> SUFFICES ASSUME NEW b \in ongoing_tasks' PROVE Flies(b)'
    BY Zenon DEF InFlight
  <2>1. b \in Sctx /\ b # a /\ Flies(b)
    BY <1>6 DEF InFlight, TypeOK, ClientTypeOK
  <2> QED
    BY Zenon, <1>2, <1>3, <1>6, <2>1, FliesFrame
<1>8. SctxOwnership'
  <2> SUFFICES ASSUME NEW d \in Conn PROVE Owned(d)'
    BY DEF SctxOwnership
  <2>1. Owned(d)
    BY DEF SctxOwnership
  <2>2. \A b \in ctx[d].opening : /\ sctx'[b].heap = sctx[b].heap
                                  /\ sctx'[b].parent = sctx[b].parent
    BY QueuesType
  <2>3. \A b \in Elems(ctx[d].free) :
          b # a /\ sctx'[b] = sctx[b] /\ lstream'[b] = lstream[b]
    BY <1>3, <1>4, QueuesType
  <2> QED
    BY <1>2, <1>6, <2>1, <2>2, <2>3, OwnedFrame
<1>9. HandleIsOpening'
  <2> SUFFICES ASSUME NEW b \in Sctx PROVE Opens(b)'
    BY DEF HandleIsOpening
  <2>1. Opens(b)
    BY DEF HandleIsOpening
  <2>2. CASE b = a
    BY Zenon, <1>1, <1>2, <2>1, <2>2 DEF Opens
  <2>3. CASE b # a
    BY Zenon, <1>2, <1>3, <2>1, <2>3, OpensFrame
  <2> QED
    BY <2>2, <2>3
<1>10. ConnPhases'
  BY <1>2 DEF ConnPhases
<1> QED
  BY <1>2, <1>6, <1>7, <1>8, <1>9, <1>10

----------------------------------------------------------------------------

\* A result resumes the coroutine that waits on its context.
LEMMA PostedResumesContext ==
  ASSUME TypeOK, ContextInv, NEW k \in Co, NEW a \in Sctx, NEW ok \in BOOLEAN,
         PostedResumes(k, a, ok)
  PROVE  ContextInv' /\ fault' = fault
<1>1. /\ a \in ongoing_tasks /\ k = sctx[a].wait_co_ctx
      /\ to_resume(k, a) /\ LuaContinues(k, a, ok) /\ lconn' = lconn
      /\ sctx' = [sctx EXCEPT ![a].node = FALSE, ![a].wait_co_ctx = NULL]
  BY Zenon DEF PostedResumes, post_event_resumes, lookup_task
<1>2. /\ \A b \in Sctx : b # a => sctx'[b] = sctx[b]
      /\ ~sctx'[a].node /\ sctx'[a].heap = sctx[a].heap
      /\ sctx'[a].parent = sctx[a].parent /\ sctx'[a].type = sctx[a].type
  BY <1>1 DEF TypeOK, ClientTypeOK, StreamCtx
<1> QED
  BY ZenonT(40), <1>1, <1>2, ResumeUnary, ResumeStream

\* So does its timer, which only a coroutine that waits has.
LEMMA TimeoutContext ==
  ASSUME TypeOK, ContextInv, NEW k \in Co, NEW a \in Sctx, Timeout(k, a)
  PROVE  ContextInv' /\ fault' = fault
<1>1. /\ co[k].timer /\ a = co[k].data
      /\ to_resume(sctx[a].wait_co_ctx, a)
      /\ LuaContinues(k, a, FALSE) /\ lconn' = lconn
      /\ sctx' = [sctx EXCEPT ![a].state = "TIMEOUT", ![a].node = FALSE,
                              ![a].wait_co_ctx = NULL]
  BY Zenon DEF Timeout, timeout_handler
<1>2. a \in ongoing_tasks /\ k = sctx[a].wait_co_ctx
  BY <1>1 DEF ContextInv, KeptIsWaiting
<1>3. /\ \A b \in Sctx : b # a => sctx'[b] = sctx[b]
      /\ ~sctx'[a].node /\ sctx'[a].heap = sctx[a].heap
      /\ sctx'[a].parent = sctx[a].parent /\ sctx'[a].type = sctx[a].type
  BY <1>1 DEF TypeOK, ClientTypeOK, StreamCtx
<1> QED
  BY ZenonT(40), <1>1, <1>2, <1>3, ResumeUnary, ResumeStream

----------------------------------------------------------------------------
\* A task in the tree has not timed out.
StateInv == \A a \in ongoing_tasks : sctx[a].state = "OK"

\* The marks on stream contexts.
MarkInv == BusyIsWaited /\ StateInv

\* A coroutine that starts to wait marks its context.
LEMMA KickOffMark ==
  ASSUME TypeOK, MarkInv, NEW k \in Co, co[k].status = "idle",
         NEW a \in Sctx, NEW s \in StreamCtx, NEW kind,
         kick_off_task(k, a, s, kind)
  PROVE  MarkInv'
<1>1. /\ \A b \in Sctx : b # a => sctx'[b] = sctx[b]
      /\ sctx'[a].state = "OK" /\ ongoing_tasks' = ongoing_tasks \cup {a}
      /\ \A j \in Co : j # k => co'[j] = co[j]
  BY DEF kick_off_task, keep_task, TypeOK, ClientTypeOK, StreamCtx
<1>2. \A b \in Sctx : sctx[b].wait_co_ctx \in Co \cup {NULL}
  BY DEF TypeOK, ClientTypeOK, StreamCtx
<1>3. ongoing_tasks \subseteq Sctx
  BY DEF TypeOK, ClientTypeOK
<1> QED
  BY <1>1, <1>2, <1>3 DEF MarkInv, BusyIsWaited, StateInv

\* A coroutine that is resumed or killed leaves the tree; the mark of its
\* context is gone or names a dead coroutine.
LEMMA StopMark ==
  ASSUME TypeOK, KeptIsWaiting, MarkInv, NEW a \in ongoing_tasks,
         NEW k \in Co, k = sctx[a].wait_co_ctx, unkeep_task(a), NEW x,
         co' = [co EXCEPT ![k] = x],
         \A b \in Sctx : b # a => sctx'[b] = sctx[b],
         sctx'[a].wait_co_ctx = IF x.status = "dead" THEN k ELSE NULL
  PROVE  MarkInv'
<1>1. a \in Sctx /\ ongoing_tasks \subseteq Sctx
  BY DEF TypeOK, ClientTypeOK
<1>2. ongoing_tasks' = ongoing_tasks \ {a}
  BY <1>1 DEF KeptIsWaiting, unkeep_task
<1>3. co'[k] = x /\ \A j \in Co : j # k => co'[j] = co[j]
  BY DEF TypeOK, ClientTypeOK
<1>4. co[k].status = "wait" /\ co[k].data = a
  BY DEF KeptIsWaiting, Waits
<1>5. \A b \in Sctx : sctx[b].wait_co_ctx \in Co \cup {NULL}
  BY DEF TypeOK, ClientTypeOK, StreamCtx
<1> QED
  BY <1>1, <1>2, <1>3, <1>4, <1>5 DEF MarkInv, BusyIsWaited, StateInv

\* Contexts may be freed or given back as long as nobody waits on them.
LEMMA MarkFrame ==
  ASSUME MarkInv, UNCHANGED <<ongoing_tasks, co>>,
         \A b \in Sctx : \/ /\ sctx'[b].wait_co_ctx = sctx[b].wait_co_ctx
                            /\ sctx'[b].state = sctx[b].state
                         \/ /\ sctx'[b].wait_co_ctx = NULL
                            /\ sctx'[b].state = "OK",
         ongoing_tasks \subseteq Sctx
  PROVE  MarkInv'
BY DEF MarkInv, BusyIsWaited, StateInv

\* Every step of the worker preserves MarkInv.
LEMMA MarkStep == TypeOK /\ ContextInv /\ MarkInv /\ [Next]_vars => MarkInv'
<1> SUFFICES ASSUME TypeOK, ContextInv, MarkInv, [Next]_vars PROVE MarkInv'
  OBVIOUS
<1>0. /\ sctx \in [Sctx -> StreamCtx] /\ ongoing_tasks \subseteq Sctx
      /\ co \in [Co -> CoCtx] /\ KeptIsWaiting
  BY DEF TypeOK, ClientTypeOK, ContextInv
<1>1. ASSUME UNCHANGED <<sctx, ongoing_tasks, co>> PROVE MarkInv'
  BY <1>0, <1>1, MarkFrame
<1>2. CASE EventLoop \/ UNCHANGED vars
  BY <1>1, <1>2 DEF EventLoop, RunRequest, Yield, Exit, vars, clientVars,
                    taskVars
<1>3. CASE Lua
  <2>1. ASSUME NEW k \in Co, NEW c \in Conn, Connect(k, c) \/ ConnClose(k, c)
        PROVE  MarkInv'
    BY <1>1, <2>1 DEF Connect, ConnClose, close, taskVars
  <2>2. ASSUME NEW k \in Co, NEW c \in Conn, NEW type \in StreamTypes,
               StartCall(k, c, type)
        PROVE  MarkInv'
    <3>1. PICK a \in Sctx : new_stream(k, c, a, type)
      BY <2>2 DEF StartCall
    <3>2. NewSctx(k, c, type) \in StreamCtx
      BY LuaAssumption, NewSctxType
    <3> QED
      BY <2>2, <3>1, <3>2, KickOffMark DEF StartCall, Runs, new_stream
  <2>3. ASSUME NEW k \in Co, NEW c \in Conn, NEW type \in StreamTypes,
               StartCallFails(k, c, type)
        PROVE  MarkInv'
    <3>1. PICK a \in Sctx : sctx' = [sctx EXCEPT ![a] = NewSctx(k, c, type)]
      BY Zenon, <2>3 DEF StartCallFails, new_stream_fails
    <3>2. /\ NewSctx(k, c, type).wait_co_ctx = NULL
          /\ NewSctx(k, c, type).state = "OK"
      BY DEF NewSctx, ZeroSctx
    <3>3. UNCHANGED <<ongoing_tasks, co>>
      BY <2>3 DEF StartCallFails, new_stream_fails, kick_off_fails, taskVars
    <3> QED
      BY <1>0, <3>1, <3>2, <3>3, MarkFrame
  <2>4. ASSUME NEW k \in Co, NEW a \in Sctx, NEW kind \in Kind,
               StreamOp(k, a, kind)
        PROVE  MarkInv'
    BY <1>0, <2>4, KickOffMark DEF StreamOp, Runs, stream_op
  <2>5. ASSUME NEW k \in Co, NEW a \in Sctx,
               StreamOpFails(k, a) \/ StreamClose(k, a)
        PROVE  MarkInv'
    BY <1>1, <2>5 DEF StreamOpFails, kick_off_fails, StreamClose,
                      close_stream, taskVars
  <2>6. ASSUME NEW c \in Conn, ctx_gc_handler(c) PROVE MarkInv'
    <3>1. \A b \in Sctx : sctx'[b] = sctx[b] \/ sctx'[b] = NoSctx
      BY <2>6 DEF ctx_gc_handler, close, free_conn
    <3>2. UNCHANGED <<ongoing_tasks, co>>
      BY <2>6 DEF ctx_gc_handler, taskVars
    <3> QED
      BY <1>0, <3>1, <3>2, MarkFrame DEF NoSctx, ZeroSctx
  <2>7. ASSUME NEW a \in Sctx, stream_gc_handler(a) PROVE MarkInv'
    <3>1. \A b \in Sctx : \/ sctx'[b] = sctx[b] \/ sctx'[b] = NoSctx
                          \/ sctx'[b] = [sctx[b] EXCEPT !.r = NULL]
      BY <1>0, <2>7 DEF stream_gc_handler, close_stream, free_conn
    <3>2. \A b \in Sctx :
            /\ [sctx[b] EXCEPT !.r = NULL].wait_co_ctx = sctx[b].wait_co_ctx
            /\ [sctx[b] EXCEPT !.r = NULL].state = sctx[b].state
      BY <1>0 DEF StreamCtx
    <3>3. NoSctx.wait_co_ctx = NULL /\ NoSctx.state = "OK"
      BY DEF NoSctx, ZeroSctx
    <3>4. UNCHANGED <<ongoing_tasks, co>>
      BY <2>7 DEF stream_gc_handler, taskVars
    <3> QED
      BY Zenon, <1>0, <3>1, <3>2, <3>3, <3>4, MarkFrame
  <2>8. ASSUME NEW k \in Co, Kill(k) PROVE MarkInv'
    <3> DEFINE a == co[k].data
               x == [IdleCo EXCEPT !.status = "dead"]
    <3>1. /\ a \in ongoing_tasks /\ a \in Sctx /\ k = sctx[a].wait_co_ctx
          /\ unkeep_task(a) /\ co' = [co EXCEPT ![k] = x]
          /\ sctx' = [sctx EXCEPT ![a].node = FALSE]
      BY <1>0, <2>8 DEF Kill, cleanup, KeptIsWaiting
    <3>2. x.status = "dead"
      BY DEF IdleCo
    <3>3. /\ \A b \in Sctx : b # a => sctx'[b] = sctx[b]
          /\ sctx'[a].wait_co_ctx = k
      BY <1>0, <3>1 DEF StreamCtx
    <3> HIDE DEF a, x
    <3> QED
      BY Zenon, <1>0, <3>1, <3>2, <3>3, StopMark
  <2> QED
    BY <1>3, <2>1, <2>2, <2>3, <2>4, <2>5, <2>6, <2>7, <2>8 DEF Lua
<1>4. CASE Handlers
  <2>1. CASE \/ \E g \in goroutines : Finish(g)
             \/ ThreadHandler \/ ThreadEvent \/ PostedCancelled \/ PostedEmpty
    BY <1>1, <2>1
    DEF Finish, ThreadHandler, thread_handler, ThreadEvent,
        thread_event_handler, PostedCancelled, post_event_cancelled,
        PostedEmpty, post_event_empty, clientVars, taskVars
  <2>2. ASSUME NEW k \in Co, NEW a \in Sctx, NEW ok \in BOOLEAN,
               PostedResumes(k, a, ok) \/ Timeout(k, a)
        PROVE  MarkInv'
    <3>1. a \in ongoing_tasks /\ k = sctx[a].wait_co_ctx
      BY Zenon, <1>0, <2>2 DEF PostedResumes, post_event_resumes, lookup_task,
                        Timeout, timeout_handler, KeptIsWaiting
    <3>2. /\ unkeep_task(a) /\ co' = [co EXCEPT ![k] = IdleCo]
          /\ \A b \in Sctx : b # a => sctx'[b] = sctx[b]
      BY Zenon, <1>0, <2>2, <3>1
      DEF PostedResumes, post_event_resumes, to_resume,
                              Timeout, timeout_handler
    <3>3. sctx'[a].wait_co_ctx = NULL
      <4>1. CASE PostedResumes(k, a, ok)
        BY Zenon, <1>0, <4>1 DEF PostedResumes, post_event_resumes, StreamCtx
      <4>2. CASE Timeout(k, a)
        BY <1>0, <4>2 DEF Timeout, timeout_handler, StreamCtx
      <4> QED
        BY <2>2, <4>1, <4>2
    <3>4. IdleCo.status # "dead"
      BY DEF IdleCo
    <3> QED
      BY Zenon, <1>0, <3>1, <3>2, <3>3, <3>4, StopMark
  <2> QED
    BY Zenon, <1>4, <2>1, <2>2 DEF Handlers, Posted
<1> QED
  BY <1>2, <1>3, <1>4 DEF Next

----------------------------------------------------------------------------
\* free_conn frees a connection and the contexts in its free queue q.  That
\* is safe if no call of the connection is in flight and Lua has dropped the
\* handles of its streams.
LEMMA FreeConnContext ==
  ASSUME TypeOK, ContextInv, NEW c \in Conn, NEW q \in Seq(Sctx),
         free_conn(c, q), UNCHANGED <<ongoing_tasks, co>>,
         \A b \in Elems(q) : sctx[b].parent = c,
         \A b \in ongoing_tasks : sctx[b].parent # c,
         \A b \in Sctx : lstream'[b] # "none" =>
           lstream'[b] = lstream[b] /\ sctx[b].parent # c,
         \A b \in ongoing_tasks : lstream'[b] = lstream[b],
         \A b \in Sctx : lstream'[b] \in {lstream[b], "none"},
         lconn'[c] = "gone", \A d \in Conn : d # c => lconn'[d] = lconn[d]
  PROVE  ContextInv'
<1> USE DEF ContextInv
<1>1. /\ \A d \in Conn : d # c => ctx'[d] = ctx[d]
      /\ ctx'[c].free = <<>> /\ ctx'[c].opening = {}
      /\ ctx'[c].heap = "freed" /\ ~ctx'[c].free_delayed
  BY DEF free_conn, NoCtx, TypeOK, ClientTypeOK
<1>2. /\ \A b \in Sctx : b \in Elems(q) => sctx'[b] = NoSctx
      /\ \A b \in Sctx : b \notin Elems(q) => sctx'[b] = sctx[b]
  BY DEF free_conn
<1>3. \A b \in Sctx : sctx[b].parent # c => sctx'[b] = sctx[b]
  BY <1>2
<1>4. \A b \in ongoing_tasks : b \in Sctx /\ sctx'[b] = sctx[b]
  BY <1>3 DEF TypeOK, ClientTypeOK
<1>5. KeptIsWaiting'
  <2>1. \A b \in Sctx : sctx'[b].node <=> b \in ongoing_tasks
    BY <1>2, <1>4 DEF KeptIsWaiting, NoSctx, ZeroSctx
  <2> QED
    BY <1>4, <2>1 DEF KeptIsWaiting, Waits
<1>6. InFlight'
  BY <1>1, <1>4 DEF InFlight, Flies
<1>7. SctxOwnership'
  <2> SUFFICES ASSUME NEW d \in Conn PROVE Owned(d)'
    BY DEF SctxOwnership
  <2>1. CASE d = c
    BY <1>1, <2>1, QueueEmpty DEF Owned
  <2>2. CASE d # c
    <3>1. Owned(d) /\ ctx'[d] = ctx[d]
      BY <1>1, <2>2 DEF SctxOwnership
    <3>2. \A b \in Elems(ctx[d].free) \cup ctx[d].opening :
            b \in Sctx /\ sctx'[b] = sctx[b]
      BY SMTT(40), <1>3, <2>2, <3>1, QueuesType DEF Owned
    <3>3. \A b \in Elems(ctx[d].free) : lstream'[b] = "none"
      BY Zenon, <3>1, QueuesType DEF Owned
    <3> QED
      BY <3>1, <3>2, <3>3 DEF Owned
  <2> QED
    BY <2>1, <2>2
<1>8. HandleIsOpening'
  <2> SUFFICES ASSUME NEW b \in Sctx
               PROVE  /\ lstream'[b] # "none" =>
                           /\ sctx'[b].parent \in Conn
                           /\ b \in ctx'[sctx'[b].parent].opening
                      /\ \A d \in Conn : b \in ctx'[d].opening =>
                                         sctx'[b].type # "unary"
    BY DEF HandleIsOpening, Opens
  <2>1. lstream'[b] # "none" => /\ sctx'[b].parent \in Conn
                                /\ b \in ctx'[sctx'[b].parent].opening
    BY <1>1, <1>3 DEF HandleIsOpening, Opens
  <2>2. ASSUME NEW d \in Conn, b \in ctx'[d].opening
        PROVE  sctx'[b].type # "unary"
    BY <1>1, <1>3, <2>2 DEF HandleIsOpening, Opens, SctxOwnership, Owned
  <2> QED
    BY <2>1, <2>2
<1>9. ConnPhases'
  BY <1>1 DEF ConnPhases
<1> QED
  BY <1>5, <1>6, <1>7, <1>8, <1>9

\* The two ways of closing a connection that keep its context change neither
\* queue: Conn:close, and the finalizer while streams are opening.
LEMMA KeepConnContext ==
  ASSUME TypeOK, ContextInv, NEW c \in Conn,
         \A d \in Conn : /\ ctx'[d].free = ctx[d].free
                         /\ ctx'[d].opening = ctx[d].opening
                         /\ ctx'[d].heap = ctx[d].heap,
         \A d \in Conn : d # c => ctx'[d] = ctx[d] /\ lconn'[d] = lconn[d],
         UNCHANGED <<sctx, ongoing_tasks, co, lstream>>,
         ctx[c].heap = "live",
         ctx'[c].free_delayed => lconn'[c] = "gone",
         lconn'[c] = "gone" =>
           \A a \in ongoing_tasks :
             sctx[a].parent = c => co[sctx[a].wait_co_ctx].kind # "call"
  PROVE  ContextInv'
<1> USE DEF ContextInv
<1>3. KeptIsWaiting'
  BY DEF KeptIsWaiting, Waits
<1>4. InFlight'
  BY DEF InFlight, Flies
<1>5. SctxOwnership'
  BY DEF SctxOwnership, Owned
<1>6. HandleIsOpening'
  BY DEF HandleIsOpening, Opens
<1>7. ConnPhases'
  <2> SUFFICES ASSUME NEW d \in Conn
               PROVE  /\ ctx'[d].heap # "live" =>
                           /\ ctx'[d].opening = {} /\ ctx'[d].free = <<>>
                           /\ ~ctx'[d].free_delayed
                      /\ lconn'[d] \in {"open", "closed"} =>
                           ctx'[d].heap = "live"
                      /\ ctx'[d].free_delayed => lconn'[d] = "gone"
    BY Zenon DEF ConnPhases
  <2>1. CASE d = c
    BY <2>1 DEF ConnPhases
  <2>2. CASE d # c
    BY <2>2 DEF ConnPhases
  <2> QED
    BY <2>1, <2>2
<1> QED
  BY <1>3, <1>4, <1>5, <1>6, <1>7

----------------------------------------------------------------------------

\* A new connection has nothing yet.
LEMMA ConnectContext ==
  ASSUME TypeOK, ContextInv, NEW k \in Co, NEW c \in Conn, Connect(k, c)
  PROVE  ContextInv'
<1> USE DEF ContextInv
<1>1. /\ ctx[c].heap = "none"
      /\ UNCHANGED <<sctx, ongoing_tasks, co, lstream>>
      /\ \A d \in Conn : d # c => ctx'[d] = ctx[d] /\ lconn'[d] = lconn[d]
      /\ ctx'[c].heap = "live" /\ lconn'[c] = "open"
      /\ \A d \in Conn : /\ ctx'[d].free = ctx[d].free
                         /\ ctx'[d].opening = ctx[d].opening
      /\ ctx'[c].free_delayed = ctx[c].free_delayed
  BY DEF Connect, connect, taskVars, TypeOK, ClientTypeOK, Ctx
<1>2. KeptIsWaiting'
  BY SMTT(40), <1>1 DEF KeptIsWaiting, Waits
<1>3. InFlight'
  BY SMTT(40), <1>1 DEF InFlight, Flies
<1>4. SctxOwnership'
  BY <1>1 DEF SctxOwnership, Owned
<1>5. HandleIsOpening'
  BY <1>1 DEF HandleIsOpening, Opens
<1>6. ConnPhases'
  BY <1>1 DEF ConnPhases
<1> QED
  BY <1>2, <1>3, <1>4, <1>5, <1>6

\* Conn:close gives up the engine handle only.
LEMMA ConnCloseContext ==
  ASSUME TypeOK, ContextInv, NEW k \in Co, NEW c \in Conn, ConnClose(k, c)
  PROVE  ContextInv'
<1>1. /\ ctx' = [ctx EXCEPT ![c].engine_ctx = FALSE,
                            ![c].free_delayed = @ \/ FALSE]
      /\ UNCHANGED <<sctx, ongoing_tasks, co, lstream>>
      /\ lconn[c] = "open" /\ lconn' = [lconn EXCEPT ![c] = "closed"]
  BY Zenon DEF ConnClose, close, taskVars
<1>2. ctx[c].heap = "live" /\ ~ctx[c].free_delayed
  BY <1>1 DEF ContextInv, ConnPhases
<1>3. /\ \A d \in Conn : /\ ctx'[d].free = ctx[d].free
                         /\ ctx'[d].opening = ctx[d].opening
                         /\ ctx'[d].heap = ctx[d].heap
      /\ \A d \in Conn : d # c => ctx'[d] = ctx[d] /\ lconn'[d] = lconn[d]
      /\ lconn'[c] = "closed"
  BY <1>1 DEF TypeOK, ClientTypeOK, Ctx
<1>4. ~ctx'[c].free_delayed
  BY <1>1, <1>2 DEF TypeOK, ClientTypeOK, Ctx
<1> QED
  BY Zenon, <1>1, <1>2, <1>3, <1>4, KeepConnContext

\* The finalizer of a connection.  A unary call in flight holds the handle,
\* so no such call loses its connection; a stream in flight is opening, so
\* that the connection is kept.
LEMMA ConnGcContext ==
  ASSUME TypeOK, ContextInv, NEW c \in Conn, ctx_gc_handler(c)
  PROVE  ContextInv'
<1>1. /\ UNCHANGED <<ongoing_tasks, co, lstream>>
      /\ lconn[c] \in {"open", "closed"}
      /\ lconn' = [lconn EXCEPT ![c] = "gone"]
      /\ \A k \in Co : ~HoldsConn(k, c)
      /\ close(c, TRUE)
  BY Zenon DEF ctx_gc_handler, taskVars
<1>2. /\ \A d \in Conn : d # c => lconn'[d] = lconn[d]
      /\ lconn'[c] = "gone"
  BY <1>1 DEF TypeOK
<1>3. \A a \in ongoing_tasks :
        sctx[a].parent = c => co[sctx[a].wait_co_ctx].kind # "call"
  BY SMTT(40), <1>1 DEF HoldsConn, ContextInv, KeptIsWaiting, Waits
<1>4. CASE ctx[c].opening = {}
  <2>1. free_conn(c, ctx[c].free) /\ ctx[c].free \in Seq(Sctx)
    BY <1>1, <1>4, QueuesType DEF close
  <2>2. \A b \in Elems(ctx[c].free) : sctx[b].parent = c
    BY DEF ContextInv, SctxOwnership, Owned
  <2>3. \A b \in ongoing_tasks : sctx[b].parent # c
    BY <1>3, <1>4 DEF ContextInv, InFlight, Flies
  <2>4. \A b \in Sctx : lstream[b] # "none" => sctx[b].parent # c
    BY <1>4 DEF ContextInv, HandleIsOpening, Opens
  <2> QED
    BY Zenon, <1>1, <1>2, <2>1, <2>2, <2>3, <2>4, FreeConnContext
<1>5. CASE ctx[c].opening # {}
  <2>1. /\ ctx' = [ctx EXCEPT ![c].engine_ctx = FALSE,
                              ![c].free_delayed = @ \/ TRUE]
        /\ sctx' = sctx
    BY Zenon, <1>1, <1>5 DEF close
  <2>2. /\ \A d \in Conn : /\ ctx'[d].free = ctx[d].free
                           /\ ctx'[d].opening = ctx[d].opening
                           /\ ctx'[d].heap = ctx[d].heap
        /\ \A d \in Conn : d # c => ctx'[d] = ctx[d]
    BY <2>1 DEF TypeOK, ClientTypeOK, Ctx
  <2>3. ctx[c].heap = "live"
    BY <1>1 DEF ContextInv, ConnPhases
  <2> QED
    BY Zenon, <1>1, <1>2, <1>3, <2>1, <2>2, <2>3, KeepConnContext
<1> QED
  BY <1>4, <1>5

\* Closing a stream leaves its context where it is.
LEMMA StreamCloseContext ==
  ASSUME TypeOK, ContextInv, NEW k \in Co, NEW a \in Sctx, StreamClose(k, a)
  PROVE  ContextInv'
<1> USE DEF ContextInv
<1>1. /\ UNCHANGED <<ctx, sctx, ongoing_tasks, co, lconn>>
      /\ lstream[a] = "open" /\ lstream'[a] = "closed"
      /\ \A b \in Sctx : b # a => lstream'[b] = lstream[b]
  BY DEF StreamClose, close_stream, taskVars, TypeOK
<1>2. KeptIsWaiting'
  BY ZenonT(40), <1>1 DEF KeptIsWaiting, Waits
<1>3. InFlight'
  <2> SUFFICES ASSUME NEW b \in ongoing_tasks PROVE Flies(b)'
    BY Zenon, <1>1 DEF InFlight
  <2>1. Flies(b) /\ b \in Sctx
    BY Zenon DEF InFlight, TypeOK, ClientTypeOK
  <2>2. CASE b = a
    BY <1>1, <2>1, <2>2 DEF Flies
  <2>3. CASE b # a
    BY Zenon, <1>1, <2>1, <2>3, FliesFrame
  <2> QED
    BY Zenon, <2>2, <2>3
<1>4. SctxOwnership'
  <2> SUFFICES ASSUME NEW d \in Conn PROVE Owned(d)'
    BY Zenon DEF SctxOwnership
  <2>1. Owned(d) /\ Elems(ctx[d].free) \subseteq Sctx
    BY Zenon, QueuesType DEF SctxOwnership
  <2>2. \A b \in Elems(ctx[d].free) : lstream'[b] # "none" =>
                                      lstream[b] # "none"
    BY Zenon, <1>1, <2>1
  <2> QED
    BY Zenon, <1>1, <2>1, <2>2, OwnedFrame
<1>5. HandleIsOpening' /\ ConnPhases'
  BY <1>1 DEF HandleIsOpening, Opens, ConnPhases
<1> QED
  BY <1>2, <1>3, <1>4, <1>5

\* The finalizer of a stream.  An operation in flight holds the handle, so
\* the context is idle: it moves to the free queue of a connection that is
\* still allocated.  If the connection waits to be freed and this was its
\* last stream, nothing of it is in flight.
LEMMA StreamGcContext ==
  ASSUME TypeOK, ContextInv, NEW a \in Sctx, stream_gc_handler(a)
  PROVE  ContextInv' /\ fault' = fault
<1> DEFINE c == sctx[a].parent
           opening == ctx[c].opening \ {a}
           free == Append(ctx[c].free, a)
<1>1. /\ UNCHANGED <<ongoing_tasks, co, lconn>>
      /\ lstream[a] # "none" /\ lstream'[a] = "none"
      /\ \A b \in Sctx : b # a => lstream'[b] = lstream[b]
      /\ \A k \in Co : ~HoldsStream(k, a)
      /\ close_stream(a, TRUE)
  BY Zenon DEF stream_gc_handler, taskVars, TypeOK
<1>2. /\ c \in Conn /\ a \in ctx[c].opening /\ sctx[a].heap
      /\ ctx[c].heap = "live"
  BY Zenon, <1>1
  DEF ContextInv, HandleIsOpening, Opens, SctxOwnership, Owned, ConnPhases
<1>3. a \notin ongoing_tasks
  <2> SUFFICES ASSUME a \in ongoing_tasks PROVE FALSE
    BY Zenon
  <2>1. PICK k \in Co : /\ k = sctx[a].wait_co_ctx
                        /\ Waits(k) /\ co[k].data = a
    BY Zenon DEF ContextInv, KeptIsWaiting
  <2>2. co[k].kind \notin {"call", "new_stream"}
    BY <1>1, <2>1 DEF ContextInv, InFlight, Flies
  <2> QED
    BY Zenon, <1>1, <2>1, <2>2 DEF HoldsStream, Waits
<1>4. \A d \in Conn : a \notin Elems(ctx[d].free)
  BY Zenon, <1>1 DEF ContextInv, SctxOwnership, Owned
<1>5. /\ free \in Seq(Sctx) /\ Elems(free) = Elems(ctx[c].free) \cup {a}
      /\ NoDup(free)
  BY SMTT(40), <1>2, <1>4, QueuesType, QueueAppend
  DEF ContextInv, SctxOwnership, Owned
<1>6. CASE ctx[c].free_delayed /\ opening = {}
  <2>1. free_conn(c, free) /\ fault' = fault
    BY SMTT(40), <1>1, <1>2, <1>6 DEF close_stream
  <2>2. \A b \in Elems(free) : sctx[b].parent = c
    BY <1>2, <1>5 DEF ContextInv, SctxOwnership, Owned
  <2>3. \A b \in ongoing_tasks : sctx[b].parent # c
    BY <1>3, <1>6 DEF ContextInv, InFlight, Flies, ConnPhases
  <2>4. \A b \in Sctx : b # a /\ lstream[b] # "none" => sctx[b].parent # c
    BY <1>6 DEF ContextInv, HandleIsOpening, Opens
  <2>5. lconn[c] = "gone"
    BY <1>2, <1>6 DEF ContextInv, ConnPhases
  <2>6. \A b \in ongoing_tasks : lstream'[b] = lstream[b]
    BY <1>1, <1>3 DEF TypeOK, ClientTypeOK
  <2> HIDE DEF c, free, opening
  <2> QED
    BY <1>1, <1>2, <1>5, <2>1, <2>2, <2>3, <2>4, <2>5, <2>6, FreeConnContext
<1>7. CASE ~(ctx[c].free_delayed /\ opening = {})
  <2> USE DEF ContextInv
  <2>1. /\ ctx' = [ctx EXCEPT ![c].opening = opening, ![c].free = free]
        /\ sctx' = [sctx EXCEPT ![a].r = NULL] /\ fault' = fault
    BY ZenonT(40), <1>1, <1>2, <1>7 DEF close_stream
  <2>2. /\ \A d \in Conn : d # c => ctx'[d] = ctx[d]
        /\ ctx'[c].opening = opening /\ ctx'[c].free = free
        /\ ctx'[c].heap = ctx[c].heap
        /\ ctx'[c].free_delayed = ctx[c].free_delayed
    BY ZenonT(40), <1>2, <2>1 DEF TypeOK, ClientTypeOK, Ctx
  <2>3. /\ \A b \in Sctx : b # a => sctx'[b] = sctx[b]
        /\ \A b \in Sctx : /\ sctx'[b].heap = sctx[b].heap
                           /\ sctx'[b].parent = sctx[b].parent
                           /\ sctx'[b].type = sctx[b].type
                           /\ sctx'[b].node = sctx[b].node
                           /\ sctx'[b].wait_co_ctx = sctx[b].wait_co_ctx
    BY <2>1 DEF TypeOK, ClientTypeOK, StreamCtx
  <2>4. \A b \in ongoing_tasks : b \in Sctx /\ b # a
    BY Zenon, <1>3 DEF TypeOK, ClientTypeOK
  <2> HIDE DEF c
  <2>5. KeptIsWaiting'
    <3>1. KeptIsWaiting /\ ~sctx'[a].node /\ ongoing_tasks \subseteq Sctx
      BY Zenon, <1>3, <2>3, <2>4 DEF KeptIsWaiting
    <3> QED
      BY Zenon, <1>1, <1>3, <2>3, <3>1, KeptFrame
  <2>6. InFlight'
    <3> SUFFICES ASSUME NEW b \in ongoing_tasks PROVE Flies(b)'
      BY Zenon, <1>1 DEF InFlight
    <3>1. Flies(b) /\ sctx[b].parent \in Conn
      BY DEF InFlight, Flies
    <3>2. \A d \in Conn : /\ ctx'[d].heap = ctx[d].heap
                          /\ b \in ctx[d].opening => b \in ctx'[d].opening
      BY <2>2, <2>4
    <3> QED
      BY Zenon, <1>1, <2>3, <2>4, <3>1, <3>2, FliesFrame
  <2>7. SctxOwnership'
    <3> SUFFICES ASSUME NEW d \in Conn PROVE Owned(d)'
      BY DEF SctxOwnership
    <3>1. Owned(d)
      BY DEF SctxOwnership
    <3>2. CASE d = c
      <4>1. \A b \in Elems(free) :
              /\ sctx'[b].heap /\ sctx'[b].parent = c
              /\ b \notin ongoing_tasks' /\ b \notin ctx'[c].opening
              /\ lstream'[b] = "none"
        <5> TAKE b \in Elems(free)
        <5>1. CASE b = a
          BY Zenon, <1>1, <1>2, <1>3, <2>2, <2>3, <5>1 DEF c
        <5>2. CASE b \in Elems(ctx[c].free) /\ b # a
          <6>1. b \in Sctx
            BY <1>2, <5>2, QueuesType
          <6> QED
            BY <1>1, <2>2, <2>3, <3>1, <3>2, <5>2, <6>1 DEF Owned
        <5> QED
          BY <1>5, <5>1, <5>2
      <4>2. \A b \in ctx'[c].opening : sctx'[b].heap /\ sctx'[b].parent = c
        BY ZenonT(40), <1>2, <2>2, <2>3, <3>1, <3>2, QueuesType DEF Owned
      <4> QED
        BY ZenonT(40), <1>5, <2>2, <3>2, <4>1, <4>2 DEF Owned
    <3>3. CASE d # c
      <4>1. ctx'[d] = ctx[d] /\ ctx[d].opening \subseteq Sctx
            /\ Elems(ctx[d].free) \subseteq Sctx
        BY <2>2, <3>3, QueuesType
      <4>2. \A b \in Elems(ctx[d].free) : lstream'[b] = "none"
        BY Zenon, <1>1, <1>4, <3>1, <4>1 DEF Owned
      <4> QED
        BY SMTT(40), <1>1, <2>3, <3>1, <4>1, <4>2 DEF Owned
    <3> QED
      BY <3>2, <3>3
  <2>8. HandleIsOpening'
    BY SMTT(40), <1>1, <2>2, <2>3 DEF HandleIsOpening, Opens
  <2>9. ConnPhases'
    BY <1>1, <1>2, <2>2 DEF ConnPhases
  <2> QED
    BY Zenon, <2>1, <2>5, <2>6, <2>7, <2>8, <2>9
<1> QED
  BY <1>6, <1>7

----------------------------------------------------------------------------
\* Handles of connections, of the module and of Lua, and delayed frees.
HandleInv == EngineCtxKnown /\ DelayedFree

\* Handles: connections that no step touches keep what HandleInv says.
LEMMA HandleFrame ==
  ASSUME HandleInv, UNCHANGED <<EngineCtxRef, lconn>>,
         \A c \in Conn : /\ ctx'[c].heap = ctx[c].heap
                         /\ ctx'[c].engine_ctx = ctx[c].engine_ctx
                         /\ ctx'[c].free_delayed = ctx[c].free_delayed
                         /\ ctx[c].opening \subseteq ctx'[c].opening
  PROVE  HandleInv'
BY DEF HandleInv, EngineCtxKnown, DelayedFree

\* Both forms of close give the engine's handle back and leave the memory to
\* a stream that is still open.
LEMMA CloseHandle ==
  ASSUME TypeOK, ContextInv, HandleInv, NEW c \in Conn, NEW gc \in BOOLEAN,
         close(c, gc), lconn[c] \in {"open", "closed"},
         lconn' = [lconn EXCEPT ![c] = IF gc THEN "gone" ELSE "closed"]
  PROVE  HandleInv'
<1>0. /\ ctx \in [Conn -> Ctx]
      /\ lconn \in [Conn -> {"none", "open", "closed", "gone"}]
      /\ ctx[c].free_delayed \in BOOLEAN
  BY DEF TypeOK, ClientTypeOK, Ctx
<1>1. ~ctx[c].free_delayed
  BY DEF ContextInv, ConnPhases
<1>2. \A d \in Conn : d # c => ctx'[d] = ctx[d] /\ lconn'[d] = lconn[d]
  BY <1>0 DEF close, free_conn
<1>3. \A d \in Conn : d \in EngineCtxRef' <=> d # c /\ d \in EngineCtxRef
  BY DEF close, grpc_engine_close, HandleInv, EngineCtxKnown
<1>4. /\ lconn'[c] = IF gc THEN "gone" ELSE "closed"
      /\ ~ctx'[c].engine_ctx
  <2>1. CASE gc /\ ctx[c].opening = {}
    BY <1>0, <2>1 DEF close, free_conn, NoCtx
  <2>2. CASE ~(gc /\ ctx[c].opening = {})
    BY <1>0, <2>2 DEF close, Ctx
  <2> QED
    BY <2>1, <2>2
<1>5. CASE gc /\ ctx[c].opening = {}
  <2>1. ctx'[c].heap = "freed" /\ ~ctx'[c].free_delayed
    BY <1>0, <1>5 DEF close, free_conn, NoCtx
  <2> QED
    BY <1>2, <1>3, <1>4, <2>1 DEF HandleInv, EngineCtxKnown, DelayedFree
<1>6. CASE ~(gc /\ ctx[c].opening = {})
  <2>1. /\ ctx'[c].opening = ctx[c].opening
        /\ ctx'[c].free_delayed = (ctx[c].free_delayed \/ gc)
    BY <1>0, <1>6 DEF close, Ctx
  <2> QED
    BY <1>1, <1>2, <1>3, <1>4, <1>6, <2>1
    DEF HandleInv, EngineCtxKnown, DelayedFree
<1> QED
  BY <1>5, <1>6

\* The finalizer of the last stream frees the connection it was kept for.
LEMMA StreamGcHandle ==
  ASSUME TypeOK, ContextInv, HandleInv, NEW a \in Sctx, stream_gc_handler(a)
  PROVE  HandleInv'
<1> DEFINE c == sctx[a].parent
           opening == ctx[c].opening \ {a}
           free == Append(ctx[c].free, a)
<1>0. ctx \in [Conn -> Ctx] /\ UNCHANGED <<EngineCtxRef, lconn>>
  BY DEF TypeOK, ClientTypeOK, stream_gc_handler
<1>1. c \in Conn
  BY DEF stream_gc_handler, ContextInv, HandleIsOpening, Opens
<1>2. close_stream(a, TRUE)
  BY Zenon DEF stream_gc_handler
<1>3. CASE ctx[c].free_delayed /\ opening = {}
  <2>1. ctx' = [ctx EXCEPT ![c] = [NoCtx EXCEPT !.heap = "freed"]]
    BY <1>2, <1>3 DEF close_stream, free_conn
  <2>2. /\ \A d \in Conn : d # c => ctx'[d] = ctx[d]
        /\ ctx'[c].heap = "freed" /\ ~ctx'[c].free_delayed
        /\ ~ctx'[c].engine_ctx
    BY <1>0, <1>1, <2>1 DEF NoCtx
  <2>3. ~ctx[c].engine_ctx /\ lconn[c] = "gone"
    BY Zenon, <1>1, <1>3 DEF HandleInv, DelayedFree, ContextInv, ConnPhases
  <2> QED
    BY <1>0, <2>2, <2>3 DEF HandleInv, EngineCtxKnown, DelayedFree
<1>4. CASE ~(ctx[c].free_delayed /\ opening = {})
  <2>1. ctx' = [ctx EXCEPT ![c].opening = opening, ![c].free = free]
    BY Zenon, <1>2, <1>4 DEF close_stream
  <2>2. /\ \A d \in Conn : d # c => ctx'[d] = ctx[d]
        /\ ctx'[c].heap = ctx[c].heap /\ ctx'[c].opening = opening
        /\ ctx'[c].free_delayed = ctx[c].free_delayed
        /\ ctx'[c].engine_ctx = ctx[c].engine_ctx
    BY <1>0, <1>1, <2>1 DEF Ctx
  <2> QED
    BY ZenonT(40), <1>0, <1>4, <2>2 DEF HandleInv, EngineCtxKnown, DelayedFree
<1> QED
  BY <1>3, <1>4

\* Every step of the worker preserves HandleInv.
LEMMA HandleStep ==
  TypeOK /\ ContextInv /\ HandleInv /\ [Next]_vars => HandleInv'
<1> SUFFICES ASSUME TypeOK, ContextInv, HandleInv, [Next]_vars
             PROVE  HandleInv'
  OBVIOUS
<1>0. /\ ctx \in [Conn -> Ctx]
      /\ lconn \in [Conn -> {"none", "open", "closed", "gone"}]
  BY DEF TypeOK, ClientTypeOK
<1>1. ASSUME UNCHANGED <<EngineCtxRef, lconn, ctx>> PROVE HandleInv'
  BY SMTT(40), <1>1, HandleFrame
<1>2. CASE EventLoop \/ UNCHANGED vars
  BY Zenon, <1>1, <1>2
  DEF EventLoop, RunRequest, Yield, Exit, vars, engineVars, clientVars, luaVars
<1>3. CASE Lua
  <2>1. ASSUME NEW k \in Co, NEW c \in Conn, Connect(k, c) PROVE HandleInv'
    <3>1. /\ ctx' = [ctx EXCEPT ![c].heap = "live", ![c].engine_ctx = TRUE]
          /\ ctx[c].heap = "none" /\ lconn' = [lconn EXCEPT ![c] = "open"]
          /\ EngineCtxRef' = EngineCtxRef \cup {c}
      BY <2>1 DEF Connect, connect, grpc_engine_connect
    <3>2. /\ \A d \in Conn : d # c => ctx'[d] = ctx[d] /\ lconn'[d] = lconn[d]
          /\ ctx'[c].engine_ctx /\ ctx'[c].free_delayed = ctx[c].free_delayed
          /\ lconn'[c] = "open"
      BY <1>0, <3>1 DEF Ctx
    <3>3. ~ctx[c].free_delayed
      BY <3>1 DEF ContextInv, ConnPhases
    <3> QED
      BY ZenonT(40), <3>1, <3>2, <3>3
      DEF HandleInv, EngineCtxKnown, DelayedFree
  <2>2. ASSUME NEW k \in Co, NEW c \in Conn, ConnClose(k, c) PROVE HandleInv'
    <3>1. /\ close(c, FALSE) /\ lconn[c] = "open"
          /\ lconn' = [lconn EXCEPT ![c] = IF FALSE THEN "gone" ELSE "closed"]
      BY Zenon, <2>2 DEF ConnClose
    <3> QED
      BY Zenon, <3>1, CloseHandle
  <2>3. ASSUME NEW c \in Conn, ctx_gc_handler(c) PROVE HandleInv'
    <3>1. /\ close(c, TRUE) /\ lconn[c] \in {"open", "closed"}
          /\ lconn' = [lconn EXCEPT ![c] = IF TRUE THEN "gone" ELSE "closed"]
      BY Zenon, <2>3 DEF ctx_gc_handler
    <3> QED
      BY Zenon, <3>1, CloseHandle
  <2>4. ASSUME NEW k \in Co, NEW c \in Conn, NEW type \in StreamTypes,
               StartCall(k, c, type) \/ StartCallFails(k, c, type)
        PROVE  HandleInv'
    <3>1. UNCHANGED <<EngineCtxRef, lconn>>
      BY <2>4 DEF StartCall, StartCallFails, engineVars, luaVars
    <3>2. \E q, S : /\ ctx[c].opening \subseteq S
                    /\ ctx' = [ctx EXCEPT ![c].free = q, ![c].opening = S]
      <4>1. CASE StartCall(k, c, type)
        <5>1. PICK a \in Sctx : new_stream(k, c, a, type)
          BY <4>1 DEF StartCall
        <5> DEFINE S == IF type = "unary" THEN ctx[c].opening
                        ELSE ctx[c].opening \cup {a}
        <5>2. ctx' = [ctx EXCEPT ![c].free = FreeWithout(c), ![c].opening = S]
          BY <1>0, <5>1 DEF new_stream, Ctx
        <5> QED
          BY Zenon, <5>2
      <4>2. CASE StartCallFails(k, c, type)
        <5>1. PICK a \in Sctx :
                ctx' = [ctx EXCEPT ![c].free = Append(FreeWithout(c), a)]
          BY Zenon, <4>2 DEF StartCallFails, new_stream_fails
        <5>2. ctx' = [ctx EXCEPT ![c].free = Append(FreeWithout(c), a),
                                 ![c].opening = ctx[c].opening]
          BY Zenon, <1>0, <5>1 DEF Ctx
        <5> QED
          BY Zenon, <5>2
      <4> QED
        BY Zenon, <2>4, <4>1, <4>2
    <3>3. \A d \in Conn : /\ ctx'[d].heap = ctx[d].heap
                          /\ ctx'[d].engine_ctx = ctx[d].engine_ctx
                          /\ ctx'[d].free_delayed = ctx[d].free_delayed
                          /\ ctx[d].opening \subseteq ctx'[d].opening
      BY <1>0, <3>2 DEF Ctx
    <3> QED
      BY Zenon, <3>1, <3>3, HandleFrame
  <2>5. ASSUME NEW k \in Co, NEW a \in Sctx, NEW kind \in Kind,
               StreamOp(k, a, kind)
        PROVE  HandleInv'
    BY <1>1, <2>5 DEF StreamOp, luaVars
  <2>6. ASSUME NEW k \in Co, Kill(k) PROVE HandleInv'
    BY <1>1, <2>6 DEF Kill, cleanup, engineVars, luaVars
  <2>7. ASSUME NEW k \in Co, NEW a \in Sctx,
               StreamOpFails(k, a) \/ StreamClose(k, a)
        PROVE  HandleInv'
    BY <1>1, <2>7 DEF StreamOpFails, StreamClose, close_stream, engineVars,
                      luaVars
  <2> QED
    BY <1>3, <2>1, <2>2, <2>3, <2>4, <2>5, <2>6, <2>7, StreamGcHandle DEF Lua
<1>4. CASE Handlers
  <2>1. CASE \/ \E g \in goroutines : Finish(g)
             \/ ThreadHandler \/ ThreadEvent \/ PostedCancelled \/ PostedEmpty
    BY Zenon, <1>1, <2>1
    DEF Finish, ReportFinishedTask, ThreadHandler, thread_handler,
        grpc_engine_wait, ThreadEvent, thread_event_handler, PostedCancelled,
        post_event_cancelled, PostedEmpty, post_event_empty, engineVars,
        clientVars, luaVars
  <2>2. ASSUME NEW k \in Co, NEW a \in Sctx, NEW ok \in BOOLEAN,
               PostedResumes(k, a, ok) \/ Timeout(k, a)
        PROVE  HandleInv'
    <3>1. UNCHANGED <<EngineCtxRef, lconn>>
      BY Zenon, <2>2 DEF PostedResumes, Timeout
    <3>2. \/ ctx' = ctx
          \/ ctx' = [ctx EXCEPT ![sctx[a].parent].free = Append(@, a)]
      BY Zenon, <2>2
      DEF PostedResumes, post_event_resumes, Timeout, timeout_handler,
                  to_resume
    <3>3. \A d \in Conn : /\ ctx'[d].heap = ctx[d].heap
                          /\ ctx'[d].engine_ctx = ctx[d].engine_ctx
                          /\ ctx'[d].free_delayed = ctx[d].free_delayed
                          /\ ctx[d].opening \subseteq ctx'[d].opening
      <4> DEFINE p == sctx[a].parent
                 x == [ctx[p] EXCEPT !.free = Append(@, a)]
      <4>1. ASSUME p \in Conn
            PROVE  /\ x.heap = ctx[p].heap /\ x.opening = ctx[p].opening
                   /\ x.engine_ctx = ctx[p].engine_ctx
                   /\ x.free_delayed = ctx[p].free_delayed
        BY <1>0, <4>1 DEF Ctx
      <4>2. ctx' = ctx \/ ctx' = [ctx EXCEPT ![p] = x]
        BY <3>2
      <4> HIDE DEF p, x
      <4> QED
        BY <1>0, <4>1, <4>2
    <3> QED
      BY <3>1, <3>3, HandleFrame
  <2> QED
    BY Zenon, <1>4, <2>1, <2>2 DEF Handlers, Posted
<1> QED
  BY <1>2, <1>3, <1>4 DEF Next

----------------------------------------------------------------------------
\* Contexts leak only when a unary call is aborted.

\* unkeep_task goes by the node pointer, which agrees with the tree.
LEMMA UnkeepRemoves ==
  ASSUME ContextInv, NEW a \in ongoing_tasks, a \in Sctx, unkeep_task(a)
  PROVE  ongoing_tasks' = ongoing_tasks \ {a}
BY Zenon DEF ContextInv, KeptIsWaiting, unkeep_task

\* Context a is in a queue of connection c.
Queued(a, c) == a \in ctx[c].opening \/ a \in Elems(ctx[c].free)

\* The tree or a queue leads to context a.
Held(a) == a \in ongoing_tasks \/ \E c \in Conn : Queued(a, c)

\* Timers, cleanup handlers and Lua handles lead to no other contexts.
HeldInv == \A a \in Sctx : a \in SctxPointers <=> Held(a)

\* A coroutine with a timer waits, and a stream with a handle is opening.
LEMMA HeldAre == TypeOK /\ ContextInv => HeldInv
<1> SUFFICES ASSUME TypeOK, ContextInv, NEW a \in Sctx
             PROVE  a \in SctxPointers <=> Held(a)
  BY Zenon DEF HeldInv
<1>1. ASSUME NEW k \in Co, co[k].timer \/ co[k].cleanup, a = co[k].data
      PROVE  a \in ongoing_tasks
  BY Zenon, <1>1 DEF ContextInv, KeptIsWaiting
<1>2. ASSUME lstream[a] # "none" PROVE \E c \in Conn : a \in ctx[c].opening
  BY Zenon, <1>2 DEF ContextInv, HandleIsOpening, Opens
<1>3. ASSUME a \in SctxPointers PROVE Held(a)
  <2>1. \/ a \in ongoing_tasks \/ lstream[a] # "none"
        \/ \E k \in Co : (co[k].timer \/ co[k].cleanup) /\ a = co[k].data
        \/ \E c \in Conn : Queued(a, c)
    BY Zenon, <1>3 DEF SctxPointers, Queued
  <2> QED
    BY Zenon, <1>1, <1>2, <2>1 DEF Held, Queued
<1>4. ASSUME Held(a) PROVE a \in SctxPointers
  <2>1. ASSUME NEW c \in Conn, Queued(a, c)
        PROVE  a \in UNION {ctx[d].opening \cup Elems(ctx[d].free) : d \in Conn}
    BY <2>1 DEF Queued
  <2> QED
    BY Zenon, <1>4, <2>1 DEF SctxPointers, Held
<1> QED
  BY <1>3, <1>4

\* The step leaves context a allocated with nothing that leads to it, which
\* was not so before.
Drop(a) == sctx'[a].heap /\ ~Held(a)' /\ (sctx[a].heap => Held(a))

\* A step that allocates nothing, ends no wait and takes nothing out of a
\* queue drops no context.
LEMMA DropFrame ==
  ASSUME NEW a, sctx'[a].heap => sctx[a].heap,
         a \in ongoing_tasks => a \in ongoing_tasks',
         \A c \in Conn : Queued(a, c) => Queued(a, c)'
  PROVE  ~Drop(a)
BY Zenon DEF Drop, Held

\* free_conn frees what is in the free queue; nothing was in the other.
LEMMA FreeConnDrops ==
  ASSUME TypeOK, NEW c \in Conn, NEW q, free_conn(c, q),
         UNCHANGED ongoing_tasks, NEW a \in Sctx,
         Queued(a, c) => a \in Elems(q)
  PROVE  ~Drop(a)
<1>1. \A d \in Conn : d # c => ctx'[d] = ctx[d]
  BY DEF free_conn, TypeOK, ClientTypeOK
<1>2. sctx'[a].heap => sctx'[a] = sctx[a] /\ a \notin Elems(q)
  BY DEF free_conn, NoSctx, ZeroSctx
<1>3. CASE ~sctx'[a].heap
  BY Zenon, <1>3 DEF Drop
<1>4. CASE sctx'[a].heap
  <2>1. \A d \in Conn : Queued(a, d) => Queued(a, d)'
    BY Zenon, <1>1, <1>2, <1>4 DEF Queued
  <2> QED
    BY <1>2, <1>4, <2>1, DropFrame
<1> QED
  BY <1>3, <1>4

\* new_stream takes one context out of the free queue.
LEMMA TakenLeaves ==
  ASSUME TypeOK, NEW c \in Conn, NEW b \in Sctx, TakesSctx(c, b)
  PROVE  Elems(ctx[c].free) \subseteq Elems(FreeWithout(c)) \cup {b}
<1>1. ctx[c].free \in Seq(Sctx)
  BY QueuesType
<1>2. CASE ctx[c].free # <<>>
  <2> DEFINE q == ctx[c].free
  <2>1. b = Head(q) /\ FreeWithout(c) = Tail(q)
    BY <1>2 DEF TakesSctx, FreeWithout
  <2> HIDE DEF q
  <2>2. /\ q \in Seq(Sctx) /\ q # <<>>
    BY <1>1, <1>2 DEF q
  <2>3. /\ Len(q) \in Nat /\ Len(Tail(q)) = Len(q) - 1
        /\ \A i \in 1 .. Len(q) - 1 : Tail(q)[i] = q[i + 1]
        /\ Head(q) = q[1]
    BY <2>2
  <2>4. ASSUME NEW i \in 1 .. Len(q) PROVE q[i] \in Elems(Tail(q)) \cup {Head(q)}
    <3>1. CASE i = 1
      BY <2>3, <3>1
    <3>2. CASE i # 1
      <4>1. i - 1 \in 1 .. Len(Tail(q)) /\ q[i] = Tail(q)[i - 1]
        BY <2>3, <3>2
      <4> QED
        BY <4>1 DEF Elems
    <3> QED
      BY <3>1, <3>2
  <2>5. Elems(q) \subseteq Elems(Tail(q)) \cup {Head(q)}
    BY <2>4 DEF Elems
  <2> QED
    BY <2>1, <2>5 DEF q
<1>3. CASE ctx[c].free = <<>>
  BY <1>3, QueueEmpty
<1> QED
  BY <1>2, <1>3

\* close frees the connection without opening streams or keeps its queues.
LEMMA CloseDrops ==
  ASSUME TypeOK, NEW c \in Conn, NEW gc \in BOOLEAN, close(c, gc),
         UNCHANGED ongoing_tasks, NEW a \in Sctx
  PROVE  ~Drop(a)
<1>1. CASE gc /\ ctx[c].opening = {}
  <2>1. free_conn(c, ctx[c].free)
    BY Zenon, <1>1 DEF close
  <2>2. Queued(a, c) => a \in Elems(ctx[c].free)
    BY Zenon, <1>1 DEF Queued
  <2> QED
    BY <2>1, <2>2, FreeConnDrops
<1>2. CASE ~(gc /\ ctx[c].opening = {})
  <2>1. /\ ctx' = [ctx EXCEPT ![c].engine_ctx = FALSE,
                              ![c].free_delayed = @ \/ gc]
        /\ UNCHANGED sctx
    BY Zenon, <1>2 DEF close
  <2>2. \A d \in Conn : /\ ctx'[d].opening = ctx[d].opening
                        /\ ctx'[d].free = ctx[d].free
    BY <2>1 DEF TypeOK, ClientTypeOK, Ctx
  <2>3. \A d \in Conn : Queued(a, d) => Queued(a, d)'
    BY Zenon, <2>2 DEF Queued
  <2> QED
    BY <2>1, <2>3, DropFrame
<1> QED
  BY <1>1, <1>2

\* The finalizer of a stream moves its context to the free queue, or frees
\* the connection with it.
LEMMA CloseStreamDrops ==
  ASSUME TypeOK, ContextInv, NEW b \in Sctx, stream_gc_handler(b),
         NEW a \in Sctx
  PROVE  ~Drop(a)
<1> DEFINE c == sctx[b].parent
           opening == ctx[c].opening \ {b}
           free == Append(ctx[c].free, b)
<1>1. c \in Conn
  BY DEF stream_gc_handler, ContextInv, HandleIsOpening, Opens
<1>2. close_stream(b, TRUE) /\ UNCHANGED ongoing_tasks
  BY Zenon DEF stream_gc_handler, taskVars
<1>3. Elems(free) = Elems(ctx[c].free) \cup {b}
  BY Zenon, <1>1, QueuesType, QueueAppend
<1>4. CASE ctx[c].free_delayed /\ opening = {}
  <2>1. free_conn(c, free)
    BY Zenon, <1>2, <1>4 DEF close_stream
  <2>2. Queued(a, c) => a \in Elems(free)
    BY Zenon, <1>3, <1>4 DEF Queued
  <2> HIDE DEF c, free
  <2> QED
    BY <1>1, <1>2, <2>1, <2>2, FreeConnDrops
<1>5. CASE ~(ctx[c].free_delayed /\ opening = {})
  <2>1. /\ ctx' = [ctx EXCEPT ![c].opening = opening, ![c].free = free]
        /\ sctx' = [sctx EXCEPT ![b].r = NULL]
    BY Zenon, <1>2, <1>5 DEF close_stream
  <2>2. /\ \A d \in Conn : d # c => ctx'[d] = ctx[d]
        /\ ctx'[c].opening = opening /\ ctx'[c].free = free
    BY ZenonT(40), <1>1, <2>1 DEF TypeOK, ClientTypeOK, Ctx
  <2>3. sctx'[a].heap = sctx[a].heap
    BY <2>1 DEF TypeOK, ClientTypeOK, StreamCtx
  <2> HIDE DEF c, free
  <2>4. \A d \in Conn : Queued(a, d) => Queued(a, d)'
    BY Zenon, <1>3, <2>2 DEF Queued
  <2> QED
    BY <1>2, <2>3, <2>4, DropFrame
<1> QED
  BY <1>4, <1>5

\* new_stream puts the context it takes into the tree.
LEMMA StartCallDrops ==
  ASSUME TypeOK, NEW k \in Co, NEW c \in Conn, NEW type \in StreamTypes,
         StartCall(k, c, type), NEW a \in Sctx
  PROVE  ~Drop(a)
<1>1. PICK b \in Sctx : new_stream(k, c, b, type)
  BY DEF StartCall
<1>2. /\ TakesSctx(c, b) /\ ongoing_tasks' = ongoing_tasks \cup {b}
      /\ \E s : sctx' = [sctx EXCEPT ![b] = s]
      /\ ctx' = [ctx EXCEPT ![c].free = FreeWithout(c),
           ![c].opening = IF type = "unary" THEN @ ELSE @ \cup {b}]
  BY Zenon, <1>1 DEF new_stream, kick_off_task, keep_task
<1>3. CASE a = b
  BY Zenon, <1>2, <1>3 DEF Drop, Held
<1>4. CASE a # b
  <2>1. sctx'[a] = sctx[a]
    BY <1>2, <1>4 DEF TypeOK, ClientTypeOK
  <2>2. /\ \A d \in Conn : d # c => ctx'[d] = ctx[d]
        /\ ctx'[c].free = FreeWithout(c)
        /\ ctx[c].opening \subseteq ctx'[c].opening
    BY <1>2 DEF TypeOK, ClientTypeOK, Ctx
  <2>3. \A d \in Conn : Queued(a, d) => Queued(a, d)'
    BY Zenon, <1>2, <1>4, <2>2, TakenLeaves DEF Queued
  <2> QED
    BY <1>2, <2>1, <2>3, DropFrame
<1> QED
  BY <1>3, <1>4

\* If it fails, the context goes back to the free queue.
LEMMA StartCallFailsDrops ==
  ASSUME TypeOK, ContextInv, NEW k \in Co, NEW c \in Conn,
         NEW type \in StreamTypes, StartCallFails(k, c, type), NEW a \in Sctx
  PROVE  ~Drop(a)
<1>1. PICK b \in Sctx : new_stream_fails(k, c, b, type)
  BY DEF StartCallFails
<1>2. /\ TakesSctx(c, b) /\ UNCHANGED ongoing_tasks
      /\ \E s : sctx' = [sctx EXCEPT ![b] = s]
      /\ ctx' = [ctx EXCEPT ![c].free = Append(FreeWithout(c), b)]
  BY Zenon, <1>1 DEF new_stream_fails, kick_off_fails, taskVars
<1>3. Elems(Append(FreeWithout(c), b)) = Elems(FreeWithout(c)) \cup {b}
  <2>1. FreeWithout(c) \in Seq(Sctx)
    BY Zenon, <1>2, TakenIsUnused
  <2> QED
    BY <2>1, QueueAppend
<1>4. /\ \A d \in Conn : d # c => ctx'[d] = ctx[d]
      /\ ctx'[c].free = Append(FreeWithout(c), b)
      /\ ctx'[c].opening = ctx[c].opening
  BY <1>2 DEF TypeOK, ClientTypeOK, Ctx
<1>5. CASE a = b
  BY Zenon, <1>3, <1>4, <1>5 DEF Drop, Held, Queued
<1>6. CASE a # b
  <2>1. sctx'[a] = sctx[a]
    BY <1>2, <1>6 DEF TypeOK, ClientTypeOK
  <2>2. \A d \in Conn : Queued(a, d) => Queued(a, d)'
    BY Zenon, <1>2, <1>3, <1>4, TakenLeaves DEF Queued
  <2> QED
    BY <1>2, <2>1, <2>2, DropFrame
<1> QED
  BY <1>5, <1>6

\* put_res returns the context of a unary call; that of a stream is in the
\* opening queue all along.
LEMMA ResumeDrops ==
  ASSUME TypeOK, ContextInv, NEW k, NEW b \in Sctx, b \in ongoing_tasks,
         to_resume(k, b), \A d \in Sctx : sctx'[d].heap = sctx[d].heap,
         NEW a \in Sctx
  PROVE  ~Drop(a)
<1> DEFINE c == sctx[b].parent
<1>1. ongoing_tasks' = ongoing_tasks \ {b}
  BY Zenon, UnkeepRemoves DEF to_resume
<1>2. c \in Conn /\ (sctx[b].type # "unary" => b \in ctx[c].opening)
  BY Zenon DEF ContextInv, InFlight, Flies
<1>3. CASE sctx[b].type # "unary"
  <2>1. ctx' = ctx
    BY Zenon, <1>3 DEF to_resume
  <2>2. \A d \in Conn : Queued(a, d) => Queued(a, d)'
    BY Zenon, <2>1 DEF Queued
  <2>3. CASE a = b
    BY Zenon, <1>2, <1>3, <2>1, <2>3 DEF Drop, Held, Queued
  <2>4. CASE a # b
    BY <1>1, <2>2, <2>4, DropFrame
  <2> QED
    BY <2>3, <2>4
<1>4. CASE sctx[b].type = "unary"
  <2>1. ctx' = [ctx EXCEPT ![c].free = Append(@, b)]
    BY Zenon, <1>4 DEF to_resume
  <2>2. /\ \A d \in Conn : d # c => ctx'[d] = ctx[d]
        /\ ctx'[c].free = Append(ctx[c].free, b)
        /\ ctx'[c].opening = ctx[c].opening
    BY <1>2, <2>1 DEF TypeOK, ClientTypeOK, Ctx
  <2>3. Elems(Append(ctx[c].free, b)) = Elems(ctx[c].free) \cup {b}
    <3>1. ctx[c].free \in Seq(Sctx)
      BY Zenon, <1>2, QueuesType
    <3> QED
      BY <3>1, QueueAppend
  <2> HIDE DEF c
  <2>4. \A d \in Conn : Queued(a, d) => Queued(a, d)'
    BY Zenon, <2>2, <2>3 DEF Queued
  <2>5. CASE a = b
    BY Zenon, <1>2, <2>2, <2>3, <2>5 DEF Drop, Held, Queued
  <2>6. CASE a # b
    BY <1>1, <2>4, <2>6, DropFrame
  <2> QED
    BY <2>5, <2>6
<1> QED
  BY <1>3, <1>4

\* A coroutine that is killed drops the context it waits on if no queue has
\* it, which is so in a unary call.
LEMMA KillDrops ==
  ASSUME TypeOK, ContextInv, NEW k \in Co, Kill(k), NEW a \in Sctx, Drop(a)
  PROVE  /\ Waits(k) /\ co[k].kind = "call" /\ co[k].data = a
         /\ co'[k].status = "dead"
<1>1. /\ co[k].cleanup /\ unkeep_task(co[k].data) /\ UNCHANGED ctx
      /\ co' = [co EXCEPT ![k] = [IdleCo EXCEPT !.status = "dead"]]
      /\ sctx' = [sctx EXCEPT ![co[k].data].node = FALSE]
  BY Zenon DEF Kill, cleanup
<1>2. /\ Waits(k) /\ co[k].data \in ongoing_tasks /\ co[k].data \in Sctx
      /\ sctx[co[k].data].wait_co_ctx = k
  BY Zenon, <1>1 DEF ContextInv, KeptIsWaiting, TypeOK, ClientTypeOK
<1>3. ongoing_tasks' = ongoing_tasks \ {co[k].data}
  BY <1>1, <1>2, UnkeepRemoves
<1>4. sctx'[a].heap = sctx[a].heap
  BY <1>1 DEF TypeOK, ClientTypeOK, StreamCtx
<1>5. \A d \in Conn : Queued(a, d) => Queued(a, d)'
  BY Zenon, <1>1 DEF Queued
<1>6. co[k].data = a
  BY <1>3, <1>4, <1>5, DropFrame
<1>7. co[k].kind = "call"
  <2>1. Flies(a) /\ sctx[a].wait_co_ctx = k
    BY Zenon, <1>2, <1>6 DEF ContextInv, InFlight
  <2>2. \A d \in Conn : a \notin ctx[d].opening
    BY Zenon, <1>5 DEF Drop, Held, Queued
  <2> QED
    BY Zenon, <2>1, <2>2 DEF Flies
<1>8. co'[k].status = "dead"
  BY <1>1 DEF IdleCo, TypeOK, ClientTypeOK
<1> QED
  BY <1>2, <1>6, <1>7, <1>8

\* The step that drops a context kills a coroutine in a unary call.
LEMMA DropStep ==
  ASSUME TypeOK, ContextInv, [Next]_vars, NEW a \in Sctx, Drop(a)
  PROVE  \E k \in Co : /\ Waits(k) /\ co[k].kind = "call" /\ co[k].data = a
                       /\ co'[k].status = "dead"
<1>1. ASSUME UNCHANGED <<ctx, sctx, ongoing_tasks>> PROVE FALSE
  <2>1. \A d \in Conn : Queued(a, d) => Queued(a, d)'
    BY Zenon, <1>1 DEF Queued
  <2> QED
    BY <1>1, <2>1, DropFrame
<1>2. CASE EventLoop \/ UNCHANGED vars
  BY <1>1, <1>2 DEF EventLoop, RunRequest, Yield, Exit, vars, clientVars,
                    taskVars
<1>3. CASE Lua
  <2>1. ASSUME NEW k \in Co, NEW c \in Conn, Connect(k, c) PROVE FALSE
    <3>1. /\ ctx' = [ctx EXCEPT ![c].heap = "live", ![c].engine_ctx = TRUE]
          /\ UNCHANGED <<sctx, ongoing_tasks>>
      BY Zenon, <2>1 DEF Connect, connect, taskVars
    <3>2. \A d \in Conn : /\ ctx'[d].opening = ctx[d].opening
                          /\ ctx'[d].free = ctx[d].free
      BY <3>1 DEF TypeOK, ClientTypeOK, Ctx
    <3>3. \A d \in Conn : Queued(a, d) => Queued(a, d)'
      BY Zenon, <3>2 DEF Queued
    <3> QED
      BY <3>1, <3>3, DropFrame
  <2>2. ASSUME NEW k \in Co, NEW c \in Conn, ConnClose(k, c) PROVE FALSE
    BY Zenon, <2>2, CloseDrops DEF ConnClose, taskVars
  <2>3. ASSUME NEW c \in Conn, ctx_gc_handler(c) PROVE FALSE
    BY Zenon, <2>3, CloseDrops DEF ctx_gc_handler, taskVars
  <2>4. ASSUME NEW k \in Co, NEW c \in Conn, NEW type \in StreamTypes,
               StartCall(k, c, type) \/ StartCallFails(k, c, type)
        PROVE  FALSE
    BY Zenon, <2>4, StartCallDrops, StartCallFailsDrops
  <2>5. ASSUME NEW k \in Co, NEW b \in Sctx, NEW kind \in Kind,
               StreamOp(k, b, kind)
        PROVE  FALSE
    <3>1. /\ ongoing_tasks' = ongoing_tasks \cup {b} /\ UNCHANGED ctx
          /\ sctx' = [sctx EXCEPT ![b] = [sctx[b] EXCEPT !.wait_co_ctx = k,
                        !.state = "OK", !.node = TRUE]]
      BY Zenon, <2>5 DEF StreamOp, stream_op, kick_off_task, keep_task
    <3>2. sctx'[a].heap = sctx[a].heap
      BY <3>1 DEF TypeOK, ClientTypeOK, StreamCtx
    <3>3. \A d \in Conn : Queued(a, d) => Queued(a, d)'
      BY Zenon, <3>1 DEF Queued
    <3> QED
      BY <3>1, <3>2, <3>3, DropFrame
  <2>6. ASSUME NEW k \in Co, NEW b \in Sctx,
               StreamOpFails(k, b) \/ StreamClose(k, b)
        PROVE  FALSE
    BY Zenon, <1>1, <2>6
    DEF StreamOpFails, kick_off_fails, StreamClose, close_stream, taskVars
  <2>7. ASSUME NEW b \in Sctx, stream_gc_handler(b) PROVE FALSE
    BY Zenon, <2>7, CloseStreamDrops
  <2> QED
    BY ZenonT(40), <1>3, <2>1, <2>2, <2>3, <2>4, <2>5, <2>6, <2>7, KillDrops
    DEF Lua
<1>4. CASE Handlers
  <2>1. ASSUME \/ \E g \in goroutines : Finish(g)
               \/ ThreadHandler \/ ThreadEvent \/ PostedCancelled \/ PostedEmpty
        PROVE  FALSE
    BY Zenon, <1>1, <2>1
    DEF Finish, ThreadHandler, thread_handler, ThreadEvent,
        thread_event_handler, PostedCancelled, post_event_cancelled,
        PostedEmpty, post_event_empty, clientVars, taskVars
  <2>2. ASSUME NEW k \in Co, NEW b \in Sctx, NEW ok \in BOOLEAN,
               PostedResumes(k, b, ok)
        PROVE  FALSE
    <3>1. /\ b \in ongoing_tasks /\ to_resume(k, b)
          /\ sctx' = [sctx EXCEPT ![b].node = FALSE, ![b].wait_co_ctx = NULL]
      BY Zenon, <2>2 DEF PostedResumes, post_event_resumes, lookup_task
    <3>2. \A d \in Sctx : sctx'[d].heap = sctx[d].heap
      BY <3>1 DEF TypeOK, ClientTypeOK, StreamCtx
    <3> QED
      BY <3>1, <3>2, ResumeDrops
  <2>3. ASSUME NEW k \in Co, NEW b \in Sctx, Timeout(k, b) PROVE FALSE
    <3>1. /\ co[k].timer /\ b = co[k].data /\ to_resume(sctx[b].wait_co_ctx, b)
          /\ sctx' = [sctx EXCEPT ![b].state = "TIMEOUT", ![b].node = FALSE,
                                  ![b].wait_co_ctx = NULL]
      BY Zenon, <2>3 DEF Timeout, timeout_handler
    <3>2. \A d \in Sctx : sctx'[d].heap = sctx[d].heap
      BY <3>1 DEF TypeOK, ClientTypeOK, StreamCtx
    <3>3. b \in ongoing_tasks
      BY Zenon, <3>1 DEF ContextInv, KeptIsWaiting
    <3> QED
      BY <3>1, <3>2, <3>3, ResumeDrops
  <2> QED
    BY ZenonT(40), <1>4, <2>1, <2>2, <2>3 DEF Handlers, Posted
<1> QED
  BY Zenon, <1>2, <1>3, <1>4 DEF Next
=============================================================================
