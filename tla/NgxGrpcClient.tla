--------------------------- MODULE NgxGrpcClient ---------------------------
(***************************************************************************)
(* The nginx module, src/ngx_grpc_client.c, in one worker process: the     *)
(* connection and stream contexts, the tree of ongoing tasks, the one      *)
(* thread-pool task that waits for the engine, and the handlers that bring *)
(* a result, a timeout or an abort back to a Lua coroutine.                *)
(*                                                                         *)
(* The http and the stream subsystem have a copy each of resume and        *)
(* cleanup that differ in types only; they are one definition here.        *)
(* Functions of the C file that Lua calls are operators; the handlers that *)
(* nginx calls are actions up to the point where Lua goes on (GrpcClient). *)
(***************************************************************************)
EXTENDS Engine, FiniteSets

CONSTANTS Co,       \* Lua coroutines (light threads), ngx_http_lua_co_ctx_t
          Req,      \* requests
          ReqOf,    \* the request a coroutine belongs to
          NULL,
          MayFail   \* whether an allocation or the post of a thread may fail

ASSUME ReqAssumption ==
  /\ ReqOf \in [Co -> Req]
  /\ NULL \notin Conn \cup Sctx \cup Co \cup Req
  /\ MayFail \in BOOLEAN

VARIABLES ctx, sctx,        \* the two structs, by address
          ongoing_tasks,    \* keys of the red-black tree
          ongoing_tasks_num,
          thctx,            \* ngx_grpc_cli_thread_ctx_t and its event
          pool,             \* the task in the thread pool
          co,               \* what this module uses of a coroutine context
          bufs,             \* operations whose result buffer is allocated
          nops,             \* operations started so far
          ngx_exiting,
          fault             \* "panic": mustFind has not found its handle;
                            \* "uaf": the freed array of results was read

taskVars == <<ongoing_tasks, ongoing_tasks_num>>
clientVars == <<ctx, sctx, taskVars, thctx, pool, co, bufs, nops,
                ngx_exiting, fault>>

StreamType == {"unary", "client", "server", "bidi"}
Kind == EngineKind \cup {"recv_close"}

Ctx == [heap : {"none", "live", "freed"}, engine_ctx : BOOLEAN,
        opening : SUBSET Sctx, free : Seq(Sctx), free_delayed : BOOLEAN]

StreamCtx == [heap : BOOLEAN, r : Req \cup {NULL},
              wait_co_ctx : Co \cup {NULL}, state : {"OK", "TIMEOUT"},
              node : BOOLEAN, parent : Conn \cup {NULL}, type : StreamType]

\* freed: finished_tasks points to an array that has been freed.
ThreadCtx == [finished_tasks : Seq(Result), freed : BOOLEAN,
              posted_ev : BOOLEAN, occupied : Seq(Result), free : Nat]

\* data is the sctx that both the timer and the cleanup handler refer to; op
\* and kind are the Lua call the coroutine is in.  All three are dropped when
\* the coroutine goes on: only a timer or a cleanup handler reads them.
CoCtx == [status : {"idle", "wait", "dead"}, timer : BOOLEAN,
          cleanup : BOOLEAN, data : Sctx \cup {NULL},
          op : Op \cup {0}, kind : Kind]

ClientTypeOK ==
  /\ ctx \in [Conn -> Ctx]
  /\ sctx \in [Sctx -> StreamCtx]
  /\ ongoing_tasks \subseteq Sctx
  /\ ongoing_tasks_num \in Int
  /\ thctx \in ThreadCtx
  /\ pool \in {"idle", "queued", "done"}
  /\ co \in [Co -> CoCtx]
  /\ bufs \subseteq Op
  /\ nops \in 0 .. MaxOps
  /\ ngx_exiting \in BOOLEAN
  /\ fault \in {"none", "panic", "uaf"}

NoCtx == [heap |-> "none", engine_ctx |-> FALSE, opening |-> {},
          free |-> <<>>, free_delayed |-> FALSE]

ZeroSctx == [heap |-> TRUE, r |-> NULL, wait_co_ctx |-> NULL,
             state |-> "OK", node |-> FALSE, parent |-> NULL,
             type |-> "unary"]

NoSctx == [ZeroSctx EXCEPT !.heap = FALSE]

IdleCo == [status |-> "idle", timer |-> FALSE, cleanup |-> FALSE,
           data |-> NULL, op |-> 0, kind |-> "call"]

\* ngx_grpc_cli_init_worker and ngx_grpc_cli_thread have run.
ClientInit ==
  /\ ctx = [c \in Conn |-> NoCtx]
  /\ sctx = [a \in Sctx |-> NoSctx]
  /\ ongoing_tasks = {} /\ ongoing_tasks_num = 0
  /\ thctx = [finished_tasks |-> <<>>, freed |-> FALSE,
              posted_ev |-> FALSE, occupied |-> <<>>, free |-> 0]
  /\ pool = "idle"
  /\ co = [k \in Co |-> IdleCo]
  /\ bufs = {} /\ nops = 0
  /\ ngx_exiting = FALSE /\ fault = "none"

Elems(s) == {s[i] : i \in 1 .. Len(s)}

----------------------------------------------------------------------------
\* Ongoing tasks.

\* ngx_grpc_cli_lookup_task: a search by key.
lookup_task(key) == key \in ongoing_tasks

keep_task(a) ==
  /\ ongoing_tasks' = ongoing_tasks \cup {a}
  /\ ongoing_tasks_num' = ongoing_tasks_num + 1

\* Mutated form of unkeep_task: the count is not taken back.
UnkeepNoCount(a) ==
  /\ ongoing_tasks' = ongoing_tasks \ {a}
  /\ UNCHANGED ongoing_tasks_num

\* The caller clears sctx[a].node.
unkeep_task(a) ==
  IF sctx[a].node
  THEN /\ ongoing_tasks' = ongoing_tasks \ {a}
       /\ ongoing_tasks_num' = ongoing_tasks_num - 1
  ELSE UNCHANGED taskVars

\* ngx_grpc_cli_schedule_task_thread_if_needed: the state of the pool's task
\* once it has been posted.  A task is active from the post until nginx runs
\* its event handler.
Scheduled == IF pool = "idle" THEN "queued" ELSE pool

\* Mutated form of kick_off_task: no timer is added.
KickOffNoTimer(k, a, s, kind) ==
  /\ pool' = Scheduled
  /\ keep_task(a)
  /\ sctx' = [sctx EXCEPT ![a] = [s EXCEPT !.wait_co_ctx = k,
                                           !.state = "OK",
                                           !.node = TRUE]]
  /\ nops' = nops + 1
  /\ co' = [co EXCEPT ![k] = [status |-> "wait", timer |-> FALSE,
                              cleanup |-> TRUE, data |-> a,
                              op |-> nops + 1, kind |-> kind]]

\* Coroutine k starts to wait on stream context a, whose fields are s.
kick_off_task(k, a, s, kind) ==
  /\ pool' = Scheduled
  /\ keep_task(a)
  /\ sctx' = [sctx EXCEPT ![a] = [s EXCEPT !.wait_co_ctx = k,
                                           !.state = "OK",
                                           !.node = TRUE]]
  /\ nops' = nops + 1
  /\ co' = [co EXCEPT ![k] = [status |-> "wait", timer |-> TRUE,
                              cleanup |-> TRUE, data |-> a,
                              op |-> nops + 1, kind |-> kind]]

\* kick_off_task fails in its context checks or the post of the thread, or,
\* with the thread posted, in the allocation of the tree node.
kick_off_fails ==
  /\ MayFail
  /\ pool' \in {pool, Scheduled}
  /\ UNCHANGED <<taskVars, co, nops>>

----------------------------------------------------------------------------
\* Connections and streams.

\* ngx_calloc and grpc_engine_connect succeed (on an error of either nothing
\* is left behind).
connect(c) ==
  /\ ctx[c].heap = "none"
  /\ ctx' = [ctx EXCEPT ![c].heap = "live", ![c].engine_ctx = TRUE]
  /\ grpc_engine_connect(c)

\* Mutated form of TakesSctx: one that is in use.
TakesUsedSctx(c, a) == IF ctx[c].free # <<>> THEN a = Head(ctx[c].free)
                       ELSE TRUE

\* The stream context new_stream takes: the one that has been in the free
\* queue longest (in at the head, out at the last), else a fresh allocation.
TakesSctx(c, a) == IF ctx[c].free # <<>> THEN a = Head(ctx[c].free)
                   ELSE ~sctx[a].heap

FreeWithout(c) == IF ctx[c].free # <<>> THEN Tail(ctx[c].free) ELSE <<>>

NewSctx(k, c, type) ==
  [ZeroSctx EXCEPT !.r = ReqOf[k], !.parent = c, !.type = type]

new_stream(k, c, a, type) ==
  /\ ctx[c].engine_ctx
  /\ TakesSctx(c, a)
  /\ kick_off_task(k, a, NewSctx(k, c, type),
                   IF type = "unary" THEN "call" ELSE "new_stream")
  /\ ctx' = [ctx EXCEPT
       ![c].free = FreeWithout(c),
       ![c].opening = IF type = "unary" THEN @ ELSE @ \cup {a}]
  /\ IF MustFindConn(c)
     THEN /\ Go(IF type = "unary" THEN "call" ELSE "new_stream", a, nops + 1)
          /\ UNCHANGED fault
     ELSE fault' = "panic" /\ UNCHANGED goroutines

\* Mutated form of new_stream_fails: the context taken from the free queue
\* was not removed from it.
FailsWithoutRemove(k, c, a, type) ==
  /\ ctx[c].engine_ctx
  /\ TakesSctx(c, a)
  /\ kick_off_fails
  /\ sctx' = [sctx EXCEPT ![a] = NewSctx(k, c, type)]
  /\ ctx' = [ctx EXCEPT ![c].free = Append(@, a)]

\* kick_off_task fails: the context goes to the free queue.
new_stream_fails(k, c, a, type) ==
  /\ ctx[c].engine_ctx
  /\ TakesSctx(c, a)
  /\ kick_off_fails
  /\ sctx' = [sctx EXCEPT ![a] = NewSctx(k, c, type)]
  /\ ctx' = [ctx EXCEPT ![c].free = Append(FreeWithout(c), a)]

\* stream_recv, stream_send, stream_close_send after check_stream_status.
check_stream_status(k, a) ==
  /\ sctx[a].r = ReqOf[k]
  /\ sctx[a].wait_co_ctx = NULL

EngineOf(kind) == IF kind = "recv_close" THEN "recv" ELSE kind

stream_op(k, a, kind) ==
  /\ check_stream_status(k, a)
  /\ kick_off_task(k, a, sctx[a], kind)
  /\ IF MustFindStream(a)
     THEN Go(EngineOf(kind), a, nops + 1) /\ UNCHANGED fault
     ELSE fault' = "panic" /\ UNCHANGED goroutines

\* ngx_grpc_cli_free_conn, for a context whose free queue is q.
free_conn(c, q) ==
  /\ ctx' = [ctx EXCEPT ![c] = [NoCtx EXCEPT !.heap = "freed"]]
  /\ sctx' = [a \in Sctx |-> IF a \in Elems(q) THEN NoSctx ELSE sctx[a]]

\* Mutated forms of close: the connection is freed under its streams; the
\* engine handle is kept.
CloseFreesNow(c, gc) ==
  /\ IF ctx[c].engine_ctx THEN grpc_engine_close(c)
     ELSE UNCHANGED EngineCtxRef
  /\ IF gc THEN free_conn(c, ctx[c].free)
     ELSE ctx' = [ctx EXCEPT ![c].engine_ctx = FALSE] /\ UNCHANGED sctx
CloseKeepsHandle(c, gc) ==
  /\ IF ctx[c].engine_ctx THEN grpc_engine_close(c)
     ELSE UNCHANGED EngineCtxRef
  /\ IF gc /\ ctx[c].opening = {}
     THEN free_conn(c, ctx[c].free)
     ELSE /\ ctx' = [ctx EXCEPT ![c].free_delayed = @ \/ gc]
          /\ UNCHANGED sctx

\* ngx_grpc_cli_close: called by Conn:close, and by the finalizer with gc.
close(c, gc) ==
  /\ IF ctx[c].engine_ctx THEN grpc_engine_close(c)
     ELSE UNCHANGED EngineCtxRef
  /\ IF gc /\ ctx[c].opening = {}
     THEN free_conn(c, ctx[c].free)
     ELSE /\ ctx' = [ctx EXCEPT ![c].engine_ctx = FALSE,
                                ![c].free_delayed = @ \/ gc]
          /\ UNCHANGED sctx

\* Mutated forms of close_stream: the stream stays in the opening queue; the
\* delayed free is not continued.
CloseStreamKeepsOpening(a, gc) ==
  /\ grpc_engine_close_stream(a)
  /\ UNCHANGED <<ctx, fault>>
  /\ sctx' = IF gc THEN [sctx EXCEPT ![a].r = NULL] ELSE sctx
CloseStreamNoContinue(a, gc) ==
  /\ grpc_engine_close_stream(a)
  /\ LET c == sctx[a].parent
     IN  IF ~gc THEN UNCHANGED <<ctx, sctx>>
         ELSE /\ ctx' = [ctx EXCEPT ![c].opening = @ \ {a},
                                    ![c].free = Append(@, a)]
              /\ sctx' = [sctx EXCEPT ![a].r = NULL]
  /\ UNCHANGED fault

\* ngx_grpc_cli_close_stream, likewise.
close_stream(a, gc) ==
  /\ grpc_engine_close_stream(a)
  /\ LET c == sctx[a].parent
         opening == ctx[c].opening \ {a}
         free == Append(ctx[c].free, a)
     IN  IF ~gc THEN UNCHANGED <<ctx, sctx>>
         ELSE IF ctx[c].free_delayed /\ opening = {}
         THEN free_conn(c, free)
         ELSE /\ ctx' = [ctx EXCEPT ![c].opening = opening, ![c].free = free]
              /\ sctx' = [sctx EXCEPT ![a].r = NULL]
  /\ UNCHANGED fault

----------------------------------------------------------------------------
\* The waiting thread and the results it brings.

\* Operations of the results that come with a buffer.
BufsOf(s) == {s[i].op : i \in {j \in 1 .. Len(s) : s[j].type # "ok_not_res"}}

\* Mutated form of thread_handler: the array is freed in a running worker too.
HandlerAlwaysFrees ==
  /\ pool = "queued" /\ pool' = "done"
  /\ grpc_engine_wait
  /\ thctx' = [thctx EXCEPT !.finished_tasks = tasks,
                            !.freed = tasks # <<>>]
  /\ UNCHANGED <<ctx, sctx, taskVars, co, bufs, nops, ngx_exiting, fault>>

\* ngx_grpc_cli_thread_handler, in the pool thread: grpc_engine_wait
\* returns what has been reported, if only after its timeout.  In a worker
\* that is exiting the thread frees the buffers and the array itself.
thread_handler ==
  /\ pool = "queued" /\ pool' = "done"
  /\ grpc_engine_wait
  /\ thctx' = [thctx EXCEPT !.finished_tasks = tasks,
                            !.freed = ngx_exiting /\ tasks # <<>>]
  /\ bufs' = IF ngx_exiting THEN bufs ELSE bufs \cup BufsOf(tasks)
  /\ UNCHANGED <<ctx, sctx, taskVars, co, nops, ngx_exiting, fault>>

\* insert_posted_event_ctx drops a result when it neither has a free
\* posted_event_ctx nor memory for one.  f lists the indices, out of 1 .. n,
\* of the results that are kept.
Keeps(n, m, f) ==
  /\ \A i, j \in 1 .. m : i < j => f[i] < f[j]
  /\ \A i \in 1 .. n : i <= thctx.free \/ ~MayFail => \E j \in 1 .. m : f[j] = i

\* Mutated forms of StillHaveTasksToWait: off by one either way.
GivesUpEarly(n) == ~ngx_exiting /\ ongoing_tasks_num > n + 1
PollsForever(n) == ~ngx_exiting /\ ongoing_tasks_num >= n

\* Whether the event handler posts the thread again.
StillHaveTasksToWait(n) == ~ngx_exiting /\ ongoing_tasks_num > n

\* ngx_grpc_cli_thread_event_handler.  nginx has cleared event.active.
thread_event_handler ==
  LET s == thctx.finished_tasks
      n == Len(s)
  IN  /\ pool = "done"
      /\ IF thctx.freed
         THEN /\ fault' = "uaf"
              /\ UNCHANGED <<thctx, pool>>
         ELSE /\ \E m \in 0 .. n : \E f \in [1 .. m -> 1 .. n] :
                   /\ Keeps(n, m, f)
                   /\ thctx' = [finished_tasks |-> <<>>, freed |-> FALSE,
                        posted_ev |-> thctx.posted_ev \/ n > 0,
                        occupied |-> thctx.occupied \o
                                     [i \in 1 .. m |-> s[f[i]]],
                        free |-> IF thctx.free > n THEN thctx.free - n
                                 ELSE 0]
              /\ \/ pool' = IF StillHaveTasksToWait(n) THEN "queued"
                            ELSE "idle"
                 \/ MayFail /\ pool' = "idle"
              /\ UNCHANGED fault
      /\ UNCHANGED <<ctx, sctx, taskVars, co, bufs, nops, ngx_exiting>>

\* Mutated forms of to_resume: put_res forgets the context of a unary call,
\* or reuses the context of any stream.
ForgetsSctx(k, a) ==
  /\ unkeep_task(a)
  /\ co' = [co EXCEPT ![k] = IdleCo]
  /\ UNCHANGED <<ctx, fault>>
ReusesAnySctx(k, a) ==
  /\ unkeep_task(a)
  /\ co' = [co EXCEPT ![k] = IdleCo]
  /\ ctx' = [ctx EXCEPT ![sctx[a].parent].free = Append(@, a)]
  /\ UNCHANGED fault

\* ngx_grpc_cli_to_resume and put_res: coroutine k gets its two values and
\* the context of an unary call goes back to the free queue.
to_resume(k, a) ==
  /\ unkeep_task(a)
  /\ co' = [co EXCEPT ![k] = IdleCo]
  /\ ctx' = IF sctx[a].type # "unary" THEN ctx
            ELSE [ctx EXCEPT ![sctx[a].parent].free = Append(@, a)]
  /\ UNCHANGED fault

\* Mutated form of TakePosted: the posted_event_ctx is taken from the free
\* queue instead of being returned to it.
TakesFromFree ==
  thctx' = [thctx EXCEPT !.posted_ev = FALSE, !.occupied = Tail(@),
                         !.free = @ - 1]

\* One round of the loop of ngx_grpc_cli_thread_post_event_handler: the next
\* posted result leaves the queue.
TakePosted ==
  thctx' = [thctx EXCEPT !.posted_ev = FALSE, !.occupied = Tail(@),
                         !.free = @ + 1]

FreeBuf(res) == bufs' = bufs \ {res.op}

\* Mutated form of post_event_cancelled: the buffer is forgotten.
CancelledLeaks ==
  /\ thctx.occupied # <<>>
  /\ ~lookup_task(Head(thctx.occupied).id)
  /\ TakePosted
  /\ UNCHANGED <<ctx, sctx, taskVars, pool, co, bufs, nops, ngx_exiting,
                 fault>>

\* Nobody waits for the result any more.
post_event_cancelled ==
  /\ thctx.occupied # <<>>
  /\ ~lookup_task(Head(thctx.occupied).id)
  /\ TakePosted
  /\ FreeBuf(Head(thctx.occupied))
  /\ UNCHANGED <<ctx, sctx, taskVars, pool, co, nops, ngx_exiting, fault>>

\* The result resumes the coroutine that waits on the context it names.
\* put_res takes a context whose state says so for a timeout.
post_event_resumes(k, a, ok) ==
  LET res == Head(thctx.occupied)
  IN  /\ thctx.occupied # <<>>
      /\ a = res.id /\ lookup_task(a)
      /\ k = sctx[a].wait_co_ctx
      /\ ok = (sctx[a].state # "TIMEOUT" /\ res.type # "err")
      /\ TakePosted
      /\ sctx' = [sctx EXCEPT ![a].node = FALSE, ![a].wait_co_ctx = NULL]
      /\ to_resume(k, a)
      /\ IF sctx[a].state = "TIMEOUT" THEN UNCHANGED bufs ELSE FreeBuf(res)
      /\ UNCHANGED <<pool, nops, ngx_exiting>>

\* The event was posted for results of which none could be kept.
post_event_empty ==
  /\ thctx.posted_ev /\ thctx.occupied = <<>>
  /\ thctx' = [thctx EXCEPT !.posted_ev = FALSE]
  /\ UNCHANGED <<ctx, sctx, taskVars, pool, co, bufs, nops, ngx_exiting,
                 fault>>

\* Mutated form of timeout_handler: the stream stays marked as busy.
TimeoutStaysBusy(k, a) ==
  /\ co[k].timer /\ a = co[k].data
  /\ sctx' = [sctx EXCEPT ![a].state = "TIMEOUT", ![a].node = FALSE]
  /\ to_resume(sctx[a].wait_co_ctx, a)
  /\ UNCHANGED <<thctx, pool, bufs, nops, ngx_exiting>>

\* ngx_grpc_cli_timeout_handler: the timer of coroutine k expires.
timeout_handler(k, a) ==
  /\ co[k].timer /\ a = co[k].data
  /\ sctx' = [sctx EXCEPT ![a].state = "TIMEOUT", ![a].node = FALSE,
                          ![a].wait_co_ctx = NULL]
  /\ to_resume(sctx[a].wait_co_ctx, a)
  /\ UNCHANGED <<thctx, pool, bufs, nops, ngx_exiting>>

\* Mutated form of cleanup: the task stays in the tree.
CleanupKeepsTask(k) ==
  /\ co[k].cleanup
  /\ co' = [co EXCEPT ![k] = [IdleCo EXCEPT !.status = "dead"]]
  /\ UNCHANGED <<ctx, sctx, taskVars, thctx, pool, bufs, nops, ngx_exiting,
                 fault>>

\* ngx_http_grpc_cli_cleanup and ngx_stream_grpc_cli_cleanup: the coroutine
\* is killed while it waits.
cleanup(k) ==
  LET a == co[k].data
  IN  /\ co[k].cleanup
      /\ unkeep_task(a)
      /\ sctx' = [sctx EXCEPT ![a].node = FALSE]
      /\ co' = [co EXCEPT ![k] = [IdleCo EXCEPT !.status = "dead"]]
      /\ UNCHANGED <<ctx, thctx, pool, bufs, nops, ngx_exiting, fault>>
=============================================================================
