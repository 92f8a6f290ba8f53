----------------------------- MODULE GrpcClient -----------------------------
(***************************************************************************)
(* A worker process: the nginx module (NgxGrpcClient) and the engine       *)
(* (Engine) under the Lua library lib/resty/grpc.lua, driven by the nginx  *)
(* event loop.                                                             *)
(*                                                                         *)
(* The main thread is in one place at a time: in the Lua code of a request *)
(* (running), which runs until it yields, or in the event loop.  A round   *)
(* of the loop handles the events (the pool thread's completion once among *)
(* them), then the expired timers, then the posted events until there are  *)
(* none.  Hence anything may come between the completion and the handling  *)
(* of the results it has posted, except another completion; and nothing    *)
(* but the Lua code it resumes comes between two rounds of the posted      *)
(* handler's own loop.  Goroutines and the pool thread run at any time.    *)
(* A request may have coroutines that do not use the library, so that its  *)
(* Lua code may go on after a coroutine of Co has begun to wait.           *)
(***************************************************************************)
EXTENDS NgxGrpcClient

CONSTANTS StreamTypes,  \* the stream types the Lua program uses
          MayExit       \* whether the worker may be told to quit

ASSUME LuaAssumption == StreamTypes \subseteq StreamType
                        /\ MayExit \in BOOLEAN

VARIABLES lconn,    \* Lua's connection objects: the handle to ctx
          lstream,  \* Lua's stream objects: the handle to sctx
          running   \* the request whose Lua code runs, or NULL

luaVars == <<lconn, lstream>>
vars == <<engineVars, clientVars, luaVars, running>>

\* "closed": close has set self.ctx to nil, the finalizer has yet to run.
TypeOK ==
  /\ EngineTypeOK
  /\ ClientTypeOK
  /\ lconn \in [Conn -> {"none", "open", "closed", "gone"}]
  /\ lstream \in [Sctx -> {"none", "open", "closed"}]
  /\ running \in Req \cup {NULL}

Init ==
  /\ EngineInit
  /\ ClientInit
  /\ lconn = [c \in Conn |-> "none"]
  /\ lstream = [a \in Sctx |-> "none"]
  /\ running = NULL

\* Nothing is known of a process that has faulted.
Up == fault = "none"

\* Coroutine k is executing Lua code.
Runs(k) == Up /\ running = ReqOf[k] /\ co[k].status = "idle"

----------------------------------------------------------------------------
\* The event loop.

\* The loop of the posted handler is between two results.
InPostedLoop == thctx.occupied # <<>> /\ ~thctx.posted_ev

InLoop == Up /\ running = NULL /\ ~InPostedLoop

\* Something else than this module resumes a request.
RunRequest(r) ==
  /\ InLoop
  /\ \E k \in Co : ReqOf[k] = r /\ co[k].status = "idle"
  /\ running' = r
  /\ UNCHANGED <<engineVars, clientVars, luaVars>>

Yield ==
  /\ Up /\ running # NULL
  /\ running' = NULL
  /\ UNCHANGED <<engineVars, clientVars, luaVars>>

\* nginx handles the quit signal.
Exit ==
  /\ MayExit /\ InLoop /\ ~ngx_exiting
  /\ ngx_exiting' = TRUE
  /\ UNCHANGED <<engineVars, ctx, sctx, taskVars, thctx, pool, co, bufs,
                 nops, fault, luaVars, running>>

----------------------------------------------------------------------------
\* The Lua library.

Connect(k, c) ==
  /\ Runs(k)
  /\ connect(c)
  /\ lconn' = [lconn EXCEPT ![c] = "open"]
  /\ UNCHANGED <<StreamRef, goroutines, tasks, sctx, taskVars, thctx, pool,
                 co, bufs, nops, ngx_exiting, fault, lstream, running>>

\* Conn:call and new_stream up to coroutine._yield().
StartCall(k, c, type) ==
  /\ Runs(k) /\ lconn[c] = "open" /\ nops < MaxOps
  /\ \E a \in Sctx : new_stream(k, c, a, type)
  /\ UNCHANGED <<EngineCtxRef, StreamRef, tasks, thctx, bufs, ngx_exiting,
                 luaVars, running>>

StartCallFails(k, c, type) ==
  /\ Runs(k) /\ lconn[c] = "open"
  /\ \E a \in Sctx : new_stream_fails(k, c, a, type)
  /\ UNCHANGED <<engineVars, thctx, bufs, ngx_exiting, fault, luaVars,
                 running>>

\* The methods of the three kinds of stream that yield.
Methods(type) == CASE type = "server" -> {"recv"}
                   [] type = "client" -> {"send", "recv_close"}
                   [] type = "bidi" -> {"send", "close_send", "recv"}
                   [] type = "unary" -> {}

StreamOp(k, a, kind) ==
  /\ Runs(k) /\ lstream[a] = "open" /\ nops < MaxOps
  /\ kind \in Methods(sctx[a].type)
  /\ stream_op(k, a, kind)
  /\ UNCHANGED <<EngineCtxRef, StreamRef, tasks, ctx, thctx, bufs,
                 ngx_exiting, luaVars, running>>

StreamOpFails(k, a) ==
  /\ Runs(k) /\ lstream[a] = "open"
  /\ check_stream_status(k, a)
  /\ kick_off_fails
  /\ UNCHANGED <<engineVars, ctx, sctx, thctx, bufs, ngx_exiting, fault,
                 luaVars, running>>

\* What the library does when _yield() returns ok: new_stream makes the
\* stream object, and recv_close closes it if the message could be decoded.
LuaContinues(k, a, ok) ==
  \/ /\ ok /\ co[k].kind = "new_stream"
     /\ lstream' = [lstream EXCEPT ![a] = "open"]
     /\ UNCHANGED StreamRef
  \/ /\ ok /\ co[k].kind = "recv_close" /\ lstream[a] = "open"
     /\ lstream' = [lstream EXCEPT ![a] = "closed"]
     /\ grpc_engine_close_stream(a)
  \/ /\ ~(ok /\ co[k].kind = "new_stream")
     /\ UNCHANGED <<lstream, StreamRef>>

ConnClose(k, c) ==
  /\ Runs(k) /\ lconn[c] = "open"
  /\ lconn' = [lconn EXCEPT ![c] = "closed"]
  /\ close(c, FALSE)
  /\ UNCHANGED <<StreamRef, goroutines, tasks, taskVars, thctx, pool, co,
                 bufs, nops, ngx_exiting, fault, lstream, running>>

\* Mutated form of StreamClose: self.ctx is not set to nil.
StreamCloseKeepsCtx(k, a) ==
  /\ Runs(k) /\ lstream[a] = "open"
  /\ UNCHANGED lstream
  /\ close_stream(a, FALSE)
  /\ UNCHANGED <<EngineCtxRef, goroutines, tasks, taskVars, thctx, pool, co,
                 bufs, nops, ngx_exiting, lconn, running>>

StreamClose(k, a) ==
  /\ Runs(k) /\ lstream[a] = "open"
  /\ lstream' = [lstream EXCEPT ![a] = "closed"]
  /\ close_stream(a, FALSE)
  /\ UNCHANGED <<EngineCtxRef, goroutines, tasks, taskVars, thctx, pool, co,
                 bufs, nops, ngx_exiting, lconn, running>>

\* A coroutine that waits holds the handles it was called with on its stack.
HoldsConn(k, c) == /\ co[k].status = "wait"
                   /\ co[k].kind \in {"call", "new_stream"}
                   /\ sctx[co[k].data].parent = c

HoldsStream(k, a) == /\ co[k].status = "wait"
                     /\ co[k].kind \notin {"call", "new_stream"}
                     /\ co[k].data = a

\* The garbage collector, which runs within Lua code of any request, finds a
\* handle that the program has dropped and runs its finalizer.
ctx_gc_handler(c) ==
  /\ Up /\ running # NULL
  /\ lconn[c] \in {"open", "closed"}
  /\ \A k \in Co : ~HoldsConn(k, c)
  /\ lconn' = [lconn EXCEPT ![c] = "gone"]
  /\ close(c, TRUE)
  /\ UNCHANGED <<StreamRef, goroutines, tasks, taskVars, thctx, pool, co,
                 bufs, nops, ngx_exiting, fault, lstream, running>>

stream_gc_handler(a) ==
  /\ Up /\ running # NULL
  /\ lstream[a] \in {"open", "closed"}
  /\ \A k \in Co : ~HoldsStream(k, a)
  /\ lstream' = [lstream EXCEPT ![a] = "none"]
  /\ close_stream(a, TRUE)
  /\ UNCHANGED <<EngineCtxRef, goroutines, tasks, taskVars, thctx, pool, co,
                 bufs, nops, ngx_exiting, lconn, running>>

\* ngx.thread.kill, ngx.exit or the end of the request: nginx-lua calls the
\* cleanup handler of a coroutine that waits.
Kill(k) ==
  /\ Up /\ (running = ReqOf[k] \/ InLoop)
  /\ cleanup(k)
  /\ UNCHANGED <<engineVars, luaVars, running>>

----------------------------------------------------------------------------
\* The handlers.

Finish(g) ==
  /\ Up
  /\ \E type \in Outcome(g.kind) : ReportFinishedTask(g, type)
  /\ UNCHANGED <<clientVars, luaVars, running>>

ThreadHandler ==
  /\ Up
  /\ thread_handler
  /\ UNCHANGED <<luaVars, running>>

ThreadEvent ==
  /\ InLoop /\ ~thctx.posted_ev
  /\ thread_event_handler
  /\ UNCHANGED <<engineVars, luaVars, running>>

PostedCancelled ==
  /\ Up /\ running = NULL
  /\ post_event_cancelled
  /\ UNCHANGED <<engineVars, luaVars, running>>

PostedEmpty ==
  /\ Up /\ running = NULL
  /\ post_event_empty
  /\ UNCHANGED <<engineVars, luaVars, running>>

Resumes(a) == running' = sctx[a].r

PostedResumes(k, a, ok) ==
  /\ Up /\ running = NULL
  /\ post_event_resumes(k, a, ok)
  /\ LuaContinues(k, a, ok)
  /\ Resumes(a)
  /\ UNCHANGED <<EngineCtxRef, goroutines, tasks, lconn>>

Timeout(k, a) ==
  /\ InLoop
  /\ timeout_handler(k, a)
  /\ LuaContinues(k, a, FALSE)
  /\ Resumes(a)
  /\ UNCHANGED <<EngineCtxRef, goroutines, tasks, lconn>>

EventLoop == (\E r \in Req : RunRequest(r)) \/ Yield \/ Exit

Lua ==
  \/ \E k \in Co, c \in Conn :
       \/ Connect(k, c) \/ ConnClose(k, c)
       \/ \E type \in StreamTypes :
            StartCall(k, c, type) \/ StartCallFails(k, c, type)
  \/ \E k \in Co, a \in Sctx :
       \/ \E kind \in Kind : StreamOp(k, a, kind)
       \/ StreamOpFails(k, a) \/ StreamClose(k, a)
  \/ \E c \in Conn : ctx_gc_handler(c)
  \/ \E a \in Sctx : stream_gc_handler(a)
  \/ \E k \in Co : Kill(k)

Posted == PostedCancelled \/ PostedEmpty
          \/ \E k \in Co, a \in Sctx, ok \in BOOLEAN : PostedResumes(k, a, ok)

Handlers ==
  \/ \E g \in goroutines : Finish(g)
  \/ ThreadHandler \/ ThreadEvent \/ Posted
  \/ \E k \in Co, a \in Sctx : Timeout(k, a)

Next == EventLoop \/ Lua \/ Handlers

Spec == Init /\ [][Next]_vars

\* Lua code yields in the end, the pool thread's wait ends with its 100 ms
\* timeout, and the event loop gets to every completion and posted event,
\* even if requests keep it busy in between.
LoopFairness ==
  /\ WF_vars(Yield)
  /\ WF_vars(ThreadHandler)
  /\ SF_vars(ThreadEvent)
  /\ SF_vars(Posted)

\* A timer expires: every operation has a finite timeout.
TimerFairness ==
  \A k \in Co : SF_vars(\E a \in Sctx : Timeout(k, a))

LoopSpec == Spec /\ LoopFairness
FairSpec == LoopSpec /\ TimerFairness

----------------------------------------------------------------------------
\* Results on their way from the engine to the posted handler.
Pipeline == tasks \o thctx.finished_tasks \o thctx.occupied

InPipeline(n) == \E x \in Elems(Pipeline) : x.op = n
InEngine(n) == \E g \in goroutines : g.op = n

Waits(k) == co[k].status = "wait"

\* No two results of a sequence are those of one operation.
Distinct(q) == \A i, j \in 1 .. Len(q) : q[i].op = q[j].op => i = j

NoDup(q) == \A i, j \in 1 .. Len(q) : q[i] = q[j] => i = j

\* The tree of ongoing tasks and the coroutines agree: what a lookup of a
\* result's task id finds is a context on which exactly one coroutine of the
\* right request waits, with its timer and its cleanup handler set, and no
\* other coroutine has either (kick_off_task against to_resume and cleanup).
KeptIsWaiting ==
  /\ \A a \in Sctx : sctx[a].node <=> a \in ongoing_tasks
  /\ \A a \in ongoing_tasks :
       LET k == sctx[a].wait_co_ctx
       IN  k \in Co /\ Waits(k) /\ co[k].data = a /\ sctx[a].r = ReqOf[k]
  /\ \A k \in Co :
       /\ Waits(k) => /\ co[k].data \in ongoing_tasks
                      /\ sctx[co[k].data].wait_co_ctx = k
       /\ co[k].timer <=> Waits(k)
       /\ co[k].cleanup <=> Waits(k)

\* A stream that is refused as "busy waiting" has an operation in progress,
\* or its coroutine was killed in one: neither a result nor a timeout leaves
\* the mark behind (kick_off_task against post_event_handler and
\* timeout_handler; cleanup does leave it).
BusyIsWaited ==
  \A a \in Sctx : sctx[a].wait_co_ctx # NULL =>
    a \in ongoing_tasks \/ co[sctx[a].wait_co_ctx].status = "dead"

\* ongoing_tasks_num, from which the event handler decides whether to go on
\* waiting, is the size of the tree (keep_task and unkeep_task).
OngoingCount == ongoing_tasks_num = Cardinality(ongoing_tasks)

\* What holds of the two queues of connection c.
Owned(c) ==
  /\ NoDup(ctx[c].free)
  /\ \A a \in Elems(ctx[c].free) :
       /\ sctx[a].heap /\ sctx[a].parent = c
       /\ a \notin ongoing_tasks /\ a \notin ctx[c].opening
       /\ lstream[a] = "none"
  /\ \A a \in ctx[c].opening : sctx[a].heap /\ sctx[a].parent = c

\* A stream context is in one queue of its connection at most, and once; one
\* in the free queue has no handle and nobody waits on it, so that
\* new_stream may clear it and free_conn may free it.
SctxOwnership == \A c \in Conn : Owned(c)

\* The stream contexts to which the process has a pointer that it may follow:
\* from the tree (post_event_handler), from a timer (timeout_handler) or a
\* cleanup handler (cleanup), from Lua (stream operations, close_stream), and
\* from the queues of a connection (new_stream, free_conn; the removal of a
\* stream from a queue writes into its neighbours).
SctxPointers ==
  ongoing_tasks
  \cup {co[k].data : k \in {j \in Co : co[j].timer \/ co[j].cleanup}}
  \cup {a \in Sctx : lstream[a] # "none"}
  \cup UNION {ctx[c].opening \cup Elems(ctx[c].free) : c \in Conn}

\* The connections likewise: from Lua (new_stream, close), and by the parent
\* pointer of a stream context (to_resume, close_stream).
ConnPointers ==
  {c \in Conn : lconn[c] \in {"open", "closed"}}
  \cup {sctx[a].parent : a \in SctxPointers}

\* No pointer to a context dangles: whatever an operation, a handler or a
\* finalizer follows leads into allocated memory, although results, timeouts
\* and aborts come and connections and streams are collected in any order
\* (free_delayed).
ContextsAlive ==
  /\ \A a \in SctxPointers : a \in Sctx /\ sctx[a].heap
  /\ \A c \in ConnPointers : c \in Conn /\ ctx[c].heap = "live"

\* A collected connection is freed at once or by the last of its opening
\* streams: one that is kept has a stream left to free it, and no engine
\* handle (close and close_stream).
DelayedFree ==
  \A c \in Conn :
    /\ lconn[c] = "gone" => ctx[c].heap = "freed" \/ ctx[c].free_delayed
    /\ ctx[c].free_delayed => ctx[c].opening # {} /\ ~ctx[c].engine_ctx

\* An engine handle that the module holds is known to the engine, so that
\* mustFind never panics on a connection.
EngineCtxKnown ==
  \A c \in Conn : /\ ctx[c].engine_ctx <=> c \in EngineCtxRef
                  /\ lconn[c] = "open" => ctx[c].engine_ctx

\* What holds of a context on which a coroutine waits.
Flies(a) ==
  LET c == sctx[a].parent
      kind == co[sctx[a].wait_co_ctx].kind
  IN  /\ sctx[a].heap /\ c \in Conn /\ ctx[c].heap = "live"
      /\ kind = "call" <=> sctx[a].type = "unary"
      /\ kind = "call" => lconn[c] # "gone"
      /\ kind # "call" => a \in ctx[c].opening
      /\ kind \in {"call", "new_stream"} <=> lstream[a] = "none"

\* What the library, the module and the thread agree on while a call is in
\* flight: its context and connection are allocated; a unary call's context
\* is in no queue and its connection has not been collected; a stream's is
\* in the opening queue, and has a Lua handle once it has been created.
InFlight == \A a \in ongoing_tasks : Flies(a)

\* What holds of the Lua handle and the queue entry of a context.
Opens(a) ==
  /\ lstream[a] # "none" => /\ sctx[a].parent \in Conn
                            /\ a \in ctx[sctx[a].parent].opening
  /\ \A c \in Conn : a \in ctx[c].opening => sctx[a].type # "unary"

\* A Lua stream handle leads to an opening stream, and only streams open.
HandleIsOpening == \A a \in Sctx : Opens(a)

\* A connection without memory has nothing, one with a Lua handle has memory,
\* and only a collected one waits to be freed.
ConnPhases ==
  \A c \in Conn :
    /\ ctx[c].heap # "live" => /\ ctx[c].opening = {} /\ ctx[c].free = <<>>
                               /\ ~ctx[c].free_delayed
    /\ lconn[c] \in {"open", "closed"} => ctx[c].heap = "live"
    /\ ctx[c].free_delayed => lconn[c] = "gone"

\* The memory of contexts is managed correctly, in a form that every step of
\* the worker preserves: free queues, the tree of ongoing tasks, Lua handles
\* and delayed frees never disagree about who may still use a context.
ContextInv ==
  /\ KeptIsWaiting /\ InFlight /\ SctxOwnership /\ HandleIsOpening
  /\ ConnPhases

\* The only freed memory ever used is the array of results that a thread of
\* an exiting worker has freed (thread_handler, thread_event_handler): no
\* pointer to a context dangles, in an exiting worker and when allocations
\* fail either.
UafOnlyAtExit ==
  /\ ContextsAlive
  /\ thctx.freed \/ fault = "uaf" => ngx_exiting

\* A result buffer is freed once, when its result is used or dropped: the
\* allocated ones are those of the results on their way in C, none leaks and
\* none is freed twice.
BufsOwned ==
  LET held == BufsOf(thctx.occupied)
              \cup IF thctx.freed THEN {} ELSE BufsOf(thctx.finished_tasks)
  IN  /\ held \subseteq bufs
      /\ ~MayFail => bufs \subseteq held

\* A call that waits has its result to come: no result is dropped as that of
\* a cancelled task while its call still waits, whatever else has been
\* cancelled, timed out or reused.
ResultStillComing ==
  \A k \in Co :
    Waits(k) /\ ~MayFail /\ ~ngx_exiting /\ Up =>
    InEngine(co[k].op) \/ InPipeline(co[k].op)

\* The engine answers an operation once, and no step copies the answer.
OneResultPerOp ==
  /\ Distinct(Pipeline)
  /\ \A n \in Op : ~(InEngine(n) /\ InPipeline(n))

\* Every call returns to Lua or its coroutine is killed: at the latest the
\* timer resumes it, exiting worker, lost results and all.
EveryCallReturns ==
  \A k \in Co : Waits(k) ~> (~Waits(k) \/ ~Up)

\* The pool thread does not go on polling once nobody waits.
ThreadRests ==
  ongoing_tasks = {} ~> (pool = "idle" \/ ongoing_tasks # {}
                         \/ ~Up)

\* "still have tasks to wait" (thread_event_handler): as long as a call waits
\* for a result that the posted handler does not have, the pool thread is
\* active to fetch it.
WaitThreadArmed ==
  \A k \in Co :
    Waits(k) /\ ~ngx_exiting /\ Up
    /\ (\A i \in 1 .. Len(thctx.occupied) : thctx.occupied[i].op # co[k].op)
    => pool # "idle"

\* An operation whose caller has given up and whose result is to come.
Straggler ==
  \E n \in Op : /\ InEngine(n) \/ InPipeline(n)
                /\ \A k \in Co : Waits(k) => co[k].op # n

\* Without stragglers a call is resumed by its result and needs no timer,
\* however calls, completions and posted events interleave: the count the
\* event handler compares is then the number of results still to come.
PromptDelivery ==
  [](~Straggler) =>
    \A k \in Co : (Waits(k) /\ InPipeline(co[k].op)) ~> ~Waits(k)

\* A coroutine is resumed with the result of the operation it waits for
\* (post_event_handler: the context is "resumed", anything else "is
\* cancelled").
ResultIsOwn ==
  [][\A k \in Co :
       Waits(k) /\ co'[k].status = "idle" /\ thctx'.occupied # thctx.occupied
       => Head(thctx.occupied).op = co[k].op]_vars

\* The thread has fetched the result of an operation nobody waits for.
StragglerFetched ==
  \E i \in 1 .. Len(thctx.finished_tasks) :
    \A k \in Co : Waits(k) => co[k].op # thctx.finished_tasks[i].op

\* The pool thread is left idle under a waiting call only by an event handler
\* that counts a straggler's result among the finished tasks: without one,
\* and with memory, no step of the worker disarms it.  The comparison of
\* ongoing_tasks_num with the number of results is right up to then.
ArmedUnlessStraggler ==
  [][WaitThreadArmed /\ ~StragglerFetched /\ ~MayFail => WaitThreadArmed']_vars

\* A stream that Lua can use is known to the engine.
StreamKnown == \A a \in Sctx : lstream[a] = "open" => a \in StreamRef

\* A coroutine is resumed with the result of another operation.
Mistaken(k) == /\ Waits(k) /\ ~Waits(k)' /\ thctx'.occupied # thctx.occupied
               /\ Head(thctx.occupied).op # co[k].op

SomeMistaken == \E k \in Co : Mistaken(k)

\* mustFind panics on a stream only after a coroutine has been resumed with
\* another operation's result: any other step leaves the streams of Lua known
\* to the engine, in whatever order streams are created, closed and reused,
\* and while they are no operation panics (grpc_engine_new_stream stores the
\* stream before it reports; close_stream against Lua's self.ctx).
PanicOnlyIfMistaken ==
  [][StreamKnown /\ ~SomeMistaken => StreamKnown' /\ fault' # "panic"]_vars

\* A stream context that nothing will ever remove from the opening queue:
\* there is no handle to finalize and nobody waits.
Lost(a) == /\ \E c \in Conn : a \in ctx[c].opening
           /\ lstream[a] = "none" /\ a \notin ongoing_tasks

\* Every context the step loses is that of a coroutine which stops to wait
\* for the creation of its stream.
LosesInCreation ==
  \A a \in Sctx :
    Lost(a)' /\ ~Lost(a) =>
    \E k \in Co : /\ Waits(k) /\ co[k].kind = "new_stream"
                   /\ co[k].data = a /\ ~Waits(k)'

\* A stream context is lost only when the coroutine that creates its stream
\* stops to wait for that: from then on the finalizer always comes
\* (new_stream of grpc.lua; close_stream).
LostOnlyInCreation == [][LosesInCreation]_vars

\* A stream context that is allocated and to which nothing leads any more: it
\* is neither used again nor freed.
Orphan(a) == sctx[a].heap /\ a \notin SctxPointers

\* Every context the step orphans is that of a unary call whose coroutine is
\* killed.
OrphansAborted ==
  \A a \in Sctx :
    Orphan(a)' /\ ~Orphan(a) =>
    \E k \in Co : /\ Waits(k) /\ co[k].kind = "call" /\ co[k].data = a
                   /\ co'[k].status = "dead"

\* A stream context leaks only when a unary call is aborted: each result,
\* timeout, failed start, finalizer and free of a connection leaves a context
\* where a later call or free_conn finds it, or frees it (put_res and
\* new_stream against cleanup, close_stream and free_conn).
OrphanedOnlyByAbort == [][OrphansAborted]_vars

\* The module does not use the array of results after it has been freed.
NoUseAfterFree == fault # "uaf"

\* Lua has dropped connection c and all of its streams, no coroutine waits on
\* either, and the connection is allocated.
Leaks(c) ==
  /\ lconn[c] = "gone" /\ ctx[c].heap # "freed"
  /\ \A a \in Sctx : sctx[a].parent = c => /\ lstream[a] = "none"
                                           /\ a \notin ongoing_tasks

\* A connection is freed once Lua has dropped it and all of its streams and
\* no coroutine waits on either.
NoConnLeak == \A c \in Conn : ~Leaks(c)

\* A connection that leaks is held by an opening stream of its own that is
\* lost: the delayed free is continued for all others (close, close_stream).
LeakIsLost ==
  \A c \in Conn : Leaks(c) => \E a \in ctx[c].opening : Lost(a)

\* The operation a coroutine is in, and the operations with a result to come.
Calling == [k \in Co |-> IF Waits(k) THEN co[k].op ELSE 0]
Coming == {n \in Op : InEngine(n) \/ InPipeline(n)}

Promise == INSTANCE Calls WITH Lossy <- MayFail, waits <- Calling,
                               coming <- Coming, started <- nops, up <- Up

\* Whatever threads, timers, finalizers and late results interleave, a call
\* that returns has used up its own answer or one whose caller has given up,
\* and no answer is dropped or given away while its caller waits
\* (new_stream and stream_op to post_event_handler, timeout_handler and
\* cleanup).
ImplementsCalls == Promise!Spec
=============================================================================
