# A TLA+ verification of grpc-client-nginx-module

This directory holds TLA+ modules that model the gRPC client of
`api7/grpc-client-nginx-module`, the TLC configurations that check them on
small instances, and TLAPS proofs of the properties that matter most. Paths
such as `C:360` mean line 360 of one of these files:

| short | file |
|---|---|
| `C` | `src/src/ngx_grpc_client.c`, the nginx module |
| `G` | `src/grpc-engine/main.go`, the functions the engine exports |
| `T` | `src/grpc-engine/task/task.go`, the queue of finished tasks |
| `K` | `src/grpc-engine/conn/grpc.go`, connections and streams in Go |
| `L` | `src/lib/resty/grpc.lua`, the Lua library |

## The system

A Lua program in an nginx worker calls gRPC services through `resty.grpc`. The
library calls the C module over FFI; the module calls a Go shared library, the
engine. Four kinds of actors take part in one call:

1. **The worker's main thread** runs Lua code, and the event loop between two
   pieces of Lua code. `ngx_grpc_cli_kick_off_task` (`C:957`) enters a call in
   the tree of ongoing tasks, adds a timer, sets a cleanup handler on the
   coroutine, and the coroutine yields.
2. **A goroutine** per operation (`G:205` and following) does the I/O and
   reports one result under the task id, which is the *address* of the call's
   stream context.
3. **The thread of a one-thread nginx thread pool** sits in `grpc_engine_wait`
   for at most 100 ms (`C:204`), takes all results there are, and returns. Its
   completion runs in the event loop (`ngx_grpc_cli_thread_event_handler`,
   `C:331`), which puts the results in a queue, posts an event for them, and
   posts the thread again if it believes that there are tasks to wait for. The
   posted event's handler (`C:584`) looks each task id up in the tree and
   resumes the coroutine, or drops the result.
4. **Timers, aborts and the garbage collector** interfere: a timer may resume
   the coroutine first (`C:643`), `ngx.thread.kill` or the end of the request
   may kill it (`C:671`), and finalizers close connections and streams in any
   order at any allocation (`L:187`, `L:403`).

Stream contexts are reused through a free queue per connection; a connection
whose Lua object is collected while it has open streams is freed by the last
of them (`C:881`-`C:938`, `C:1191`).

A worker's life begins before that. `ngx_grpc_cli_init_worker` (`C:707`) loads
the engine, and Lua code in `init_worker_by_lua` may call services at once. No
coroutine can yield there, so such a call blocks: the main thread itself sits
in `grpc_engine_wait`, for up to 600 s (`C:1151`).

### Inventory

| part | source | modelled by | state |
|---|---|---|---|
| task queue of the engine | `T` | `TaskQueue`, `Mailbox`, `ResTag` | modelled |
| engine exports | `G` | `Engine`, `EngineStream` | partly: error buffer, metadata array and log file left out |
| engine connections and streams | `K` | `EngineStream`, `Engine` | partly: TLS options, metadata and codec left out |
| connection and stream contexts | `C` | `NgxGrpcClient` | modelled |
| task scheduling, result delivery | `C` | `NgxGrpcClient`, `GrpcClient`, `Calls` | modelled |
| blocking call in init_worker | `C:1125`, `L` | `InitWorker`, `ResTag` | modelled |
| worker initialisation and exit | `C:707` | `InitWorker`, `Exit` of `GrpcClient` | partly: no exit handler |
| Lua connections, calls, streams | `L` | `GrpcClient`, `EngineStream`, `InitWorker` | modelled |
| Lua protobuf state | `L:128` | `PbState` | modelled |
| configuration | `C` | `settings` of `InitWorker` | partly: there are no directives |

`PROJECT.json` has the same list with the source lines of every definition
("map") and the hazards the code is exposed to, each with the properties that
would catch it going wrong.

## The modules

**`Mailbox`** is what the queue of finished tasks promises to its reader: each
reported result is handed over once, in order, and a read takes all there is.

**`TaskQueue`** is `T` itself: the flag `done`, the list `tasks`, the one
caller of `Wait` (`entering`, `asleep` in `cond.Wait`, `woken`), the timer of the
current `Wait`, and the number of timer functions that have started and not
yet got the mutex. The mutex makes each critical section a step, and
`cond.Wait` is the only place that gives it up in between. `timer.Stop()` does
not stop a function that has started: such a function may signal a later
`Wait`, and the model lets it. Results are encoded by what C can tell apart,
task id and type.

**`Engine`** is the engine as C sees it: the maps `EngineCtxRef` and
`StreamRef`, the running goroutines, and the reported results (the pending
part of a `Mailbox`). `mustFind` on a missing entry panics on the calling
thread, outside of any `recover`. Each operation carries a number, `op`, which
the program does not have: no guard reads it, and it tells the results of two operations on one address
apart. It also serves as the address of the result's buffer.

**`NgxGrpcClient`** is the C file: `ctx` and `sctx` are the two structs by
address (`heap` says whether the memory is allocated), `ongoing_tasks` the keys
of the red-black tree, `thctx` the thread context with its two queues of
posted events, `pool` the state of the pool's task (`idle`, `queued`: posted or
in `grpc_engine_wait`, `done`: completion not yet handled), `co` what the
module uses of a coroutine context, and `bufs` the result buffers that are
allocated. Each C function is an operator of the same name without the
`ngx_grpc_cli_` prefix; the copies for the http and the stream subsystem
differ in types only and are one operator. The use of the array of results
after the pool thread has freed it sets `fault` to `"uaf"`, and an unrecovered
Go panic sets it to `"panic"`; the process takes no step after either. Uses of
contexts set nothing: that every pointer an action may follow leads to an
allocated context is the invariant `ContextsAlive`, over all of the pointers
(`SctxPointers`, `ConnPointers`). `MayFail` allows the failure of
allocations and thread posts that the code handles: `kick_off_fails`,
`new_stream_fails`, results dropped by `insert_posted_event_ctx` (`Keeps`).

**`GrpcClient`** composes the engine and the C module with the Lua library and
the event loop: the Lua handles of connections and streams (`lconn`,
`lstream`), and the request whose Lua code runs. An action is a whole handler.
`PostedResumes` and `Timeout` include what the library does at once when its
`_yield()` returns: `new_stream` makes the stream object and sets its
finalizer, `recv_close` closes the stream. Garbage collection runs inside Lua
code and finalizes a handle that is not on the stack of a waiting coroutine
(`HoldsConn`, `HoldsStream`); whether the program has dropped its other
references is left open.

A round of nginx's event loop handles I/O events (the thread pool's completion
among them), then expired timers, then posted events. So anything may come
between a completion and the handling of the results it has posted, except
another completion (`ThreadEvent` requires `~posted_ev`); and while the posted
handler is in its own loop (`InPostedLoop`) only Lua code it resumes may run.
nginx, nginx-lua and grpc-go are not part of the repository: `RunRequest`,
`Yield`, `Exit`, `InLoop` and the coroutine context model them from how the
code uses them.

**`Calls`** is what a worker promises the coroutines that make calls. Every call
has one answer to come. A call returns with its own answer or, since tasks have
no identity of their own, with that of a call whose caller has given up; the
answer is then used up. Only an answer whose caller has given up is dropped,
unless memory runs out (`Lossy`). In `GrpcClient` the call a coroutine waits for
is the number of the operation (`Calling`), and the answers to come are those
in any of the four places between goroutine and posted queue (`Coming`).

**`ResTag`** is the word in which a result travels from Go to C: the address of
its buffer with the type in the low three bits, packed in `T`, taken apart in
`C` through `int64_t`, so that an address in the upper half is negative. The
width of the word is a constant.

**`InitWorker`** extends `TaskQueue` and `ResTag` by the worker until it serves
requests: `init_worker` with each of its failures (the engine's handle is set
first, then ten symbols, then the thread's task; the library's check looks at
the handle only), `require("resty.grpc")`, and blocking calls. Their waits are
the queue's own `WaitCall`, `WaitSleep` and `WaitReturn`, their goroutines call
its `Done`, and the call takes the first result without comparing ids. The
module numbers the calls, which the program does not, to say whose answer was
returned. Times are kept as the order of two limits: a wait of 600 s does not
end before a deadline that is earlier (`EndsInTime`). `Msec` is the conversion
of `opt.timeout`, which cuts 0.5 ms down to 0, and 0 is no deadline.

**`EngineStream`** is one stream in time, in both halves: `K` and the goroutines
of `G` below, and above them what `C` and `L` do that decides when an operation
may start (the busy mark, timers, aborts). There are two clocks: the real one,
from which the engine takes the stream's deadline, and nginx's cached one, from
which it takes each operation's timer. grpc-go forbids two `SendMsg` or two
`RecvMsg` at a time and the engine has no lock, so that the ordering of these
limits is what keeps operations apart. Here contexts are not reused, and the
way of a result through the pool thread is one step, `Deliver`, after any
delay; both are `GrpcClient`'s part, where time in turn has no value. The peer may be silent, answer, or end the stream
at any moment.

**`PbState`** is the library's use of lua-protobuf, whose state is global to a Lua
VM: `load` with its three ways out (success, an error it catches, one that it
does not: a file without a `package`), and `load_state` around encode and
decode, with a yield between the two. lua-protobuf and protoc are external: a
state is the set of types it knows and its int64 option. What `protoc.reload()`
puts in a state (`"descriptor"`) is needed to compile, and `load` calls it once
only. A first load that fails therefore leaves no state that later ones can
use; this is why `CanLoadAgain` speaks of a load that has succeeded.

**`MCTaskQueue`**, **`MCGrpcClient`**, **`MCInitWorker`**, **`MCEngineStream`** and
**`MCPbState`** instantiate them for TLC. Names that start with "Mutated form of"
in a comment are deliberately wrong variants of the definition after them; no
specification uses them. They show that a property can fail.

**`TaskQueueProofs`** (the queue and `InitWorker`), **`EngineStreamProofs`**,
**`PbStateProofs`**, **`GrpcClientProofs`** and **`GrpcClientLimits`** hold the
theorems. The last two rest on the lemmas on single actions, and the inductive
invariants, in **`GrpcClientCalls`** (types, and operations that start),
**`GrpcClientContexts`** (waits that end, and what is freed) and
**`GrpcClientPipeline`** (results on their way).

## What the runs check

| run | configuration | shows |
|---|---|---|
| `task_queue` | `MCTaskQueue.cfg` | goroutines, the waiter, its timer and late timer functions in any order: no wake-up is lost (`SleeperIsWoken`), no result is left behind a cleared flag (`PendingIsSignalled`), every `Wait` returns, every report is delivered, and the queue implements `Mailbox` |
| `client_calls` | `ClientCalls.cfg` | two light threads share a connection and make three operations of unary calls and bidirectional streams, with timeouts, aborts, reuse and collection: tree and coroutines agree (`KeptIsWaiting`), the count is right (`OngoingCount`), each buffer is freed once (`BufsOwned`), no waiting call loses its result (`ResultStillComing`), an operation is answered once (`OneResultPerOp`), every context has one owner (`SctxOwnership`), no pointer from the tree, a timer, a cleanup handler, Lua, a queue or a stream's `parent` leads to a freed context (`ContextsAlive`), delayed frees happen (`DelayedFree`), engine handles are known (`EngineCtxKnown`), no busy mark is left behind (`BusyIsWaited`), and the engine can panic only after a coroutine got another operation's result (`PanicOnlyIfMistaken`) |
| `client_failures` | `ClientFailures.cfg` | unary calls, client and server streams with failing allocations and posts, dropped results and a worker that may exit: the inductive invariant (`ContextInv`), no pointer to a context dangles and the freed array is used only in an exiting worker (`UafOnlyAtExit`), a connection leaks only through a lost context in its own opening queue (`LeakIsLost`), which only an interrupted creation leaves (`LostOnlyInCreation`), a stream context leaks only when a unary call is aborted (`OrphanedOnlyByAbort`), and every call returns or is aborted (`EveryCallReturns`) |
| `client_prompt` | `ClientPrompt.cfg` | two requests: the worker implements `Calls` (`ImplementsCalls`), and the pool thread leaves a waiting call only for a result nobody waits for (`ArmedUnlessStraggler`); without timers a reported result resumes its call, as long as no operation outlives its caller (`PromptDelivery`), and the pool thread stops polling when nobody waits (`ThreadRests`) |
| `init_worker` | `InitWorker.cfg` | a worker whose initialisation may fail at any step, and three blocking calls with an earlier, a later or no deadline: the library is only usable with a complete engine (`LibraryReady`), a call returns its own answer (`AnswerIsOwn`) and leaves no buffer (`BuffersFreed`) as long as no call had to give up, and every call returns (`BlockingCallReturns`) |
| `engine_stream` | `EngineStream.cfg` | a stream of each type with three timeouts, one of which is cut down to 0: until the deadline operations do not overlap inside grpc-go (`OneOpAtATime`) and messages keep their order without a gap both ways (`WireInOrder`, `RecvInOrder`); operations of a closed or expired stream end (`OpsEnd`) |
| `pb_state` | `PbState.cfg` | loads that succeed, fail or raise between encodes and decodes of calls: other users of lua-protobuf keep their state (`StateRestored`), calls find their types (`CallsFindTypes`), and a load that has succeeded can be followed by another (`CanLoadAgain`) |
| `lost_wait` | `ClientLostWait.cfg` | violated: `WaitThreadArmed` |
| `stale_result` | `ClientStaleResult.cfg` | violated: `ResultIsOwn` |
| `exit_race` | `ClientExitRace.cfg` | violated: `NoUseAfterFree` |
| `stream_leak` | `ClientStreamLeak.cfg` | violated: `NoConnLeak` |
| `blocking_empty` | `BlockingEmpty.cfg` | violated: `AssertionHolds` |

The last five state what a comment, a test or the documentation says of the
program, and TLC finds that the code does otherwise. The first four need
several actors in one particular order:

- **lost_wait** (`C:360`). The completion handler posts the thread again only
  if there are more ongoing tasks than finished ones. A result of a call that
  has timed out counts as finished but is no longer ongoing, so with one such
  result and one call in progress the thread is not posted and the call
  waits for its timer, or for another call to post the thread.
- **stale_result** (`C:602`). A timed-out unary call returns its context to the
  free queue, the next call takes it, and the late result of the first, which
  names the address only, resumes the second. (A `new_server_stream` that is
  resumed so returns before the engine has the stream, and its first `recv`
  panics in `mustFind`, `G:113`.)
- **exit_race** (`C:221`). The pool thread of an exiting worker frees the array
  of results; the completion handler then copies from it and frees it again.
- **stream_leak** (`L:478`). The finalizer of a stream is set once `new_stream`
  has resumed with success. A coroutine that is aborted, times out or gets an
  error before leaves the context in the opening queue, so the connection is
  never freed.
- **blocking_empty** (`C:1168`). A response that encodes to no bytes reaches C
  as `OK_NOT_RES`; a blocking call asserts that what is not `OK` is an error.

Properties of the passing runs say how far three of these reach.
`ArmedUnlessStraggler`: `lost_wait` needs a result whose caller has given up.
`LeakIsLost` and `LostOnlyInCreation`: `stream_leak` happens in the creation of a
stream and nowhere else. `PanicOnlyIfMistaken` and `ImplementsCalls`: the panic
needs a `stale_result`, and the stale result is always that of a call whose
caller has given up, never one that another coroutine waits for.

`OrphanedOnlyByAbort` bounds a leak that no comment or test speaks of. `cleanup`
(`C:671`) takes the task of an aborted unary call out of the tree and leaves its
context in no queue, so that nothing frees it before the process ends. The
property says that every other step (results, timeouts, failed starts,
finalizers, the free of a connection) puts a context where `new_stream` or
`free_conn` finds it, or frees it.

Two hypotheses of the properties are about the code too. `StateRestored` holds
unless `load` has raised an error, because the error of a file without a
package leaves the library's state installed. And `AnswerIsOwn` needs
deadlines that end before the wait: after a call that gave up, answers shift.

### Bounds

`MaxOps` bounds the operations that are started, `MaxReports` and `MaxFired` the
reports and the late timer functions of the task queue, `MaxCalls` the calls of
`InitWorker` and `PbState`, `MaxTime` the clock of `EngineStream` and `MaxStates`
the states of lua-protobuf; they are guards of the model only.

- Client: two stream contexts are enough for one to be reused while the other
  is in use, and three operations for a late result of a first to meet a third
  on the same address. Two coroutines suffice for the races: one that has
  given up, one that waits. They are requests of their own or light threads of
  one request, which differ in who may use a stream (`check_stream_status`)
  and run or kill whom. Failures (`MayFail`) and exit (`MayExit`) multiply the
  states, so they are on where a property is about them, with one coroutine.
  All four types of stream occur in some run. The runs have one connection;
  that contexts of several are not mixed up is part of what is proved.
- `InitWorker`: with three calls one can give up, its answer go to the second
  and the third be affected; the words have six bits and the addresses lie in
  both halves.
- `EngineStream`: four operations are `new_stream` and three more, so that an
  operation may follow one that timed out or was killed; the clock runs past
  the longer deadline (2 ms), and the timeout of 0.5 ms becomes 0.
- `PbState`: a file that loads, a second one, one that does not compile and one
  without a package; five states allow three failed first loads.

Symmetry is used in invariant runs only. Contexts, connections and the light
threads of a request are interchangeable; requests are swapped together with
their coroutines.

Deadlock is checked in `task_queue`. In the others the bounds end the
behaviours (and a process that has faulted takes no step), so it is not.

### Fairness

- `TaskQueue`: a goroutine that wants the mutex gets it, a timer that is armed
  fires, its function runs (weak fairness; the Go runtime guarantees it).
  `ReportIsDelivered` also assumes that `Wait` is called again, which is what the
  pool thread does while there are tasks.
- `LoopFairness`: Lua code yields in the end; the pool thread's wait ends, at
  the latest by its 100 ms timeout; completions and posted events are handled
  even if requests keep interrupting (strong fairness: nginx handles them in
  every round of the loop). Nothing is assumed of the engine: an operation may
  never finish.
- `TimerFairness`, in `client_failures`: a timer that is set expires. Every call
  has one, with 60 s as the default (`L:321`). `PromptDelivery` does without
  it, which is its point.
- `WorkerFairness`: as for `TaskQueue`, and the goroutine of a call that has a
  deadline before the end of the wait reports (`K` gives grpc-go a context with
  that deadline). One without may never do, and the call still returns.
- `StreamFairness`: a goroutine starts, does what does not block, and returns
  from grpc-go once the context is done; a context whose deadline has passed
  becomes done. The clock may stop and the peer be silent.

## What is proved

All proofs are checked by TLAPS (SMT, Zenon and LS4) for arbitrary sets of
connections, stream contexts, requests, coroutines, task ids, timeouts and
addresses, for any width of a word, and for arbitrary bounds. The assumptions on
constants are `BoundsAssumption`, `MaxOpsAssumption`, `ReqAssumption` (a
coroutine belongs to a request; `NULL` is none of the addresses),
`LuaAssumption`, `WordAssumption`, `CallAssumption`, `StreamAssumption` and
`ProtoAssumption`. TLC
evaluates them in the runs of their modules. The inductive invariants were model-checked
before they were proved.

**`TaskQueueProofs`**: `TypeCorrect`; `SignalCorrect` and `WakeCorrect`, that
pending results imply `done` and that a sleeper has a timer or a timer function
to wake it, of which the conjunction is inductive (`QueueInvCorrect`); `Refinement`, that the queue implements `Mailbox` under
the mapping of `tasks` to `pending` through `EncodeAll`. The steps rest on the
lemmas that `EncodeAll` commutes with `Append` and keeps the empty sequence.

On `InitWorker`, in the same module: `WorkerTypeCorrect`; `TagCorrect`, that type and address come
back from a word, which splits on the sign of the `int64_t`; `WorkerUsesQueue`,
that a worker's steps are the queue's, so that the above holds for it;
`LibraryCorrect` from `LibInv`, that an engine handle in a worker that has not
failed is a complete one; `AnswerCorrect` and `BuffersCorrect` from `TurnInv`: while
all deadlines end before the wait, either nothing is in the engine, the queue
and the heap, or the one call in progress is in the engine or, signalled, in
the queue. No timer has fired then, and so no late timer function can end a
later wait early. Neither property is inductive without that.

**`EngineStreamProofs`**: `TypeCorrect`; `TurnsCorrect`, `WireCorrect` and `RecvCorrect`, by two
invariants. `StreamInv` has the argument about time (`Limits`): the deadline is
set by the goroutine of `new_stream` at a time before its result is
delivered; the time nginx has cached from then on is later; so every timer of
a later operation expires at or after the deadline, whatever the cached time
lags. The timer of `new_stream` itself may expire before, but then Lua has no
stream. Hence, until the deadline, an operation ends by its result or by an
abort that leaves the stream busy (`Turns`). `OrderInv` adds that what is on the
wire came from earlier operations with the end last (`WireInv`), and that Lua
has all messages taken but one that is on its way, or that nobody waited for,
after which no `recv` can start (`RecvInv`).

**`PbStateProofs`**: `TypeCorrect`, `RestoredCorrect`, `TypesCorrect` and
`LoadsCorrect`, for any set of definitions and any number of states and calls,
from `PbInv`, which adds `LibraryInv` to them: the library's state is not that of
the other users, has been kept by a load that initialised the compiler, and
holds the types of every service that a call can find or has found.

**`GrpcClientCalls`**: `TypeCorrect` for the worker, with one lemma per operation
that builds a record or a queue.

**`GrpcClientProofs`**: `ContextCorrect`, that `ContextInv` always holds.
`KeptIsWaiting` and `SctxOwnership`, the properties of interest, are not
inductive alone. That a finalizer may free a connection depends on which calls
are in flight; that a result may be appended to a connection's free queue
depends on the connection being allocated. `ContextInv` therefore adds

- `InFlight`: the context a coroutine waits on is allocated, and so is its
  connection; a unary call's connection has not been collected (the waiting
  coroutine holds its handle), and a stream's context is in the opening queue;
- `HandleIsOpening`: a Lua stream handle leads to an opening stream, and unary
  contexts are never in an opening queue;
- `ConnPhases`: a connection without memory has empty queues and nothing
  delayed, one with a handle has memory, and only a collected one is waiting
  to be freed.

The argument, one lemma per action (in `GrpcClientCalls` and
`GrpcClientContexts`): `new_stream` takes a context that nobody
uses (`TakenIsUnused`); a stream operation is let through only if
`wait_co_ctx` is `NULL`, hence not on an ongoing task (`StreamOpContext`); a
result, a timer and an abort all end the wait of the one coroutine that waits
(`StopWaiting`), and returning a unary context puts it in the free queue once
(`ResumeUnary`); a finalizer never meets a call that holds the handle, so
`free_conn`, at once or delayed, frees only contexts that nobody can reach
(`FreeConnContext`, `ConnGcContext`, `StreamGcContext`).

`KeptCorrect` and `OwnershipCorrect` follow directly. `AliveCorrect` goes through
the kinds of pointers one by one (`PointerAlive`). `UafCorrect` adds `ArrayInv`,
that the array of results is freed under the event handler only in an exiting
worker. `CountCorrect` holds because `keep_task` is only ever called for a
context that is not in the tree.

Three more invariants are inductive on top of `ContextInv`:

- `HandleInv` (`GrpcClientContexts`) gives `HandleCorrect` and `DelayedCorrect`: the
  handle is dropped where the engine's map entry is, and a connection is kept
  by `close` only if `close_stream` of an opening stream will find it.
- `MarkInv` (`GrpcClientContexts`) gives `BusyCorrect`. A task in the tree has not
  timed out (`StateInv`), so the result always clears the mark it finds.
- `AnswerInv` (`GrpcClientPipeline`) gives `OneResultCorrect` and
  `ComingCorrect`. Each answer is in one of four places: goroutine, engine's
  queue, the thread's array, posted queue (`OpsInv`); the array is empty
  unless a completion is outstanding, so that the thread overwrites nothing
  (`FetchInv`); the answer to an operation names the context on which its
  coroutine waits (`IdInv`), so that the posted handler cannot drop it while
  the coroutine waits (`ComingInv`). `stale_result` is no contradiction: there
  a *wrong* answer ends the wait. `BufsCorrect` follows the buffers along the same
  places.

`PromiseCorrect`, in the same module: the worker implements `Calls`. Every step
is of one of a few kinds (`StepKinds`), told apart by who waits and which results
are where: an operation begins, a coroutine gives up, the first posted result resumes
one or is dropped, results move on (a goroutine finishes, the thread fetches,
its completion posts, or loses for want of memory), or nothing of this
changes. `PromiseStep` maps each kind to an action of `Calls` or a stutter.
That the answer taken is the caller's own or one with no caller follows from
`IdInv`: an answer somebody else waits for names that one's context, on
which no second coroutine waits (`KeptIsWaiting`). `OpInv` adds that who waits
does so for an operation, numbered from 1.

**`GrpcClientLimits`** says how far the exceptions go that the violated runs show.

- `ArmedCorrect`, by counting. The handler stops polling if it has at least as
  many results as there are ongoing tasks. If every result is one that a
  coroutine waits for, their task ids are distinct and in the tree, so the
  results inject into the tree (`IdInv`, `KeptIsWaiting`). The tree is finite and
  no larger (`OngoingCount`), so that this is a bijection, every waiting
  call's result has been fetched (`AllFetched`), and nobody is left for the
  thread to wait for.
- `LeakCorrect`, `LostCorrect`: a collected connection that is still allocated
  waits for an opening stream (`DelayedFree`). If no coroutine waits on that one
  and Lua has no handle to it, it is lost. Case by case over `Next`, a context
  that is in the opening queue and has a handle or a waiter loses its last one
  only in a step that ends the creation of a stream without success. This
  needs the first conjunct of `DelayedFree`, that a connection without a handle
  is freed or marked. The lost context is in the opening queue of the very
  connection that leaks.
- `OrphanCorrect`: under `ContextInv` timers, cleanup handlers and Lua handles
  lead only to contexts that the tree or a queue has too (`HeldAre`), so that
  it is enough to follow these. Case by case over `Next`, what leaves the tree
  or a queue is in a queue afterwards or has been freed, except for the context
  of a unary call whose coroutine is killed (`KillDrops`; the lemmas are in
  `GrpcClientContexts`).
- `PanicCorrect`: a stream Lua has open is in the engine's `StreamRef`, by
  `CreatedInv`, which follows the answer to a successful creation through the four
  places: the engine has the entry before the answer exists, and removes it
  only by `close_stream`. A coroutine that takes another operation's answer for
  that of its creation breaks the chain; this is the hypothesis `SomeMistaken`
  excludes.

**Model-checked only**: the liveness properties (`WaitReturns`,
`ReportIsDelivered`, `EveryCallReturns`, `PromptDelivery`, `ThreadRests`,
`BlockingCallReturns`, `OpsEnd`). They rest on fairness, hence
on `ENABLED`, which is out of the prover's reach. Every safety invariant,
action property and refinement that a passing run checks is also proved.

## Not modelled

- Message contents, encoding and decoding, error texts and metadata. That a
  received message cannot be decoded is one outcome of `LuaContinues`.
- Values of timeouts in `GrpcClient`: a timer may expire at any moment after it
  is set. `EngineStream` has them for one stream.
- Engine: TLS options of `Connect`, the metadata array (`convertMetadata`), the
  codec, the error buffer of `connect` (`reportErr`) and the log file: data that
  is passed through, without state of its own.
- `ngx_grpc_cli_exit_worker`: it is registered as the *master's* exit handler
  and only closes an engine handle, which a master that has worker processes
  never has; in single-process mode it is the last thing before the exit.
- The red-black tree's structure (nginx's own code), and the byte layout of a
  result record in memory; the tagged word of it is `ResTag`.
- A stricter form of `Calls` in which a call returns its own answer only:
  `stale_result` is a counterexample to it, and with contexts not reused the
  client would not be this one.
- One composition of `EngineStream` with `GrpcClient`: each is explored with
  what the other abstracts (time against reuse and the pool thread), and the
  product is beyond TLC. `Engine` allows every outcome that `EngineStream` has.
- Faults inside grpc-go and nginx, and the worker's death.
