----------------------------- MODULE InitWorker -----------------------------
(***************************************************************************)
(* A worker process until it serves requests: ngx_grpc_cli_init_worker     *)
(* loads the engine, then init_worker_by_lua may load the Lua library and  *)
(* make unary calls.  No coroutine can yield there, so that a call blocks  *)
(* the worker: ngx_grpc_cli_call waits for the engine itself, on the       *)
(* TaskQueue which the pool thread will read later.                        *)
(*                                                                         *)
(* A call is known to the engine by the address of a variable on the stack *)
(* and takes the first result it gets.  Calls are numbered here to tell    *)
(* whose result that is.                                                   *)
(***************************************************************************)
EXTENDS TaskQueue, ResTag

CONSTANTS MaxCalls,   \* bound: blocking calls made
          Timeouts,   \* values of opt.timeout in tenths of a millisecond
          Malloc      \* addresses malloc may return

ASSUME CallAssumption == /\ MaxCalls \in Nat /\ Id = 1 .. MaxCalls
                         /\ MaxReports >= MaxCalls
                         /\ Timeouts \subseteq Nat
                         /\ Malloc \subseteq Address \ {0}

VARIABLES phase,     \* of the worker
          settings,  \* an engine path is compiled in; the thread pool is configured
          gccf,      \* engine loaded, symbols resolved, task of the thread made
          lib,       \* the Lua library is loaded
          calls,     \* the deadline given to the engine, for each call
          answers,   \* what each call has returned
          running,   \* calls whose goroutine has not reported
          heap       \* result buffers that are allocated

workerVars == <<phase, settings, gccf, lib>>
callVars == <<calls, answers, running, heap>>
allVars == <<vars, workerVars, callVars>>

\* The symbols init_worker resolves, in order, the task being one more step.
Symbols == 10

\* op: the call whose result was returned, 0 for "timeout".
Answer == [op : {0} \cup Id, ok : BOOLEAN]

WorkerTypeOK ==
  /\ TypeOK
  /\ phase \in {"init_process", "init_worker", "serving", "failed", "aborted"}
  /\ settings \in [engine_path : BOOLEAN, thread_pool : BOOLEAN]
  /\ gccf \in [engine : BOOLEAN, symbols : 0 .. Symbols, task : BOOLEAN]
  /\ lib \in BOOLEAN
  /\ calls \in Seq(Nat) /\ answers \in Seq(Answer)
  /\ running \subseteq Id /\ heap \subseteq Address

\* The configuration has been read: ngx_grpc_cli_create_main_conf.
WorkerInit ==
  /\ Init
  /\ phase = "init_process"
  /\ settings \in [engine_path : BOOLEAN, thread_pool : BOOLEAN]
  /\ gccf = [engine |-> FALSE, symbols |-> 0, task |-> FALSE]
  /\ lib = FALSE
  /\ calls = <<>> /\ answers = <<>> /\ running = {} /\ heap = {}

----------------------------------------------------------------------------
\* Initialisation.

\* Without a path or a thread pool there is no engine and no error.
InitSkips ==
  /\ phase = "init_process" /\ phase' = "init_worker"
  /\ ~(settings.engine_path /\ settings.thread_pool)
  /\ UNCHANGED <<vars, settings, gccf, lib, callVars>>

\* Mutated form of InitFails: the error is logged only.
FailsQuietly ==
  /\ phase = "init_process" /\ phase' = "init_worker"
  /\ settings.engine_path /\ settings.thread_pool
  /\ \E n \in 0 .. Symbols :
       gccf' = [engine |-> TRUE, symbols |-> n, task |-> FALSE]
  /\ UNCHANGED <<vars, settings, lib, callVars>>

\* dlopen fails, or a symbol is missing, or ngx_grpc_cli_thread is out of
\* memory: the worker exits.
InitFails ==
  /\ phase = "init_process" /\ phase' = "failed"
  /\ settings.engine_path /\ settings.thread_pool
  /\ \/ UNCHANGED gccf
     \/ \E n \in 0 .. Symbols :
          gccf' = [engine |-> TRUE, symbols |-> n, task |-> FALSE]
  /\ UNCHANGED <<vars, settings, lib, callVars>>

InitSucceeds ==
  /\ phase = "init_process" /\ phase' = "init_worker"
  /\ settings.engine_path /\ settings.thread_pool
  /\ gccf' = [engine |-> TRUE, symbols |-> Symbols, task |-> TRUE]
  /\ UNCHANGED <<vars, settings, lib, callVars>>

is_engine_inited == gccf.engine

\* require("resty.grpc"); without an engine it raises an error.
Require ==
  /\ phase \in {"init_worker", "serving"} /\ ~lib
  /\ is_engine_inited
  /\ lib' = TRUE
  /\ UNCHANGED <<vars, phase, settings, gccf, callVars>>

----------------------------------------------------------------------------
\* Blocking calls.

Busy == phase = "init_worker" /\ Len(answers) < Len(calls)

\* What is stored of opt.timeout: a number of milliseconds, truncated.
Msec(t) == IF t > 0 THEN t \div 10 ELSE 60 * 1000

\* The engine's deadline ends the call before the worker's wait ends; 0 is
\* no deadline.
WaitMsec == 600 * 1000
EndsInTime(ms) == ms > 0 /\ ms < WaitMsec

\* Conn:call and ngx_grpc_cli_call up to the wait.  Conn:call has refused a
\* closed connection before.
StartBlockingCall(t) ==
  /\ lib /\ phase = "init_worker" /\ ~Busy
  /\ Len(calls) < MaxCalls
  /\ calls' = Append(calls, Msec(t))
  /\ running' = running \cup {Len(calls) + 1}
  /\ WaitCall
  /\ UNCHANGED <<workerVars, answers, heap>>

\* The goroutine of call n: an error comes without a result, and a response
\* that encodes to no bytes is a nil slice.
Report(n) ==
  /\ phase # "aborted" /\ n \in running
  /\ running' = running \ {n}
  /\ \E res \in TaskResult : /\ res.id = n
                             /\ res.err => res.result = "nil"
                             /\ Done(res)
  /\ UNCHANGED <<workerVars, calls, answers, heap>>

\* The same before the deadline given to the engine.
ReportInTime(n) == n \in running /\ EndsInTime(calls[n]) /\ Report(n)

\* Mutated form of WaitTimer: the wait is shorter than the call's deadline.
ShortWait ==
  /\ Busy
  /\ TimerFires
  /\ UNCHANGED <<workerVars, callVars>>

\* The wait's timer fires: not while the call's own deadline is earlier.
WaitTimer ==
  /\ Busy /\ ~EndsInTime(calls[Len(calls)])
  /\ TimerFires
  /\ UNCHANGED <<workerVars, callVars>>

LateTimerFunc ==
  /\ phase # "aborted"
  /\ TimerFunc
  /\ UNCHANGED <<workerVars, callVars>>

WaitBlocks ==
  /\ Busy
  /\ WaitSleep
  /\ UNCHANGED <<workerVars, callVars>>

TypeOf(res) == CASE res.type = "Ok" -> GrpcResTypeOk
                 [] res.type = "Err" -> GrpcResTypeErr
                 [] res.type = "OkNotRes" -> GrpcResTypeOkNotRes

\* Wait allocates a buffer for each result that has bytes or an error text.
Allocated(batch, buf) ==
  /\ \A i \in DOMAIN batch :
       IF batch[i].type = "OkNotRes" THEN buf[i] = 0
       ELSE buf[i] \in Malloc \ heap
  /\ \A i, j \in DOMAIN batch : buf[i] = buf[j] => i = j \/ buf[i] = 0

Returns(answer) ==
  /\ answers' = Append(answers, answer)
  /\ UNCHANGED phase

\* n_res[0] is the answer: Lua copies the text of a response or C that of an
\* error, and the buffer is freed (ngx_grpc_cli_free_buf).  Any other type
\* fails the assertion.
TakeFirst(batch, buf) ==
  LET w == Pack(buf[1], TypeOf(batch[1]))
      all == (heap \cup {buf[i] : i \in DOMAIN batch}) \ {0}
  IN  IF ResType(w) \in {GrpcResTypeOk, GrpcResTypeErr}
      THEN /\ Returns([op |-> batch[1].id, ok |-> ResType(w) = GrpcResTypeOk])
           /\ heap' = all \ {Buf(w)}
      ELSE phase' = "aborted" /\ heap' = all /\ UNCHANGED answers

WaitEnds ==
  /\ Busy
  /\ WaitReturn
  /\ LET batch == EncodeAll(tasks)
     IN  IF batch = <<>>
         THEN Returns([op |-> 0, ok |-> FALSE]) /\ UNCHANGED heap
         ELSE \E buf \in [DOMAIN batch -> Malloc \cup {0}] :
                Allocated(batch, buf) /\ TakeFirst(batch, buf)
  /\ UNCHANGED <<settings, gccf, lib, calls, running>>

\* init_worker_by_lua is over.
Serve ==
  /\ phase = "init_worker" /\ ~Busy
  /\ phase' = "serving"
  /\ UNCHANGED <<vars, settings, gccf, lib, callVars>>

WorkerNext ==
  \/ InitSkips \/ InitFails \/ InitSucceeds \/ Require \/ Serve
  \/ \E t \in Timeouts : StartBlockingCall(t)
  \/ \E n \in Id : Report(n)
  \/ WaitTimer \/ LateTimerFunc \/ WaitBlocks \/ WaitEnds

\* The caller of Wait gets the mutex, a timer fires and its function runs,
\* and a goroutine with a deadline reports; one without may never do.
WorkerFairness ==
  /\ WF_allVars(WaitBlocks) /\ WF_allVars(WaitEnds)
  /\ WF_allVars(WaitTimer) /\ WF_allVars(LateTimerFunc)
  /\ \A n \in Id : WF_allVars(ReportInTime(n))

WorkerSpec == WorkerInit /\ [][WorkerNext]_allVars /\ WorkerFairness

----------------------------------------------------------------------------
\* Where the Lua library is loaded, the engine is complete: is_engine_inited
\* looks at the handle only, which is set before the symbols are resolved
\* and the thread's task is made (init_worker, ngx_grpc_cli_thread).
LibraryReady == lib => gccf.symbols = Symbols /\ gccf.task

\* All calls up to the n-th had a deadline before the end of the wait.
InTime(n) == \A m \in 1 .. n : EndsInTime(calls[m])

\* A blocking call returns its own answer, although it compares no task id,
\* as long as no call before it has given up waiting (ngx_grpc_cli_call).
AnswerIsOwn ==
  \A n \in DOMAIN answers : InTime(n) => answers[n].op = n

\* Each buffer of a blocking call is freed once: with the tag taken off its
\* address, by C or by Lua, depending on the type.
BuffersFreed == ~Busy /\ phase # "aborted" /\ InTime(Len(calls)) => heap = {}

\* A blocking call does not block the worker for ever, deadline or not.
BlockingCallReturns == Busy ~> ~Busy

\* "assert(type == NGX_GRPC_CLIENT_RES_TYPE_ERR)" in ngx_grpc_cli_call: a
\* blocking call gets a response or an error.
AssertionHolds == phase # "aborted"
=============================================================================
