------------------------------- MODULE Engine -------------------------------
(***************************************************************************)
(* The gRPC engine, grpc-engine/main.go, as the nginx module sees it: two  *)
(* maps from C pointers to Go objects, and one goroutine per operation     *)
(* that ends by reporting one result under the operation's task id.  The   *)
(* queue the results go through is the Mailbox that TaskQueue implements.  *)
(*                                                                         *)
(* A task id is the address of the stream context the operation runs on.   *)
(* "op" is the number of the operation: the program has no such number, it *)
(* is there to tell the results of two operations on one address apart.    *)
(***************************************************************************)
EXTENDS Integers, Sequences

CONSTANTS Conn,     \* ngx_grpc_cli_ctx_t, one per connection
          Sctx,     \* addresses of ngx_grpc_cli_stream_ctx_t
          MaxOps    \* bound: operations started

ASSUME MaxOpsAssumption == MaxOps \in Nat

VARIABLES EngineCtxRef,  \* connections the engine has open
          StreamRef,     \* addresses the engine has a stream for
          goroutines,    \* operations running in the engine
          tasks          \* reported, not yet fetched by grpc_engine_wait

engineVars == <<EngineCtxRef, StreamRef, goroutines, tasks>>

Op == 1 .. MaxOps
EngineKind == {"call", "new_stream", "recv", "send", "close_send"}
ResType == {"ok", "err", "ok_not_res"}

Goroutine == [kind : EngineKind, id : Sctx, op : Op]
Result == [id : Sctx, op : Op, type : ResType]

EngineTypeOK ==
  /\ EngineCtxRef \subseteq Conn
  /\ StreamRef \subseteq Sctx
  /\ goroutines \subseteq Goroutine
  /\ tasks \in Seq(Result)

EngineInit ==
  /\ EngineCtxRef = {} /\ StreamRef = {}
  /\ goroutines = {} /\ tasks = <<>>

\* What an operation may report.  A message that encodes to no bytes is a
\* nil slice, so call and recv also have a success without a result.
Outcome(kind) == IF kind \in {"call", "recv"} THEN ResType
                 ELSE {"err", "ok_not_res"}

grpc_engine_connect(c) == EngineCtxRef' = EngineCtxRef \cup {c}

grpc_engine_close(c) == EngineCtxRef' = EngineCtxRef \ {c}

grpc_engine_close_stream(a) == StreamRef' = StreamRef \ {a}

\* mustFind of grpc_engine_call and grpc_engine_new_stream, and of the
\* stream operations: without an entry it panics outside of any recover.
MustFindConn(c) == c \in EngineCtxRef
MustFindStream(a) == a \in StreamRef

\* The goroutine an operation starts.
Go(kind, a, n) ==
  goroutines' = goroutines \cup {[kind |-> kind, id |-> a, op |-> n]}

\* Mutated forms of ReportFinishedTask: an error is not reported, or it is
\* reported and the goroutine goes on to report again.
ErrorNotReported(g, type) ==
  /\ goroutines' = goroutines \ {g}
  /\ tasks' = IF type = "err" THEN tasks
              ELSE Append(tasks, [id |-> g.id, op |-> g.op, type |-> type])
  /\ UNCHANGED <<EngineCtxRef, StreamRef>>
ReportTwice(g, type) ==
  /\ goroutines' = IF type = "err" THEN goroutines ELSE goroutines \ {g}
  /\ tasks' = Append(tasks, [id |-> g.id, op |-> g.op, type |-> type])
  /\ UNCHANGED <<EngineCtxRef, StreamRef>>

\* The goroutine ends, normally or through reportPanic: a new stream is
\* stored before its success is reported.
ReportFinishedTask(g, type) ==
  /\ goroutines' = goroutines \ {g}
  /\ StreamRef' = IF g.kind = "new_stream" /\ type # "err"
                  THEN StreamRef \cup {g.id} ELSE StreamRef
  /\ tasks' = Append(tasks, [id |-> g.id, op |-> g.op, type |-> type])
  /\ UNCHANGED EngineCtxRef

\* grpc_engine_wait returns the sequence tasks.
grpc_engine_wait ==
  /\ tasks' = <<>>
  /\ UNCHANGED <<EngineCtxRef, StreamRef, goroutines>>
=============================================================================
