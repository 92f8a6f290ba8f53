---------------------------- MODULE EngineStream ----------------------------
(***************************************************************************)
(* One stream in time: conn/grpc.go and the goroutines of main.go on one   *)
(* side, the operations, timers and aborts of the nginx module on the      *)
(* other.  One option gives two limits: the engine sets a deadline for the *)
(* whole stream when NewStream runs, and nginx a timer for each operation  *)
(* when it starts, counted from the time nginx has cached.                 *)
(*                                                                         *)
(* grpc-go allows neither two SendMsg or CloseSend nor two RecvMsg at a    *)
(* time on a stream.  The engine starts a goroutine per operation and has  *)
(* no lock: what keeps them apart is the module's busy mark, that timers   *)
(* come after the deadline, and that an abort leaves the mark.             *)
(***************************************************************************)
EXTENDS Integers, Sequences

CONSTANTS Types,     \* stream types
          Timeouts,  \* values of opt.timeout, in halves of a millisecond
          MaxOps,    \* bound: operations started
          MaxTime    \* bound: the clock, in milliseconds

ASSUME StreamAssumption ==
  /\ Types \subseteq {"client", "server", "bidi"}
  /\ Timeouts \subseteq Nat /\ MaxOps \in Nat /\ MaxTime \in Nat

VARIABLES type, msec,  \* the arguments of new_stream
          now,         \* the clock
          deadline,    \* of the stream's context; NoTime before or without
          done,        \* the context is done
          sentLast,    \* the sending direction is closed
          ops,         \* goroutines
          wire,        \* what has been sent, by number of operation; 0: end
          taken,       \* messages of the peer that RecvMsg has returned
          results,     \* reported, not yet delivered
          stream,      \* the Lua object
          cached,      \* ngx_current_msec
          wait,        \* the operation a coroutine waits for, or 0
          busy,        \* wait_co_ctx is not NULL
          timer,       \* when the wait's timer expires
          got,         \* messages handed to Lua
          nops

goVars == <<deadline, done, sentLast, ops, wire, taken>>
ngxVars == <<wait, busy, timer, nops>>
vars == <<type, msec, now, goVars, results, stream, cached, ngxVars, got>>

NoTime == MaxTime + 1   \* later than any time the clock shows
Op == 1 .. MaxOps
Kind == {"new_stream", "recv", "send", "close_send"}

\* at: what the goroutine does next.
Goroutine == [op : Op, kind : Kind, at : {"start", "CloseSend", "Msg"}]

\* msg: the number of the message a recv returns, else 0.
Result == [op : Op, ok : BOOLEAN, msg : 0 .. MaxOps]

TypeOK ==
  /\ type \in Types /\ msec \in Nat
  /\ now \in 0 .. MaxTime /\ cached \in 0 .. now
  /\ deadline \in Nat /\ timer \in Nat
  /\ done \in BOOLEAN /\ sentLast \in BOOLEAN /\ busy \in BOOLEAN
  /\ ops \subseteq Goroutine
  /\ wire \in Seq(0 .. MaxOps) /\ got \in Seq(Op) /\ taken \in 0 .. MaxOps
  /\ results \in Seq(Result)
  /\ stream \in {"none", "creating", "open", "closed", "lost"}
  /\ wait \in 0 .. MaxOps /\ nops \in 0 .. MaxOps

\* Mutated form of Msec: no timeout is passed on as -1.
MinusOne(t) == IF t > 0 THEN t \div 2 ELSE -1

\* What is stored of opt.timeout; 60 s are beyond the clock's bound.
Msec(t) == IF t > 0 THEN t \div 2 ELSE NoTime

StreamInit ==
  /\ type \in Types /\ msec \in {Msec(t) : t \in Timeouts}
  /\ now = 0 /\ cached = 0
  /\ deadline = NoTime /\ done = FALSE /\ sentLast = FALSE
  /\ ops = {} /\ wire = <<>> /\ taken = 0
  /\ results = <<>> /\ stream = "none"
  /\ wait = 0 /\ busy = FALSE /\ timer = 0 /\ nops = 0 /\ got = <<>>

----------------------------------------------------------------------------
\* The nginx module and the Lua library.

Methods == CASE type = "server" -> {"recv"}
             [] type = "client" -> {"send", "recv"}
             [] type = "bidi" -> {"send", "close_send", "recv"}

\* kick_off_task, and the goroutine that the engine function starts.
kick_off(kind, at) ==
  /\ nops < MaxOps /\ nops' = nops + 1
  /\ wait' = nops + 1 /\ busy' = TRUE
  /\ timer' = cached + msec
  /\ ops' = ops \cup {[op |-> nops + 1, kind |-> kind, at |-> at]}

NewStream ==
  /\ stream = "none" /\ stream' = "creating"
  /\ kick_off("new_stream", "start")
  /\ UNCHANGED <<type, msec, now, deadline, done, sentLast, wire, taken,
                 results, cached, got>>

\* Mutated form of StreamOp: check_stream_status does not ask for busy.
StreamOpUnchecked(kind) ==
  /\ stream = "open" /\ kind \in Methods
  /\ kick_off(kind, IF kind = "recv" /\ type = "client" THEN "CloseSend"
                    ELSE "Msg")
  /\ UNCHANGED <<type, msec, now, deadline, done, sentLast, wire, taken,
                 results, stream, cached, got>>

\* recv (recv_close of a client stream), send and close_send: refused while
\* the stream is marked busy.
StreamOp(kind) ==
  /\ stream = "open" /\ kind \in Methods
  /\ ~busy
  /\ kick_off(kind, IF kind = "recv" /\ type = "client" THEN "CloseSend"
                    ELSE "Msg")
  /\ UNCHANGED <<type, msec, now, deadline, done, sentLast, wire, taken,
                 results, stream, cached, got>>

\* Mutated form of CancelOnClose: the cancel function is dropped uncalled.
NeverCancels == done

\* Stream.Close: there is a cancel function if there is a timeout.
CancelOnClose == done \/ msec > 0

\* Lua closes the stream or drops it; another light thread may be waiting.
Close ==
  /\ stream = "open" /\ stream' = "closed"
  /\ done' = CancelOnClose
  /\ UNCHANGED <<type, msec, now, deadline, sentLast, ops, wire, taken,
                 results, cached, ngxVars, got>>

\* What new_stream makes of the end of its wait, and recv_close of a message
\* it can decode.
LuaGoesOn(n, ok) ==
  IF n = 1 THEN stream' = (IF ok THEN "open" ELSE "lost") /\ UNCHANGED done
  ELSE \/ UNCHANGED <<stream, done>>
       \/ /\ ok /\ type = "client" /\ stream = "open"
          /\ got' # got
          /\ stream' = "closed" /\ done' = CancelOnClose

\* A round of the event loop brings the next result: nginx updates its time,
\* and resumes whoever waits on the stream or drops the result.
Deliver ==
  /\ results # <<>> /\ results' = Tail(results)
  /\ cached' = now
  /\ LET res == Head(results)
     IN  IF wait = 0 THEN UNCHANGED <<wait, busy, got, stream, done>>
         ELSE /\ wait' = 0 /\ busy' = FALSE
              /\ got' = IF res.msg > 0 THEN Append(got, res.msg) ELSE got
              /\ LuaGoesOn(wait, res.ok)
  /\ UNCHANGED <<type, msec, now, deadline, sentLast, ops, wire, taken,
                 timer, nops>>

\* ngx_grpc_cli_timeout_handler
Timeout ==
  /\ wait # 0 /\ timer <= now
  /\ cached' = now
  /\ wait' = 0 /\ busy' = FALSE
  /\ stream' = IF wait = 1 THEN "lost" ELSE stream
  /\ UNCHANGED <<type, msec, now, goVars, results, timer, nops, got>>

\* Mutated form of Kill: the abort clears wait_co_ctx.
KillClears ==
  /\ wait # 0 /\ wait' = 0 /\ busy' = FALSE
  /\ stream' = IF wait = 1 THEN "lost" ELSE stream
  /\ UNCHANGED <<type, msec, now, goVars, results, cached, timer, nops, got>>

\* The coroutine is killed while it waits: the task is removed from the tree
\* and wait_co_ctx stays.
Kill ==
  /\ wait # 0 /\ wait' = 0
  /\ stream' = IF wait = 1 THEN "lost" ELSE stream
  /\ UNCHANGED <<type, msec, now, goVars, results, cached, busy, timer,
                 nops, got>>

\* Any other round of the event loop.
UpdateTime ==
  /\ cached # now /\ cached' = now
  /\ UNCHANGED <<type, msec, now, goVars, results, stream, ngxVars, got>>

Tick ==
  /\ now < MaxTime /\ now' = now + 1
  /\ UNCHANGED <<type, msec, goVars, results, stream, cached, ngxVars, got>>

----------------------------------------------------------------------------
\* The goroutines.

Reports(g, ok, msg) ==
  /\ ops' = ops \ {g}
  /\ results' = Append(results, [op |-> g.op, ok |-> ok, msg |-> msg])
  /\ UNCHANGED <<type, msec, now, deadline, stream, cached, ngxVars, got>>

Continues(g, at) ==
  /\ ops' = (ops \ {g}) \cup {[g EXCEPT !.at = at]}
  /\ UNCHANGED <<type, msec, now, results, stream, cached, ngxVars, got>>

\* conn.NewStream sets the deadline, if there is a timeout, and goes on to
\* open the stream, which may take any time.
WithTimeout(g) ==
  /\ g.at = "start"
  /\ deadline' = IF msec > 0 THEN now + msec ELSE NoTime
  /\ Continues(g, "Msg")
  /\ UNCHANGED <<done, sentLast, wire, taken>>

DeadlineExceeded ==
  /\ deadline <= now /\ ~done
  /\ done' = TRUE
  /\ UNCHANGED <<type, msec, now, deadline, sentLast, ops, wire, taken,
                 results, stream, cached, ngxVars, got>>

\* The context is done, the connection breaks, or the peer ends the stream.
\* A failed NewStream cancels its context (or panics, having no function to
\* do so, which is reported as an error too).
OpFails(g) ==
  /\ g.at = "Msg"
  /\ done' = (done \/ g.kind = "new_stream")
  /\ Reports(g, FALSE, 0)
  /\ UNCHANGED <<sentLast, wire, taken>>

\* SendMsg, in Send or with the first message in NewStream, which closes the
\* sending direction of a server stream.
SendMsg(g) ==
  /\ g.at = "Msg" /\ g.kind \in {"send", "new_stream"}
  /\ ~done /\ ~sentLast
  /\ LET last == g.kind = "new_stream" /\ type = "server"
     IN  /\ wire' = wire \o (IF last THEN <<g.op, 0>> ELSE <<g.op>>)
         /\ sentLast' = last
  /\ Reports(g, TRUE, 0)
  /\ UNCHANGED <<done, taken>>

\* cs.CloseSend, which has no effect when repeated.
EndSend ==
  /\ sentLast' = TRUE
  /\ wire' = IF sentLast \/ done THEN wire ELSE Append(wire, 0)

CloseSend(g) ==
  /\ g.at = "Msg" /\ g.kind = "close_send"
  /\ EndSend
  /\ Reports(g, TRUE, 0)
  /\ UNCHANGED <<done, taken>>

\* Recv of a client stream.
CloseSendFirst(g) ==
  /\ g.at = "CloseSend"
  /\ EndSend
  /\ Continues(g, "Msg")
  /\ UNCHANGED <<deadline, done, taken>>

RecvMsg(g) ==
  /\ g.at = "Msg" /\ g.kind = "recv"
  /\ ~done /\ taken < MaxOps
  /\ taken' = taken + 1
  /\ Reports(g, TRUE, taken + 1)
  /\ UNCHANGED <<done, sentLast, wire>>

GoStep(g) == \/ WithTimeout(g) \/ OpFails(g) \/ SendMsg(g) \/ CloseSend(g)
             \/ CloseSendFirst(g) \/ RecvMsg(g)

StreamNext ==
  \/ NewStream \/ (\E kind \in Kind : StreamOp(kind)) \/ Close
  \/ Deliver \/ Timeout \/ Kill \/ UpdateTime \/ Tick
  \/ (\E g \in ops : GoStep(g)) \/ DeadlineExceeded

\* A goroutine starts, does what does not block, and returns from grpc-go
\* once the context is done.  The clock may stop and the peer be silent.
StreamFairness ==
  /\ WF_vars(DeadlineExceeded)
  /\ \A n \in Op :
       /\ WF_vars(\E g \in ops : g.op = n /\ g.at # "Msg" /\ GoStep(g))
       /\ WF_vars(\E g \in ops : g.op = n /\ done /\ GoStep(g))

StreamSpec == StreamInit /\ [][StreamNext]_vars /\ StreamFairness

----------------------------------------------------------------------------
\* The stream has a deadline, and it has not been reached.
Live == msec > 0 /\ now < deadline

\* Until the deadline of a stream no two goroutines are inside grpc-go for
\* it, although timeouts and aborts free Lua to go on: an operation times
\* out after the deadline, and an aborted one blocks the stream
\* (kick_off_task, cleanup, NewStream).
OneOpAtATime == Live => \A g, h \in ops : g = h

\* Until the deadline the peer gets what Lua has sent in that order, and
\* nothing after the end of the stream (Send, CloseSend, Recv).
WireInOrder ==
  Live => \A i \in 2 .. Len(wire) :
            /\ wire[i - 1] # 0
            /\ wire[i] = 0 \/ wire[i - 1] < wire[i]

\* Until the deadline Lua gets the messages of the peer in order and without
\* a gap: a result that is dropped takes no message with it that a later
\* recv would miss (post_event_handler, cleanup, Recv).
RecvInOrder == Live => \A i \in DOMAIN got : got[i] = i

InFlight(n) == \E g \in ops : g.op = n

\* An operation of a stream that is closed or past its deadline ends, even
\* if the peer is silent and the clock stops (Close, NewStream).
OpsEnd ==
  \A n \in Op : InFlight(n) /\ msec > 0 /\ (stream = "closed" \/ now >= deadline)
                ~> ~InFlight(n)
=============================================================================
