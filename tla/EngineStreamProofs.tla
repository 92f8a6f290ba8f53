------------------------- MODULE EngineStreamProofs -------------------------
(***************************************************************************)
(* A stream's operations do not overlap, and its messages keep their       *)
(* order, until its deadline: for all stream types and timeouts, any       *)
(* number of operations and any run of the clock.                          *)
(***************************************************************************)
EXTENDS EngineStream, SequenceTheorems, TLAPS

\* A goroutine that goes on, and a result, have their types.
LEMMA GoroutineType ==
  ASSUME TypeOK, NEW g \in ops
  PROVE  /\ g \in Goroutine /\ g.op \in Op /\ g.op \in 0 .. MaxOps
         /\ \A at \in {"start", "CloseSend", "Msg"} :
              [g EXCEPT !.at = at] \in Goroutine
<1>1. g \in Goroutine
  BY DEF TypeOK
<1> QED
  BY <1>1, StreamAssumption DEF Goroutine, Op

\* What the goroutine's report adds.
LEMMA ReportsType ==
  ASSUME TypeOK, NEW g \in ops, NEW msg \in 0 .. MaxOps,
         Reports(g, TRUE, msg) \/ Reports(g, FALSE, msg)
  PROVE  ops' \subseteq Goroutine /\ results' \in Seq(Result)
<1>1. ASSUME NEW ok \in BOOLEAN
      PROVE  Append(results, [op |-> g.op, ok |-> ok, msg |-> msg])
               \in Seq(Result)
  <2>1. [op |-> g.op, ok |-> ok, msg |-> msg] \in Result
    BY Zenon, GoroutineType DEF Result
  <2> QED
    BY <2>1 DEF TypeOK
<1> QED
  BY Zenon, <1>1 DEF TypeOK, Reports

\* CloseSend adds the end to what has been sent.
LEMMA EndSendType ==
  ASSUME TypeOK, EndSend
  PROVE  wire' \in Seq(0 .. MaxOps)
<1>1. wire \in Seq(0 .. MaxOps) /\ 0 \in 0 .. MaxOps
  BY StreamAssumption DEF TypeOK
<1>2. Append(wire, 0) \in Seq(0 .. MaxOps)
  BY <1>1
<1> QED
  BY Zenon, <1>1, <1>2 DEF EndSend

\* kick_off starts an operation with the next number.
LEMMA KickOffType ==
  ASSUME TypeOK, NEW kind \in Kind, NEW at \in {"start", "CloseSend", "Msg"},
         kick_off(kind, at)
  PROVE  /\ ops' \subseteq Goroutine /\ timer' \in Nat /\ busy' \in BOOLEAN
         /\ wait' \in 0 .. MaxOps /\ nops' \in 0 .. MaxOps
<1>1. nops + 1 \in 0 .. MaxOps /\ nops + 1 \in Op
  BY StreamAssumption DEF TypeOK, kick_off, Op
<1>2. [op |-> nops + 1, kind |-> kind, at |-> at] \in Goroutine
  BY <1>1 DEF Goroutine
<1>3. timer' \in Nat
  BY StreamAssumption DEF TypeOK, kick_off
<1>4. busy' \in BOOLEAN
  BY DEF kick_off
<1> QED
  BY <1>1, <1>2, <1>3, <1>4 DEF TypeOK, kick_off

\* The state of every stream has its type.
LEMMA TypeStep == TypeOK /\ [StreamNext]_vars => TypeOK'
<1> SUFFICES ASSUME TypeOK, [StreamNext]_vars PROVE TypeOK'
  OBVIOUS
<1> USE StreamAssumption
<1>1. CASE NewStream
  <2>1. kick_off("new_stream", "start")
    BY <1>1 DEF NewStream
  <2>2. /\ ops' \subseteq Goroutine /\ timer' \in Nat /\ busy' \in BOOLEAN
        /\ wait' \in 0 .. MaxOps /\ nops' \in 0 .. MaxOps
    BY <2>1, KickOffType DEF Kind
  <2> QED
    BY <1>1, <2>2 DEF NewStream, TypeOK
<1>2. ASSUME NEW kind \in Kind, StreamOp(kind) PROVE TypeOK'
  <2>1. \E at \in {"start", "CloseSend", "Msg"} : kick_off(kind, at)
    BY <1>2 DEF StreamOp
  <2>2. /\ ops' \subseteq Goroutine /\ timer' \in Nat /\ busy' \in BOOLEAN
        /\ wait' \in 0 .. MaxOps /\ nops' \in 0 .. MaxOps
    BY <2>1, KickOffType
  <2> QED
    BY <1>2, <2>2 DEF StreamOp, TypeOK
<1>3. CASE Close
  BY <1>3 DEF Close, CancelOnClose, ngxVars, TypeOK
<1>4. CASE Deliver
  <2>1. results' \in Seq(Result) /\ Head(results) \in Result
    BY <1>4 DEF Deliver, TypeOK
  <2>2. Head(results).msg \in 0 .. MaxOps
    BY <2>1 DEF Result
  <2>3. got' \in Seq(Op)
    <3>1. Head(results).msg > 0 => Head(results).msg \in Op
      BY <2>2 DEF Op
    <3>2. got' = got \/ /\ Head(results).msg > 0
                         /\ got' = Append(got, Head(results).msg)
      BY <1>4 DEF Deliver
    <3>3. got \in Seq(Op)
      BY DEF TypeOK
    <3> QED
      BY <3>1, <3>2, <3>3, AppendProperties
  <2>4. stream' \in {"none", "creating", "open", "closed", "lost"}
    BY <1>4 DEF Deliver, LuaGoesOn, TypeOK
  <2>5. done' \in BOOLEAN
    BY Zenon, <1>4 DEF Deliver, LuaGoesOn, CancelOnClose, TypeOK
  <2>6. busy' \in BOOLEAN
    BY Zenon, <1>4 DEF Deliver, TypeOK
  <2>7. wait' \in 0 .. MaxOps
    BY <1>4 DEF Deliver, TypeOK
  <2> QED
    BY <1>4, <2>1, <2>3, <2>4, <2>5, <2>6, <2>7 DEF Deliver, TypeOK
<1>5. CASE Timeout
  <2>1. stream' \in {"none", "creating", "open", "closed", "lost"}
    BY <1>5 DEF Timeout, TypeOK
  <2>2. wait' \in 0 .. MaxOps /\ cached' \in 0 .. now'
    BY <1>5 DEF Timeout, TypeOK
  <2> QED
    BY Zenon, <1>5, <2>1, <2>2 DEF Timeout, goVars, TypeOK
<1>6. CASE Kill
  BY <1>6 DEF Kill, goVars, TypeOK
<1>7. CASE UpdateTime
  BY <1>7 DEF UpdateTime, goVars, ngxVars, TypeOK
<1>8. CASE Tick
  BY <1>8 DEF Tick, goVars, ngxVars, TypeOK
<1>9. ASSUME NEW g \in ops, GoStep(g) PROVE TypeOK'
  <2> USE GoroutineType
  <2>1. CASE WithTimeout(g)
    <3>1. ops' \subseteq Goroutine
      BY Zenon, <2>1 DEF WithTimeout, Continues, TypeOK
    <3>2. deadline' \in Nat
      BY SMTT(40), <2>1 DEF WithTimeout, NoTime, TypeOK
    <3> QED
      BY <2>1, <3>1, <3>2 DEF WithTimeout, Continues, ngxVars, TypeOK
  <2>2. CASE OpFails(g)
    <3>1. ops' \subseteq Goroutine /\ results' \in Seq(Result)
      BY <2>2, ReportsType, 0 \in 0 .. MaxOps DEF OpFails
    <3>2. done' \in BOOLEAN
      BY <2>2 DEF OpFails, TypeOK
    <3> QED
      BY <2>2, <3>1, <3>2 DEF OpFails, Reports, ngxVars, TypeOK
  <2>3. CASE SendMsg(g)
    <3>1. ops' \subseteq Goroutine /\ results' \in Seq(Result)
      BY <2>3, ReportsType, 0 \in 0 .. MaxOps DEF SendMsg
    <3>2. wire' \in Seq(0 .. MaxOps)
      <4> DEFINE S == 0 .. MaxOps
      <4>0. wire \in Seq(S)
        BY DEF TypeOK
      <4>1. 0 \in S
        OBVIOUS
      <4>2. g.op \in S
        BY Zenon, GoroutineType
      <4> HIDE DEF S
      <4>3. <<g.op, 0>> \in Seq(S) /\ <<g.op>> \in Seq(S)
        BY <4>1, <4>2
      <4>4. wire \o <<g.op, 0>> \in Seq(S) /\ wire \o <<g.op>> \in Seq(S)
        BY <4>0, <4>3
      <4>5. wire' = wire \o <<g.op, 0>> \/ wire' = wire \o <<g.op>>
        BY <2>3 DEF SendMsg
      <4>6. wire' \in Seq(S)
        BY Zenon, <4>4, <4>5
      <4> QED
        BY <4>6 DEF S
    <3>3. sentLast' \in BOOLEAN
      BY <2>3 DEF SendMsg
    <3> QED
      BY <2>3, <3>1, <3>2, <3>3 DEF SendMsg, Reports, ngxVars, TypeOK
  <2>4. CASE CloseSend(g)
    <3>1. ops' \subseteq Goroutine /\ results' \in Seq(Result)
      BY <2>4, ReportsType, 0 \in 0 .. MaxOps DEF CloseSend
    <3>2. wire' \in Seq(0 .. MaxOps)
      BY <2>4, EndSendType DEF CloseSend
    <3> QED
      BY <2>4, <3>1, <3>2 DEF CloseSend, EndSend, Reports, ngxVars, TypeOK
  <2>5. CASE CloseSendFirst(g)
    <3>1. ops' \subseteq Goroutine
      BY Zenon, <2>5 DEF CloseSendFirst, Continues, TypeOK
    <3>2. wire' \in Seq(0 .. MaxOps)
      BY <2>5, EndSendType DEF CloseSendFirst
    <3> QED
      BY <2>5, <3>1, <3>2
      DEF CloseSendFirst, EndSend, Continues, ngxVars, TypeOK
  <2>6. CASE RecvMsg(g)
    <3>1. taken + 1 \in 0 .. MaxOps
      BY SMTT(40), <2>6 DEF RecvMsg, TypeOK
    <3>2. ops' \subseteq Goroutine /\ results' \in Seq(Result)
      BY Zenon, <2>6, <3>1, ReportsType DEF RecvMsg
    <3> QED
      BY <2>6, <3>1, <3>2 DEF RecvMsg, Reports, ngxVars, TypeOK
  <2> QED
    BY <1>9, <2>1, <2>2, <2>3, <2>4, <2>5, <2>6 DEF GoStep
<1>10. CASE DeadlineExceeded
  BY <1>10 DEF DeadlineExceeded, ngxVars, TypeOK
<1>11. CASE UNCHANGED vars
  BY <1>11 DEF vars, goVars, ngxVars, TypeOK
<1> QED
  BY <1>1, <1>2, <1>3, <1>4, <1>5, <1>6, <1>7, <1>8, <1>9, <1>10, <1>11
  DEF StreamNext

\* The state of a stream keeps its type, whatever order goroutines, timers,
\* aborts and results come in.
THEOREM TypeCorrect == StreamSpec => []TypeOK
<1>1. StreamInit => TypeOK
  <2> SUFFICES ASSUME StreamInit PROVE TypeOK
    OBVIOUS
  <2> USE StreamAssumption DEF StreamInit
  <2>1. msec \in Nat /\ deadline \in Nat
    BY DEF Msec, NoTime
  <2>2. done \in BOOLEAN /\ sentLast \in BOOLEAN /\ busy \in BOOLEAN
    BY Zenon
  <2>3. wire \in Seq(0 .. MaxOps) /\ got \in Seq(Op) /\ results \in Seq(Result)
    OBVIOUS
  <2> QED
    BY <2>1, <2>2, <2>3 DEF TypeOK
<1> QED
  BY <1>1, TypeStep, PTL DEF StreamSpec

----------------------------------------------------------------------------
\* Operations and results, of which there is one at most.
Idle == ops = {} /\ results = <<>>
Alone == \/ Idle
         \/ results = <<>> /\ \E g \in ops : ops = {g}
         \/ ops = {} /\ Len(results) = 1

\* How far the stream is, and what its waiting operation is.
Phases ==
  /\ stream = "none" => nops = 0 /\ wait = 0 /\ ~busy
  /\ stream # "none" => nops > 0
  /\ stream = "creating" => wait = 1
  /\ stream = "lost" => wait = 0
  /\ stream \in {"open", "closed"} => wait # 1
  /\ wait # 0 => busy

\* Where each of the two limits stands: the deadline is set by the goroutine
\* of new_stream and so counts from a time before its result is delivered;
\* a later operation's timer counts from a time after that.
Limits ==
  /\ stream \in {"open", "closed"} =>
       deadline <= cached + msec /\ \A g \in ops : g.at # "start"
  /\ stream = "creating" /\ (\A g \in ops : g.at # "start") =>
       deadline <= now + msec
  /\ stream = "none" \/ (\E g \in ops : g.at = "start") => deadline = NoTime
  /\ wait > 1 => deadline <= timer

\* No operation starts before the one before it has been delivered, unless
\* it could not be delivered to anybody; then none starts at all.
Turns ==
  /\ Alone
  /\ ~busy /\ stream # "lost" => Idle

StreamInv == Phases /\ (msec > 0 => Limits /\ (now < deadline => Turns))

\* What has been sent was sent by earlier operations, and the end is last.
WireInv ==
  /\ \A g \in ops : g.op = nops
  /\ \A i \in DOMAIN wire : /\ wire[i] <= nops
                            /\ \A g \in ops : wire[i] < nops
                            /\ wire[i] = 0 => sentLast /\ i = Len(wire)
  /\ \A i \in 2 .. Len(wire) : wire[i] = 0 \/ wire[i - 1] < wire[i]

\* Lua has every message that was taken, but for one that is on its way or
\* that nobody waited for, in which case the stream stays busy.
RecvInv ==
  /\ \A i \in DOMAIN got : got[i] = i
  /\ stream \in {"none", "creating", "lost"} =>
       /\ \A g \in ops : g.kind = "new_stream"
       /\ \A i \in DOMAIN results : results[i].msg = 0
       /\ taken = Len(got)
  /\ IF results = <<>> THEN ops # {} \/ ~busy => taken = Len(got)
     ELSE IF Head(results).msg = 0 THEN taken = Len(got)
     ELSE Head(results).msg = taken /\ taken = Len(got) + 1

OrderInv == Live => WireInv /\ RecvInv

\* What no goroutine changes.
LEMMA GoFrame ==
  ASSUME NEW g, GoStep(g)
  PROVE  UNCHANGED <<type, msec, now, stream, cached, wait, busy, timer,
                     nops, got>>
BY DEF GoStep, WithTimeout, OpFails, SendMsg, CloseSend, CloseSendFirst,
       RecvMsg, Reports, Continues, ngxVars

\* A goroutine goes on and reports nothing, or it ends with one result.
LEMMA GoTurns ==
  ASSUME NEW g \in ops, GoStep(g)
  PROVE  \/ /\ g.at # "start" /\ UNCHANGED deadline
            /\ ops' = ops \ {g}
            /\ \E res : results' = Append(results, res)
         \/ /\ g.at = "CloseSend" /\ UNCHANGED <<deadline, results>>
            /\ ops' = (ops \ {g}) \cup {[g EXCEPT !.at = "Msg"]}
         \/ /\ g.at = "start" /\ UNCHANGED results
            /\ deadline' = IF msec > 0 THEN now + msec ELSE NoTime
            /\ ops' = (ops \ {g}) \cup {[g EXCEPT !.at = "Msg"]}
BY DEF GoStep, WithTimeout, OpFails, SendMsg, CloseSend, CloseSendFirst,
       RecvMsg, Reports, Continues

\* Every step keeps the phases of the stream.
LEMMA PhasesStep == TypeOK /\ Phases /\ [StreamNext]_vars => Phases'
<1> SUFFICES ASSUME TypeOK, Phases, [StreamNext]_vars PROVE Phases'
  OBVIOUS
<1>0. nops \in Nat /\ wait \in Nat
  BY DEF TypeOK
<1> USE <1>0 DEF Phases
<1>1. CASE NewStream
  BY <1>1 DEF NewStream, kick_off
<1>2. ASSUME NEW kind \in Kind, StreamOp(kind) PROVE Phases'
  BY <1>2 DEF StreamOp, kick_off
<1>3. CASE Close
  BY <1>3 DEF Close, ngxVars
<1>4. CASE Deliver
  BY <1>4 DEF Deliver, LuaGoesOn
<1>5. CASE Timeout
  BY <1>5 DEF Timeout
<1>6. CASE Kill
  BY <1>6 DEF Kill
<1>7. CASE UpdateTime \/ Tick \/ DeadlineExceeded
  BY <1>7 DEF UpdateTime, Tick, DeadlineExceeded, ngxVars
<1>8. ASSUME NEW g \in ops, GoStep(g) PROVE Phases'
  BY <1>8, GoFrame
<1>9. CASE UNCHANGED vars
  BY <1>9 DEF vars, ngxVars
<1> QED
  BY <1>1, <1>2, <1>3, <1>4, <1>5, <1>6, <1>7, <1>8, <1>9 DEF StreamNext

\* Every step but a tick keeps the two limits apart.
LEMMA LimitsStep ==
  ASSUME TypeOK, Phases, msec > 0, Limits, now < deadline => Turns,
         [StreamNext]_vars
  PROVE  Limits'
<1>0. /\ nops \in Nat /\ wait \in Nat /\ now \in Nat /\ cached \in Nat
      /\ cached <= now /\ deadline \in Nat /\ timer \in Nat /\ msec \in Nat
      /\ now < NoTime /\ NoTime \in Nat
  BY StreamAssumption DEF TypeOK, NoTime
<1> USE <1>0 DEF Limits
<1>1. CASE NewStream
  <2>1. nops = 0 /\ stream' = "creating" /\ wait' = 1
    BY <1>1 DEF NewStream, kick_off, Phases
  <2>2. \E g \in ops' : g.at = "start"
    <3>1. [op |-> nops + 1, kind |-> "new_stream", at |-> "start"] \in ops'
      BY <1>1 DEF NewStream, kick_off
    <3> QED
      BY <3>1
  <2>3. deadline' = NoTime
    BY <1>1 DEF NewStream
  <2> QED
    BY <2>1, <2>2, <2>3
<1>2. ASSUME NEW kind \in Kind, StreamOp(kind) PROVE Limits'
  <2>1. stream = "open" /\ UNCHANGED <<stream, deadline, cached, msec, now>>
    BY <1>2 DEF StreamOp
  <2>2. timer' = cached + msec
    BY <1>2 DEF StreamOp, kick_off
  <2>3. \A g \in ops' : g \in ops \/ g.at # "start"
    BY <1>2 DEF StreamOp, kick_off
  <2> QED
    BY <2>1, <2>2, <2>3
<1>3. CASE Close
  BY <1>3 DEF Close, ngxVars
<1>4. CASE Deliver
  <2>1. /\ cached' = now /\ UNCHANGED <<now, msec, deadline, ops, timer>>
        /\ wait' = 0
    BY <1>4 DEF Deliver
  <2>2. CASE wait = 1
    <3>1. stream = "creating"
      BY <2>2 DEF Phases, TypeOK
    <3>2. stream' \in {"open", "lost"}
      BY <1>4, <2>2 DEF Deliver, LuaGoesOn
    <3>3. \A g \in ops : g.at # "start"
      BY <1>4 DEF Deliver, Turns, Alone, Idle
    <3> QED
      BY <2>1, <3>1, <3>2, <3>3
  <2>3. CASE wait # 1
    <3>1. stream' = stream \/ (stream = "open" /\ stream' = "closed")
      BY <1>4, <2>3 DEF Deliver, LuaGoesOn
    <3>2. stream # "creating"
      BY <2>3 DEF Phases
    <3> QED
      BY <2>1, <3>1, <3>2
  <2> QED
    BY <2>2, <2>3
<1>5. CASE Timeout
  BY <1>5 DEF Timeout, goVars
<1>6. CASE Kill
  BY <1>6 DEF Kill, goVars
<1>7. CASE UpdateTime \/ DeadlineExceeded
  BY <1>7 DEF UpdateTime, DeadlineExceeded, ngxVars, goVars
<1>8. CASE Tick
  BY <1>8 DEF Tick, ngxVars, goVars
<1>9. ASSUME NEW g \in ops, GoStep(g) PROVE Limits'
  <2>1. UNCHANGED <<type, msec, now, stream, cached, wait, timer>>
    BY <1>9, GoFrame
  <2>2. [g EXCEPT !.at = "Msg"].at = "Msg"
    BY GoroutineType DEF Goroutine
  <2>3. CASE g.at # "start"
    <3>1. deadline' = deadline
      BY <1>9, <2>3, GoTurns
    <3>2. \A h \in ops' : h.at = "start" => h \in ops
      BY Zenon, <1>9, <2>3, <2>2, GoTurns
    <3>3. (\A h \in ops' : h.at # "start") => \A h \in ops : h.at # "start"
      BY <1>9, <2>3, GoTurns
    <3> QED
      BY <2>1, <3>1, <3>2, <3>3
  <2>4. CASE g.at = "start"
    <3>1. deadline' = now + msec
      BY <1>9, <2>4, GoTurns
    <3>2. ops = {g}
      BY <2>4 DEF Turns, Alone, Idle
    <3>3. \A h \in ops' : h.at # "start"
      BY Zenon, <1>9, <2>4, <2>2, <3>2, GoTurns
    <3>4. stream # "none"
      BY <2>4 DEF Turns, Phases, Idle
    <3>5. stream \notin {"open", "closed"} /\ ~(wait > 1)
      BY <2>4 DEF Phases, TypeOK
    <3> QED
      BY <2>1, <3>1, <3>3, <3>4, <3>5
  <2> QED
    BY <2>3, <2>4
<1>10. CASE UNCHANGED vars
  BY <1>10 DEF vars, ngxVars, goVars
<1> QED
  BY <1>1, <1>2, <1>3, <1>4, <1>5, <1>6, <1>7, <1>8, <1>9, <1>10
  DEF StreamNext

\* A stream past its deadline stays there: the deadline is set once.
LEMMA LiveStep ==
  ASSUME TypeOK, Limits, [StreamNext]_vars, now' < deadline'
  PROVE  now < deadline
<1>0. /\ now \in Nat /\ deadline \in Nat /\ now < NoTime
  BY StreamAssumption DEF TypeOK, NoTime
<1>1. CASE \E g \in ops : g.at = "start"
  BY <1>0, <1>1 DEF Limits
<1>2. CASE \A g \in ops : g.at # "start"
  <2>1. deadline' = deadline /\ now <= now'
    <3>1. ASSUME NEW g \in ops, GoStep(g)
          PROVE  deadline' = deadline /\ now' = now
      BY <1>2, <3>1, GoTurns, GoFrame
    <3>2. CASE ~\E g \in ops : GoStep(g)
      BY <1>0, <3>2
      DEF StreamNext, NewStream, StreamOp, Close, Deliver, Timeout, Kill,
          UpdateTime, Tick, DeadlineExceeded, vars, goVars
    <3> QED
      BY <1>0, <3>1, <3>2
  <2>2. now' \in Nat
    BY TypeStep, StreamAssumption DEF TypeOK
  <2> QED
    BY <1>0, <2>1, <2>2
<1> QED
  BY <1>1, <1>2

\* Every step before the deadline leaves one operation or result at most.
LEMMA TurnsStep ==
  ASSUME TypeOK, Phases, msec > 0, Limits, now < deadline => Turns,
         [StreamNext]_vars, now' < deadline'
  PROVE  Turns'
<1>0. /\ wait \in Nat /\ now \in Nat /\ deadline \in Nat /\ timer \in Nat
      /\ msec \in Nat /\ now < NoTime
  BY StreamAssumption DEF TypeOK, NoTime
<1>1. now < deadline
  BY LiveStep
<1>2. Turns
  BY <1>1
<1> USE <1>2 DEF Turns
<1>3. ASSUME NEW kind, NEW at, Idle, kick_off(kind, at), UNCHANGED results
      PROVE  Turns'
  BY <1>3 DEF kick_off, Alone, Idle
<1>4. CASE NewStream
  BY <1>3, <1>4 DEF NewStream, Phases
<1>5. ASSUME NEW kind \in Kind, StreamOp(kind) PROVE Turns'
  BY <1>3, <1>5 DEF StreamOp
<1>6. CASE Close
  BY <1>6 DEF Close, Alone, Idle, ngxVars
<1>7. CASE Deliver
  <2>1. results # <<>> /\ results \in Seq(Result) /\ results' = Tail(results)
    BY <1>7 DEF Deliver, TypeOK
  <2>2. ops = {} /\ Len(results) = 1 /\ ops' = ops
    BY <1>7, <2>1 DEF Deliver, Alone, Idle
  <2>3. results' = <<>>
    BY <2>1, <2>2
  <2> QED
    BY <2>2, <2>3 DEF Alone, Idle
<1>8. CASE Timeout
  <2>1. wait = 1
    BY <1>0, <1>1, <1>8 DEF Timeout, Limits
  <2> QED
    BY <1>8, <2>1 DEF Timeout, goVars, Alone, Idle
<1>9. CASE Kill
  BY <1>9 DEF Kill, goVars, Alone, Idle, Phases
<1>10. CASE UpdateTime \/ Tick \/ DeadlineExceeded
  BY <1>10 DEF UpdateTime, Tick, DeadlineExceeded, ngxVars, goVars, Alone, Idle
<1>11. ASSUME NEW g \in ops, GoStep(g) PROVE Turns'
  <2>1. ops = {g} /\ results = <<>> /\ (busy \/ stream = "lost")
    BY DEF Alone, Idle
  <2>2. UNCHANGED <<busy, stream>>
    BY <1>11, GoFrame
  <2>3. \A res : Len(Append(<<>>, res)) = 1
    OBVIOUS
  <2> QED
    BY <1>11, <2>1, <2>2, <2>3, GoTurns DEF Alone, Idle
<1>12. CASE UNCHANGED vars
  BY <1>12 DEF vars, ngxVars, goVars, Alone, Idle
<1> QED
  BY <1>4, <1>5, <1>6, <1>7, <1>8, <1>9, <1>10, <1>11, <1>12 DEF StreamNext

\* A stream keeps its phases, its limits and, until its deadline, its turns.
LEMMA StreamInvCorrect == StreamSpec => []StreamInv
<1>1. StreamInit => StreamInv
  <2> SUFFICES ASSUME StreamInit PROVE StreamInv
    OBVIOUS
  <2>1. Phases
    BY DEF StreamInit, Phases
  <2>2. Limits
    BY DEF StreamInit, Limits
  <2>3. Turns
    BY DEF StreamInit, Turns, Alone, Idle
  <2> QED
    BY <2>1, <2>2, <2>3 DEF StreamInv
<1>2. TypeOK /\ StreamInv /\ [StreamNext]_vars => StreamInv'
  <2> SUFFICES ASSUME TypeOK, StreamInv, [StreamNext]_vars PROVE StreamInv'
    OBVIOUS
  <2>1. msec' = msec
    BY GoFrame
    DEF StreamNext, NewStream, StreamOp, Close, Deliver, Timeout, Kill,
        UpdateTime, Tick, DeadlineExceeded, vars
  <2> QED
    BY <2>1, PhasesStep, LimitsStep, TurnsStep DEF StreamInv
<1> QED
  BY <1>1, <1>2, TypeCorrect, PTL DEF StreamSpec

\* Until the deadline of a stream no two goroutines are inside grpc-go for
\* it, for every timeout and whatever times out or is aborted.
THEOREM TurnsCorrect == StreamSpec => []OneOpAtATime
<1>1. StreamInv => OneOpAtATime
  BY DEF StreamInv, Turns, Alone, Idle, OneOpAtATime, Live
<1> QED
  BY <1>1, StreamInvCorrect, PTL

----------------------------------------------------------------------------
\* Every step but a report or a closed direction leaves the wire alone.
LEMMA WireStep ==
  ASSUME TypeOK, Phases, Turns, WireInv, [StreamNext]_vars
  PROVE  WireInv'
<1>0. /\ nops \in Nat /\ wire \in Seq(0 .. MaxOps) /\ Len(wire) \in Nat
      /\ \A i \in DOMAIN wire : wire[i] \in Nat
  BY StreamAssumption DEF TypeOK
<1> USE <1>0
<1>1. ASSUME UNCHANGED <<wire, sentLast, nops>>, ops' \subseteq ops
      PROVE  WireInv'
  BY <1>1 DEF WireInv
<1>2. ASSUME NEW kind, NEW at, Idle, kick_off(kind, at),
             UNCHANGED <<wire, sentLast>>
      PROVE  WireInv'
  <2>1. nops' = nops + 1 /\ \A g \in ops' : g.op = nops'
    BY <1>2 DEF kick_off, Idle
  <2> QED
    BY <1>2, <2>1 DEF WireInv
<1>3. CASE NewStream
  BY <1>2, <1>3 DEF NewStream, Turns, Phases
<1>4. ASSUME NEW kind \in Kind, StreamOp(kind) PROVE WireInv'
  BY <1>2, <1>4 DEF StreamOp, Turns
<1>5. CASE \/ Close \/ Deliver \/ Timeout \/ Kill \/ UpdateTime \/ Tick
           \/ DeadlineExceeded \/ UNCHANGED vars
  BY <1>1, <1>5
  DEF Close, Deliver, Timeout, Kill, UpdateTime, Tick, DeadlineExceeded,
      ngxVars, goVars, vars
<1>6. ASSUME NEW g \in ops, GoStep(g) PROVE WireInv'
  <2>1. /\ ops = {g} /\ g.op = nops /\ nops > 0
        /\ \A i \in DOMAIN wire : wire[i] < nops
    <3>1. ops = {g} /\ g.op = nops
      BY DEF Turns, Alone, Idle, WireInv
    <3>2. nops > 0
      BY <3>1, GoroutineType DEF Op
    <3> QED
      BY <3>1, <3>2 DEF WireInv
  <2>2. nops' = nops
    BY <1>6, GoFrame
  <2>3. \A at : [g EXCEPT !.at = at].op = nops
    BY <2>1, GoroutineType DEF Goroutine
  <2>4. \A h \in ops' : h.op = nops
    BY Zenon, <1>6, <2>1, <2>3, GoTurns
  <2>5. CASE UNCHANGED <<wire, sentLast>>
    BY <2>1, <2>2, <2>4, <2>5 DEF WireInv
  <2>6. CASE EndSend
    <3>1. CASE wire' = wire
      BY <2>1, <2>2, <2>4, <2>6, <3>1 DEF WireInv, EndSend
    <3>2. CASE wire' # wire
      <4>1. wire' = Append(wire, 0) /\ sentLast' = TRUE /\ ~sentLast
        BY <2>6, <3>2 DEF EndSend
      <4>2. /\ Len(wire') = Len(wire) + 1 /\ DOMAIN wire' = 1 .. Len(wire')
            /\ \A i \in DOMAIN wire : wire'[i] = wire[i] /\ wire[i] # 0
            /\ wire'[Len(wire) + 1] = 0
        BY <4>1 DEF WireInv
      <4> QED
        BY <2>1, <2>2, <2>4, <4>1, <4>2 DEF WireInv
    <3> QED
      BY <3>1, <3>2
  <2>7. CASE SendMsg(g)
    <3>1. ~sentLast /\ ops' = {}
      BY <2>1, <2>7 DEF SendMsg, Reports
    <3>2. \A i \in DOMAIN wire : wire[i] # 0
      BY <3>1 DEF WireInv
    <3>3. CASE wire' = wire \o <<nops>>
      <4>1. /\ Len(wire') = Len(wire) + 1 /\ DOMAIN wire' = 1 .. Len(wire')
            /\ \A i \in DOMAIN wire : wire'[i] = wire[i]
            /\ wire'[Len(wire) + 1] = nops
        BY <3>3
      <4>2. \A i \in DOMAIN wire' : wire'[i] <= nops /\ wire'[i] # 0
        BY <2>1, <3>2, <4>1
      <4>3. ASSUME NEW i \in 2 .. Len(wire')
            PROVE  wire'[i] = 0 \/ wire'[i - 1] < wire'[i]
        <5>1. CASE i = Len(wire) + 1
          BY <2>1, <4>1, <5>1
        <5>2. CASE i \in 2 .. Len(wire)
          <6>1. i \in DOMAIN wire /\ i - 1 \in DOMAIN wire
            BY <5>2
          <6>2. wire'[i] = wire[i] /\ wire'[i - 1] = wire[i - 1]
            BY <4>1, <6>1
          <6>3. wire[i] = 0 \/ wire[i - 1] < wire[i]
            BY <5>2 DEF WireInv
          <6> QED
            BY <6>2, <6>3
        <5> QED
          BY <4>1, <5>1, <5>2
      <4> QED
        BY <2>2, <3>1, <4>2, <4>3 DEF WireInv
    <3>4. CASE wire' = wire \o <<nops, 0>> /\ sentLast'
      <4>1. /\ Len(wire') = Len(wire) + 2 /\ DOMAIN wire' = 1 .. Len(wire')
            /\ \A i \in DOMAIN wire : wire'[i] = wire[i]
            /\ wire'[Len(wire) + 1] = nops /\ wire'[Len(wire) + 2] = 0
        BY <3>4
      <4> QED
        BY SMTT(40), <2>1, <2>2, <3>1, <3>2, <3>4, <4>1 DEF WireInv
    <3> QED
      BY Zenon, <2>1, <2>7, <3>3, <3>4 DEF SendMsg
  <2> QED
    BY Zenon, <1>6, <2>5, <2>6, <2>7
    DEF GoStep, WithTimeout, OpFails, CloseSend, CloseSendFirst, RecvMsg
<1> QED
  BY <1>3, <1>4, <1>5, <1>6 DEF StreamNext

\* Every step leaves Lua with the messages taken so far, but for one.
LEMMA RecvStep ==
  ASSUME TypeOK, Phases, Limits, now < deadline, Turns, RecvInv,
         [StreamNext]_vars
  PROVE  RecvInv'
<1>0. /\ nops \in Nat /\ taken \in Nat /\ got \in Seq(Op) /\ Len(got) \in Nat
      /\ results \in Seq(Result)
  BY StreamAssumption DEF TypeOK
<1> USE <1>0
<1>1. CASE NewStream
  <2>1. Idle /\ ~busy
    BY <1>1 DEF NewStream, Turns, Phases
  <2>2. \A g \in ops' : g.kind = "new_stream"
    BY <1>1, <2>1 DEF NewStream, kick_off, Idle
  <2> QED
    BY <1>1, <2>1, <2>2 DEF NewStream, kick_off, Idle, RecvInv
<1>2. ASSUME NEW kind \in Kind, StreamOp(kind) PROVE RecvInv'
  <2>1. Idle /\ ~busy /\ stream' = "open"
    BY <1>2 DEF StreamOp, Turns
  <2> QED
    BY <1>2, <2>1 DEF StreamOp, Idle, RecvInv
<1>3. CASE \/ Close \/ UpdateTime \/ Tick \/ DeadlineExceeded
           \/ UNCHANGED vars
  BY SMTT(40), <1>3
  DEF Close, UpdateTime, Tick, DeadlineExceeded, ngxVars, goVars,
              vars, RecvInv
<1>4. CASE Kill
  <2>1. wait = 1 => stream = "creating"
    BY DEF Phases, TypeOK
  <2> QED
    BY <1>4, <2>1 DEF Kill, goVars, RecvInv
<1>5. CASE Timeout
  <2>1. wait = 1
    BY <1>5, StreamAssumption DEF Timeout, Limits, TypeOK
  <2>2. stream = "creating"
    BY <2>1 DEF Phases, TypeOK
  <2> QED
    BY <1>5, <2>1, <2>2 DEF Timeout, goVars, RecvInv
<1>6. CASE Deliver
  <2>1. /\ results # <<>> /\ ops = {} /\ Len(results) = 1
        /\ ops' = ops /\ taken' = taken /\ results' = Tail(results)
    BY <1>6 DEF Deliver, Turns, Alone, Idle
  <2>2. results' = <<>> /\ DOMAIN results' = {}
    BY <2>1
  <2>3. CASE wait = 0
    <3>1. UNCHANGED <<got, busy, stream>>
      BY <1>6, <2>3 DEF Deliver
    <3>2. ~busy => Head(results).msg = 0
      BY <2>1 DEF Turns, Idle, RecvInv
    <3> QED
      BY <2>1, <2>2, <3>1, <3>2 DEF RecvInv
  <2>4. CASE wait # 0
    <3>1. got' = IF Head(results).msg > 0 THEN Append(got, Head(results).msg)
                 ELSE got
      BY <1>6, <2>4 DEF Deliver
    <3>2. Head(results).msg \in Nat /\ Head(results).msg <= MaxOps
      <4>1. Head(results) \in Result
        BY <2>1
      <4> QED
        BY <4>1, StreamAssumption DEF Result
    <3>3. CASE Head(results).msg = 0
      BY <2>1, <2>2, <3>1, <3>3 DEF RecvInv
    <3>4. CASE Head(results).msg > 0
      <4>1. Head(results).msg \in Op
        BY <3>2, <3>4, StreamAssumption DEF Op
      <4>2. /\ Len(got') = Len(got) + 1 /\ DOMAIN got' = 1 .. Len(got')
            /\ \A i \in DOMAIN got : got'[i] = got[i]
            /\ got'[Len(got) + 1] = taken
        BY <2>1, <3>1, <3>4, <4>1 DEF RecvInv
      <4> QED
        BY SMTT(40), <2>1, <2>2, <3>4, <4>2 DEF RecvInv
    <3> QED
      BY <3>2, <3>3, <3>4
  <2> QED
    BY <2>3, <2>4
<1>7. ASSUME NEW g \in ops, GoStep(g) PROVE RecvInv'
  <2>1. ops = {g} /\ results = <<>>
    BY DEF Turns, Alone, Idle
  <2>2. UNCHANGED <<stream, busy, got>>
    BY <1>7, GoFrame
  <2>3. \A at : [g EXCEPT !.at = at].kind = g.kind
    BY GoroutineType DEF Goroutine
  <2>4. \A h \in ops' : h.kind = g.kind
    BY Zenon, <1>7, <2>1, <2>3, GoTurns
  <2>5. CASE UNCHANGED <<results, taken>>
    BY Zenon, <2>1, <2>2, <2>4, <2>5 DEF RecvInv
  <2>6. ASSUME NEW ok, UNCHANGED taken,
               results' = Append(results,
                                 [op |-> g.op, ok |-> ok, msg |-> 0])
        PROVE  RecvInv'
    <3>1. /\ results' # <<>>
          /\ Head(results') = [op |-> g.op, ok |-> ok, msg |-> 0]
          /\ DOMAIN results' = {1} /\ results'[1].msg = 0
      BY SMTT(40), <2>1, <2>6
    <3> QED
      BY <2>1, <2>2, <2>4, <2>6, <3>1 DEF RecvInv
  <2>7. CASE RecvMsg(g)
    <3>1. /\ g.kind = "recv" /\ taken' = taken + 1
          /\ results' = <<[op |-> g.op, ok |-> TRUE, msg |-> taken + 1]>>
      BY <2>1, <2>7 DEF RecvMsg, Reports
    <3>2. results' # <<>> /\ Head(results').msg = taken + 1
      BY <3>1
    <3> QED
      BY <2>1, <2>2, <2>4, <3>1, <3>2 DEF RecvInv
  <2> QED
    BY <1>7, <2>5, <2>6, <2>7
    DEF GoStep, WithTimeout, OpFails, SendMsg, CloseSend, CloseSendFirst,
        Reports, Continues
<1> QED
  BY <1>1, <1>2, <1>3, <1>4, <1>6, <1>7, <1>5 DEF StreamNext

\* Until its deadline a stream keeps both orders.
LEMMA OrderInvCorrect == StreamSpec => []OrderInv
<1>1. StreamInit => OrderInv
  BY DEF StreamInit, OrderInv, WireInv, RecvInv
<1>2. TypeOK /\ StreamInv /\ OrderInv /\ [StreamNext]_vars => OrderInv'
  <2> SUFFICES ASSUME TypeOK, StreamInv, OrderInv, [StreamNext]_vars, Live'
               PROVE  (WireInv /\ RecvInv)'
    BY Zenon DEF OrderInv
  <2>1. msec' = msec
    BY GoFrame
    DEF StreamNext, NewStream, StreamOp, Close, Deliver, Timeout, Kill,
        UpdateTime, Tick, DeadlineExceeded, vars
  <2>2. msec > 0 /\ now' < deadline'
    BY <2>1 DEF Live
  <2>3. now < deadline
    BY <2>2, LiveStep DEF StreamInv
  <2> QED
    BY <2>2, <2>3, WireStep, RecvStep DEF StreamInv, OrderInv, Live
<1> QED
  BY <1>1, <1>2, TypeCorrect, StreamInvCorrect, PTL DEF StreamSpec

\* Until the deadline the peer gets what was sent in order and nothing after
\* the end of the stream, although the engine orders no goroutines.
THEOREM WireCorrect == StreamSpec => []WireInOrder
<1>1. TypeOK /\ OrderInv => WireInOrder
  <2> SUFFICES ASSUME TypeOK, WireInv, NEW i \in 2 .. Len(wire)
               PROVE  wire[i - 1] # 0 /\ (wire[i] = 0 \/ wire[i - 1] < wire[i])
    BY DEF OrderInv, WireInOrder
  <2>1. i - 1 \in DOMAIN wire /\ i - 1 # Len(wire)
    BY DEF TypeOK
  <2> QED
    BY <2>1 DEF WireInv
<1> QED
  BY <1>1, TypeCorrect, OrderInvCorrect, PTL

\* Until the deadline Lua gets the peer's messages in order and without a
\* gap, whatever is aborted or dropped.
THEOREM RecvCorrect == StreamSpec => []RecvInOrder
<1>1. OrderInv => RecvInOrder
  BY DEF OrderInv, RecvInv, RecvInOrder
<1> QED
  BY <1>1, OrderInvCorrect, PTL
=============================================================================
