-------------------------- MODULE TaskQueueProofs --------------------------
(***************************************************************************)
(* TaskQueue keeps its results reachable, wakes its reader and implements  *)
(* Mailbox, for every set of task ids and all bounds; the tag of a result  *)
(* can be taken off; and a worker that makes blocking calls has a complete *)
(* engine, gets each call's own answer and frees its buffers.              *)
(***************************************************************************)
EXTENDS InitWorker, SequenceTheorems, TLAPS

\* Encode gives a result its type and keeps its id.
LEMMA EncodeType ==
  ASSUME NEW res \in TaskResult
  PROVE  Encode(res) \in TaskRes
BY DEF TaskResult, TaskRes, Encode, GrpcResType

\* So does encoding what Wait returns, result by result.
LEMMA EncodeAllType ==
  ASSUME NEW s \in Seq(TaskResult)
  PROVE  /\ EncodeAll(s) \in Seq(TaskRes)
         /\ Len(EncodeAll(s)) = Len(s)
BY EncodeType DEF EncodeAll

\* Encoding commutes with Append: what Done adds is added encoded.
LEMMA EncodeAllAppend ==
  ASSUME NEW s \in Seq(TaskResult), NEW res \in TaskResult
  PROVE  EncodeAll(Append(s, res)) = Append(EncodeAll(s), Encode(res))
<1>1. Len(Append(s, res)) = Len(s) + 1 /\ Len(EncodeAll(s)) = Len(s)
  BY EncodeAllType
<1>2. \A i \in 1 .. Len(s) : Append(s, res)[i] = s[i]
  OBVIOUS
<1>3. Append(s, res)[Len(s) + 1] = res
  OBVIOUS
<1> QED
  BY <1>1, <1>2, <1>3 DEF EncodeAll

\* A Wait that returns only because of its timer returns nothing.
LEMMA EncodeAllEmpty == EncodeAll(<<>>) = <<>>
BY DEF EncodeAll

----------------------------------------------------------------------------
\* The state of every queue has its type.
THEOREM TypeCorrect == Spec => []TypeOK
<1>1. Init => TypeOK
  <2> SUFFICES ASSUME Init PROVE TypeOK
    OBVIOUS
  <2>1. done \in BOOLEAN /\ timer \in BOOLEAN
    BY Zenon DEF Init
  <2>2. fired \in 0 .. MaxFired /\ reports \in 0 .. MaxReports
    BY BoundsAssumption DEF Init
  <2>3. tasks \in Seq(TaskResult) /\ out \in Seq(TaskRes)
    BY DEF Init
  <2> QED
    BY <2>1, <2>2, <2>3 DEF Init, TypeOK
<1>2. TypeOK /\ [Next]_vars => TypeOK'
  <2> SUFFICES ASSUME TypeOK, [Next]_vars PROVE TypeOK'
    OBVIOUS
  <2> USE BoundsAssumption DEF TypeOK
  <2>1. CASE WaitCall
    BY <2>1 DEF WaitCall
  <2>2. CASE WaitSleep
    BY <2>2 DEF WaitSleep
  <2>3. CASE WaitReturn
    <3>1. EncodeAll(tasks) \in Seq(TaskRes)
      BY EncodeAllType
    <3>2. done' \in BOOLEAN /\ timer' \in BOOLEAN
      BY Zenon, <2>3 DEF WaitReturn
    <3>3. tasks' \in Seq(TaskResult) /\ out' \in Seq(TaskRes)
      BY <2>3, <3>1 DEF WaitReturn
    <3> QED
      BY <2>3, <3>2, <3>3 DEF WaitReturn
  <2>4. CASE TimerFires
    <3>1. timer' \in BOOLEAN
      BY Zenon, <2>4 DEF TimerFires
    <3>2. fired' \in 0 .. MaxFired
      BY <2>4 DEF TimerFires
    <3> QED
      BY <2>4, <3>1, <3>2 DEF TimerFires
  <2>5. CASE TimerFunc
    BY <2>5 DEF TimerFunc, signal
  <2>6. ASSUME NEW res \in TaskResult, Done(res) PROVE TypeOK'
    BY <2>6 DEF Done, signal
  <2>7. CASE UNCHANGED vars
    BY <2>7 DEF vars
  <2> QED
    BY <2>1, <2>2, <2>3, <2>4, <2>5, <2>6, <2>7 DEF Next
<1> QED
  BY <1>1, <1>2, PTL DEF Spec

\* What keeps results from being forgotten and the reader from oversleeping:
\* the flag is set while results wait, and a caller of Wait that has not
\* collected yet still has a timer, or a fired one, or the flag, before it.
QueueInv ==
  /\ PendingIsSignalled
  /\ SleeperIsWoken
  /\ waiter \in {"entering", "woken"} => timer \/ fired > 0 \/ done

\* QueueInv is inductive: the timer functions of earlier calls of Wait may
\* set the flag, but none clears it or takes the timer of a later call.
LEMMA QueueInvCorrect == Spec => []QueueInv
<1>1. Init => QueueInv
  BY DEF Init, QueueInv, PendingIsSignalled, SleeperIsWoken
<1>2. TypeOK /\ QueueInv /\ [Next]_vars => QueueInv'
  <2> SUFFICES ASSUME TypeOK, QueueInv, [Next]_vars PROVE QueueInv'
    OBVIOUS
  <2> USE DEF TypeOK, QueueInv, PendingIsSignalled, SleeperIsWoken
  <2>1. CASE WaitCall
    BY <2>1 DEF WaitCall
  <2>2. CASE WaitSleep
    BY <2>2 DEF WaitSleep
  <2>3. CASE WaitReturn
    BY <2>3 DEF WaitReturn
  <2>4. CASE TimerFires
    BY <2>4, BoundsAssumption DEF TimerFires
  <2>5. CASE TimerFunc
    BY <2>5 DEF TimerFunc, signal
  <2>6. ASSUME NEW res \in TaskResult, Done(res) PROVE QueueInv'
    BY <2>6 DEF Done, signal
  <2>7. CASE UNCHANGED vars
    BY <2>7 DEF vars
  <2> QED
    BY <2>1, <2>2, <2>3, <2>4, <2>5, <2>6, <2>7 DEF Next
<1> QED
  BY <1>1, <1>2, TypeCorrect, PTL DEF Spec

\* Wait and Done forget no result: pending results are signalled, so that
\* the next Wait returns them at once.
THEOREM SignalCorrect == Spec => []PendingIsSignalled
<1>1. QueueInv => PendingIsSignalled
  BY DEF QueueInv
<1> QED
  BY <1>1, QueueInvCorrect, PTL

\* Wait and Done lose no wake-up: a sleeping caller of Wait has nothing to
\* fetch and will be woken.
THEOREM WakeCorrect == Spec => []SleeperIsWoken
<1>1. QueueInv => SleeperIsWoken
  BY DEF QueueInv
<1> QED
  BY <1>1, QueueInvCorrect, PTL

\* The queue implements the mailbox: every result is handed over once and in
\* order, whatever timers and signals do.
THEOREM Refinement == Spec => ImplementsMailbox
<1> DEFINE encoded == EncodeAll(tasks)
<1>1. Init => Box!Init
  BY EncodeAllEmpty DEF Init, Box!Init
<1>2. TypeOK /\ [Next]_vars => [Box!Next]_(Box!mailboxVars)
  <2> SUFFICES ASSUME TypeOK, [Next]_vars
               PROVE  [Box!Next]_(Box!mailboxVars)
    OBVIOUS
  <2> USE DEF Box!mailboxVars
  <2>1. CASE WaitCall
    BY <2>1 DEF WaitCall
  <2>2. CASE WaitSleep
    BY <2>2 DEF WaitSleep
  <2>3. CASE WaitReturn
    BY <2>3, EncodeAllEmpty DEF WaitReturn, Box!Next, Box!Collect
  <2>4. CASE TimerFires
    BY <2>4 DEF TimerFires
  <2>5. CASE TimerFunc
    BY <2>5 DEF TimerFunc, signal
  <2>6. ASSUME NEW res \in TaskResult, Done(res) PROVE Box!Next
    <3>1. EncodeAll(tasks)' = Append(EncodeAll(tasks), Encode(res))
      BY <2>6, EncodeAllAppend DEF Done, TypeOK
    <3>2. Box!Report(Encode(res))
      BY <2>6, <3>1 DEF Done, Box!Report
    <3> QED
      BY <3>2 DEF Box!Next
  <2>7. CASE UNCHANGED vars
    BY <2>7 DEF vars
  <2> QED
    BY <2>1, <2>2, <2>3, <2>4, <2>5, <2>6, <2>7 DEF Next
<1> QED
  BY <1>1, <1>2, TypeCorrect, PTL DEF Spec, ImplementsMailbox, Box!Spec
----------------------------------------------------------------------------
\* The word that carries a result to C gives back its type and the address
\* of its buffer, for every aligned address of either half of the address
\* space and every type (Wait of task.go, put_res and ngx_grpc_cli_call).
THEOREM TagCorrect ==
  ASSUME NEW p \in Address, NEW type \in Type
  PROVE  /\ Pack(p, type) \in Word
         /\ ResType(Pack(p, type)) = type
         /\ Buf(Pack(p, type)) = p
<1>1. /\ p \in Nat /\ p < 2 * Half /\ p % 8 = 0 /\ Half \in Nat
      /\ Half % 8 = 0 /\ type \in {0, 1, 2}
  BY WordAssumption DEF Address, Word, Type, GrpcResTypeOk, GrpcResTypeErr,
                        GrpcResTypeOkNotRes
<1>2. PICK q \in Nat, h \in Nat : p = 8 * q /\ Half = 8 * h
  <2>1. p = 8 * (p \div 8) /\ p \div 8 \in Nat
    BY <1>1
  <2>2. Half = 8 * (Half \div 8) /\ Half \div 8 \in Nat
    BY <1>1
  <2> QED
    BY <2>1, <2>2
<1>3. q < 2 * h
  BY <1>1, <1>2
<1>4. CASE q < h
  <2>1. Int64(p + type) = 8 * q + type
    BY <1>1, <1>2, <1>4 DEF Int64
  <2>2. (8 * q + type) % 8 = type /\ (8 * q + type) \div 8 = q
    BY <1>1, <1>2
  <2> QED
    BY <1>1, <1>2, <1>3, <2>1, <2>2
    DEF Pack, ResType, Buf, Pointer, Word
<1>5. CASE q >= h
  <2>1. Int64(p + type) = 8 * (q - 2 * h) + type
    BY <1>1, <1>2, <1>5 DEF Int64
  <2>2. /\ (8 * (q - 2 * h) + type) % 8 = type
        /\ (8 * (q - 2 * h) + type) \div 8 = q - 2 * h
    BY <1>1, <1>2
  <2> QED
    BY <1>1, <1>2, <1>3, <2>1, <2>2
    DEF Pack, ResType, Buf, Pointer, Word
<1> QED
  BY <1>3, <1>4, <1>5

----------------------------------------------------------------------------
\* What init_worker leaves behind, and who may have loaded the library.
LibInv ==
  /\ phase = "init_process" => ~gccf.engine
  /\ lib => gccf.engine /\ phase \notin {"init_process", "failed"}
  /\ gccf.engine /\ phase # "failed" => gccf.symbols = Symbols /\ gccf.task

\* Calls and answers alternate.
CallInv ==
  /\ Len(calls) \in {Len(answers), Len(answers) + 1}
  /\ Len(answers) < Len(calls) => phase \in {"init_worker", "aborted"}

\* No call is left and nothing is in the queue, or one call is and its result
\* is either in the engine or, signalled, in the queue.
InTurn ==
  /\ fired = 0 /\ heap = {}
  /\ IF Len(answers) = Len(calls)
     THEN running = {} /\ tasks = <<>> /\ ~done
     ELSE \/ running = {Len(calls)} /\ tasks = <<>> /\ ~done
          \/ /\ running = {} /\ done
             /\ Len(tasks) = 1 /\ tasks[1].id = Len(calls)

\* As long as every call has a deadline before the end of the wait, no call
\* gives up and results and calls take turns.
TurnInv ==
  /\ InTime(Len(calls)) /\ phase # "aborted" => InTurn
  /\ AnswerIsOwn

----------------------------------------------------------------------------
\* In init_worker, too, the queue is used as it is by the pool thread.
LEMMA QueueStep == [WorkerNext]_allVars => [Next]_vars
<1> SUFFICES ASSUME [WorkerNext]_allVars PROVE [Next]_vars
  OBVIOUS
<1>1. ASSUME NEW n \in Id, Report(n) PROVE Next
  BY <1>1 DEF Report, Next
<1>2. ASSUME NEW t \in Timeouts, StartBlockingCall(t) PROVE Next
  BY <1>2 DEF StartBlockingCall, Next
<1>3. CASE \/ InitSkips \/ InitFails \/ InitSucceeds \/ Require \/ Serve
           \/ UNCHANGED allVars
  BY <1>3 DEF InitSkips, InitFails, InitSucceeds, Require, Serve, allVars
<1>4. CASE WaitTimer \/ LateTimerFunc \/ WaitBlocks \/ WaitEnds
  BY <1>4 DEF WaitTimer, LateTimerFunc, WaitBlocks, WaitEnds, Next
<1> QED
  BY <1>1, <1>2, <1>3, <1>4 DEF WorkerNext

\* A worker that waits itself makes a legal use of the task queue, so that
\* what holds of the queue holds for its blocking calls.
THEOREM WorkerUsesQueue == WorkerSpec => Spec
<1>1. WorkerInit => Init
  BY DEF WorkerInit
<1> QED
  BY <1>1, QueueStep, PTL DEF WorkerSpec, Spec

\* What a blocking call returns has its type.
LEMMA TakeFirstType ==
  ASSUME WorkerTypeOK, NEW batch \in Seq(TaskRes), batch # <<>>,
         NEW buf \in [DOMAIN batch -> Malloc \cup {0}], TakeFirst(batch, buf)
  PROVE  /\ answers' \in Seq(Answer) /\ heap' \subseteq Address
         /\ phase' \in {phase, "aborted"}
<1>1. batch[1] \in TaskRes
  OBVIOUS
<1>2. 0 \in Address
  BY WordAssumption DEF Address, Word
<1>3. \A i \in DOMAIN batch : buf[i] \in Address
  BY <1>2, CallAssumption
<1>4. heap' \subseteq Address /\ phase' \in {phase, "aborted"}
  BY <1>3 DEF TakeFirst, Returns, WorkerTypeOK
<1>5. ASSUME NEW ok \in BOOLEAN
      PROVE  Append(answers, [op |-> batch[1].id, ok |-> ok]) \in Seq(Answer)
  <2>1. [op |-> batch[1].id, ok |-> ok] \in Answer
    BY <1>1 DEF Answer, TaskRes
  <2>2. answers \in Seq(Answer)
    BY DEF WorkerTypeOK
  <2> QED
    BY <2>1, <2>2, AppendProperties
<1>6. answers' \in Seq(Answer)
  <2> DEFINE w == Pack(buf[1], TypeOf(batch[1]))
             ok == ResType(w) = GrpcResTypeOk
  <2>1. \/ answers' = answers
        \/ answers' = Append(answers, [op |-> batch[1].id, ok |-> ok])
    BY DEF TakeFirst, Returns
  <2>2. ok \in BOOLEAN
    OBVIOUS
  <2> HIDE DEF ok
  <2> QED
    BY Zenon, <1>5, <2>1, <2>2 DEF WorkerTypeOK
<1> QED
  BY <1>4, <1>6

\* Every step of the worker keeps the types.
LEMMA WorkerTypeStep ==
  TypeOK' /\ WorkerTypeOK /\ [WorkerNext]_allVars => WorkerTypeOK'
<1> SUFFICES ASSUME TypeOK', WorkerTypeOK, [WorkerNext]_allVars
             PROVE  WorkerTypeOK'
  OBVIOUS
<1>0. MaxCalls \in Nat /\ Id = 1 .. MaxCalls
  BY CallAssumption
<1>1. CASE InitSkips \/ Require \/ Serve \/ UNCHANGED allVars
  BY Zenon, <1>1 DEF InitSkips, Require, Serve, allVars, workerVars, callVars,
              WorkerTypeOK
<1>2. CASE InitFails \/ InitSucceeds
  <2>1. gccf' \in [engine : BOOLEAN, symbols : 0 .. Symbols, task : BOOLEAN]
    <3>1. ASSUME NEW n \in 0 .. Symbols, NEW b \in BOOLEAN
          PROVE  [engine |-> TRUE, symbols |-> n, task |-> b]
                   \in [engine : BOOLEAN, symbols : 0 .. Symbols, task : BOOLEAN]
      OBVIOUS
    <3>2. Symbols \in 0 .. Symbols
      BY DEF Symbols
    <3> QED
      BY Zenon, <1>2, <3>1, <3>2 DEF InitFails, InitSucceeds, WorkerTypeOK
  <2> QED
    BY <1>2, <2>1 DEF InitFails, InitSucceeds, callVars, WorkerTypeOK
<1>3. ASSUME NEW t \in Timeouts, StartBlockingCall(t) PROVE WorkerTypeOK'
  <2>1. Msec(t) \in Nat
    BY CallAssumption DEF Msec
  <2>2. calls' \in Seq(Nat)
    BY <1>3, <2>1 DEF StartBlockingCall, WorkerTypeOK
  <2>3. running' \subseteq Id
    <3>1. Len(calls) \in Nat
      BY DEF WorkerTypeOK
    <3>2. Len(calls) + 1 \in Id
      BY <1>0, <1>3, <3>1 DEF StartBlockingCall
    <3> QED
      BY <1>3, <3>2 DEF StartBlockingCall, WorkerTypeOK
  <2> QED
    BY <1>3, <2>2, <2>3 DEF StartBlockingCall, workerVars, WorkerTypeOK
<1>4. ASSUME NEW n \in Id, Report(n) PROVE WorkerTypeOK'
  BY <1>4 DEF Report, workerVars, WorkerTypeOK
<1>5. CASE WaitTimer \/ LateTimerFunc \/ WaitBlocks
  BY <1>5 DEF WaitTimer, LateTimerFunc, WaitBlocks, workerVars, callVars,
              WorkerTypeOK
<1>6. CASE WaitEnds
  <2> DEFINE batch == EncodeAll(tasks)
  <2>1. batch \in Seq(TaskRes)
    BY EncodeAllType DEF WorkerTypeOK, TypeOK
  <2>2. /\ answers' \in Seq(Answer) /\ heap' \subseteq Address
        /\ phase' \in {phase, "aborted"}
    <3>1. CASE batch = <<>>
      <4>1. [op |-> 0, ok |-> FALSE] \in Answer
        BY DEF Answer
      <4>2. /\ answers' = Append(answers, [op |-> 0, ok |-> FALSE])
            /\ heap' = heap /\ phase' = phase
        BY <1>6, <3>1 DEF WaitEnds, Returns
      <4>3. answers \in Seq(Answer) /\ heap \subseteq Address
        BY DEF WorkerTypeOK
      <4> QED
        BY <4>1, <4>2, <4>3, AppendProperties
    <3>2. CASE batch # <<>>
      <4>1. PICK buf \in [DOMAIN batch -> Malloc \cup {0}] :
              TakeFirst(batch, buf)
        BY <1>6, <3>2 DEF WaitEnds
      <4> QED
        BY <2>1, <3>2, <4>1, TakeFirstType
    <3> QED
      BY <3>1, <3>2
  <2> QED
    BY <1>6, <2>2 DEF WaitEnds, WorkerTypeOK
<1> QED
  BY <1>1, <1>2, <1>3, <1>4, <1>5, <1>6 DEF WorkerNext

\* A worker's configuration, calls and answers keep their types.
THEOREM WorkerTypeCorrect == WorkerSpec => []WorkerTypeOK
<1>1. WorkerInit /\ TypeOK => WorkerTypeOK
  <2> SUFFICES ASSUME WorkerInit, TypeOK PROVE WorkerTypeOK
    OBVIOUS
  <2>1. gccf \in [engine : BOOLEAN, symbols : 0 .. Symbols, task : BOOLEAN]
    BY DEF WorkerInit, Symbols
  <2>2. calls \in Seq(Nat) /\ answers \in Seq(Answer)
    BY DEF WorkerInit
  <2> QED
    BY Zenon, <2>1, <2>2 DEF WorkerInit, WorkerTypeOK
<1> QED
  BY <1>1, WorkerTypeStep, WorkerUsesQueue, TypeCorrect, PTL DEF WorkerSpec

\* Where the Lua library is loaded, every symbol of the engine is resolved
\* and the thread's task exists, whatever step of init_worker has failed.
THEOREM LibraryCorrect == WorkerSpec => []LibraryReady
<1>1. WorkerInit => LibInv
  BY DEF WorkerInit, LibInv
<1>2. WorkerTypeOK /\ LibInv /\ [WorkerNext]_allVars => LibInv'
  <2> SUFFICES ASSUME WorkerTypeOK, LibInv, [WorkerNext]_allVars PROVE LibInv'
    OBVIOUS
  <2> USE DEF LibInv
  <2>1. CASE InitSkips \/ InitFails
    BY <2>1 DEF InitSkips, InitFails
  <2>2. CASE InitSucceeds
    BY <2>2 DEF InitSucceeds
  <2>3. CASE Require \/ Serve
    BY <2>3 DEF Require, Serve, is_engine_inited
  <2>4. ASSUME NEW t \in Timeouts, StartBlockingCall(t) PROVE LibInv'
    BY <2>4 DEF StartBlockingCall, workerVars
  <2>5. ASSUME NEW n \in Id, Report(n) PROVE LibInv'
    BY <2>5 DEF Report, workerVars
  <2>6. CASE WaitTimer \/ LateTimerFunc \/ WaitBlocks \/ UNCHANGED allVars
    BY <2>6 DEF WaitTimer, LateTimerFunc, WaitBlocks, allVars, workerVars
  <2>7. CASE WaitEnds
    <3>1. phase = "init_worker" /\ phase' \in {"init_worker", "aborted"}
      BY Zenon, <2>7 DEF WaitEnds, Busy, TakeFirst, Returns
    <3> QED
      BY <2>7, <3>1 DEF WaitEnds
  <2> QED
    BY <2>1, <2>2, <2>3, <2>4, <2>5, <2>6, <2>7 DEF WorkerNext
<1>3. LibInv => LibraryReady
  BY DEF LibInv, LibraryReady
<1> QED
  BY <1>1, <1>2, <1>3, WorkerTypeCorrect, PTL DEF WorkerSpec

----------------------------------------------------------------------------
\* Every step of the worker lets calls and answers alternate.
LEMMA CallStep == WorkerTypeOK /\ CallInv /\ [WorkerNext]_allVars => CallInv'
<1> SUFFICES ASSUME WorkerTypeOK, CallInv, [WorkerNext]_allVars PROVE CallInv'
  OBVIOUS
<1>0. calls \in Seq(Nat) /\ answers \in Seq(Answer)
  BY DEF WorkerTypeOK
<1>1. CASE InitSkips \/ InitFails \/ InitSucceeds \/ Require \/ Serve
  BY <1>1 DEF InitSkips, InitFails, InitSucceeds, Require, Serve, Busy,
              callVars, CallInv
<1>2. ASSUME NEW t \in Timeouts, StartBlockingCall(t) PROVE CallInv'
  <2>1. Len(calls') = Len(calls) + 1
    BY <1>0, <1>2 DEF StartBlockingCall
  <2> QED
    BY <1>0, <1>2, <2>1 DEF StartBlockingCall, Busy, workerVars, CallInv
<1>3. ASSUME NEW n \in Id, Report(n) PROVE CallInv'
  BY <1>3 DEF Report, workerVars, CallInv
<1>4. CASE WaitTimer \/ LateTimerFunc \/ WaitBlocks \/ UNCHANGED allVars
  BY <1>4 DEF WaitTimer, LateTimerFunc, WaitBlocks, workerVars, callVars,
              allVars, CallInv
<1>5. CASE WaitEnds
  <2>1. Busy /\ calls' = calls
    BY <1>5 DEF WaitEnds
  <2>2. \/ phase' = phase /\ Len(answers') = Len(answers) + 1
        \/ phase' = "aborted" /\ answers' = answers
    <3>1. ASSUME NEW answer, Returns(answer)
          PROVE  phase' = phase /\ Len(answers') = Len(answers) + 1
      BY <1>0, <3>1, LenProperties, AppendProperties DEF Returns
    <3> QED
      BY Zenon, <1>5, <3>1 DEF WaitEnds, TakeFirst
  <2> QED
    BY <1>0, <2>1, <2>2 DEF Busy, CallInv
<1> QED
  BY <1>1, <1>2, <1>3, <1>4, <1>5 DEF WorkerNext

\* A step that only adds to the calls, or leaves them alone, and leaves the
\* answers alone keeps each answer with its call.
LEMMA AnswersKept ==
  ASSUME WorkerTypeOK, CallInv, AnswerIsOwn, answers' = answers,
         \A m \in 1 .. Len(calls) : calls'[m] = calls[m]
  PROVE  AnswerIsOwn'
<1>1. /\ calls \in Seq(Nat) /\ answers \in Seq(Answer)
      /\ Len(answers) <= Len(calls)
  BY DEF WorkerTypeOK, CallInv
<1>2. ASSUME NEW n \in DOMAIN answers, InTime(n)' PROVE InTime(n)
  <2>1. \A m \in 1 .. n : m \in 1 .. Len(calls)
    BY <1>1
  <2> QED
    BY <1>2, <2>1 DEF InTime
<1> QED
  BY <1>2 DEF AnswerIsOwn

\* Nor do calls and results lose their turns: the steps of init_worker.
LEMMA InitTurn ==
  ASSUME TurnInv, UNCHANGED <<vars, callVars>>,
         phase # "aborted"
  PROVE  TurnInv'
BY DEF TurnInv, InTurn, InTime, AnswerIsOwn, vars, callVars

\* The wait of a call in turn ends with its own result and leaves the queue
\* empty and no buffer behind.
LEMMA EndTurn ==
  ASSUME WorkerTypeOK, CallInv, TurnInv, WaitEnds
  PROVE  TurnInv'
<1>0. /\ calls \in Seq(Nat) /\ answers \in Seq(Answer)
      /\ tasks \in Seq(TaskResult)
  BY DEF WorkerTypeOK, TypeOK
<1>1. /\ Busy /\ done /\ calls' = calls /\ running' = running
      /\ done' = FALSE /\ tasks' = <<>> /\ fired' = fired
      /\ phase # "aborted"
  BY DEF WaitEnds, WaitReturn, Busy
<1>2. Len(calls) = Len(answers) + 1
  BY <1>0, <1>1 DEF Busy, CallInv
<1>3. CASE ~InTime(Len(calls))
  <2>1. ASSUME NEW n \in DOMAIN answers', InTime(n)'
        PROVE  n \in DOMAIN answers /\ answers'[n] = answers[n]
    <3>1. \/ answers' = answers
          \/ \E answer : answers' = Append(answers, answer)
      BY Zenon DEF WaitEnds, TakeFirst, Returns
    <3>2. n # Len(calls)
      BY <1>1, <1>3, <2>1 DEF InTime
    <3>3. CASE answers' = answers
      BY <2>1, <3>3
    <3>4. ASSUME NEW answer, answers' = Append(answers, answer)
          PROVE  n \in DOMAIN answers /\ answers'[n] = answers[n]
      BY <1>0, <1>2, <2>1, <3>2, <3>4, LenProperties, AppendProperties
    <3> QED
      BY <3>1, <3>3, <3>4
  <2>2. AnswerIsOwn'
    BY <1>1, <2>1 DEF AnswerIsOwn, InTime, TurnInv
  <2> QED
    BY <1>1, <1>3, <2>2 DEF TurnInv, InTime
<1>4. CASE InTime(Len(calls))
  <2> DEFINE batch == EncodeAll(tasks)
  <2>1. /\ fired = 0 /\ heap = {} /\ running = {}
        /\ Len(tasks) = 1 /\ tasks[1].id = Len(calls)
    BY <1>0, <1>1, <1>2, <1>4 DEF TurnInv, InTurn
  <2>2. /\ batch \in Seq(TaskRes) /\ Len(batch) = 1
        /\ DOMAIN batch = {1} /\ batch[1] = Encode(tasks[1])
    <3>1. batch \in Seq(TaskRes) /\ Len(batch) = 1
      BY <1>0, <2>1, EncodeAllType
    <3> QED
      BY <2>1, <3>1 DEF EncodeAll
  <2>3. batch # <<>> /\ batch[1].id = Len(calls)
    BY <2>1, <2>2 DEF Encode
  <2> HIDE DEF batch
  <2>4. PICK buf \in [DOMAIN batch -> Malloc \cup {0}] :
          Allocated(batch, buf) /\ TakeFirst(batch, buf)
    BY <2>3 DEF WaitEnds, batch
  <2> DEFINE w == Pack(buf[1], TypeOf(batch[1]))
  <2>5. buf[1] \in Address /\ TypeOf(batch[1]) \in Type
    <3>1. 0 \in Address
      BY WordAssumption DEF Address, Word
    <3>2. batch[1] \in TaskRes
      BY <2>2
    <3>3. TypeOf(batch[1]) \in Type
      BY <3>2 DEF TaskRes, GrpcResType, TypeOf, Type
    <3> QED
      BY <2>2, <3>1, <3>3, CallAssumption
  <2>6. Buf(w) = buf[1] /\ ResType(w) = TypeOf(batch[1])
    BY <2>5, TagCorrect
  <2>7. CASE ResType(w) \in {GrpcResTypeOk, GrpcResTypeErr}
    <3> DEFINE answer == [op |-> batch[1].id, ok |-> ResType(w) = GrpcResTypeOk]
    <3>1. /\ answers' = Append(answers, answer) /\ phase' = phase
          /\ heap' = ((heap \cup {buf[i] : i \in DOMAIN batch}) \ {0})
                       \ {Buf(w)}
      BY <2>4, <2>7 DEF TakeFirst, Returns
    <3>2. heap' = {}
      BY <2>1, <2>2, <2>6, <3>1
    <3>3. answer.op = Len(calls)
      BY <2>3
    <3> HIDE DEF answer
    <3>4. Len(answers') = Len(calls)
      BY <1>0, <1>2, <3>1, LenProperties, AppendProperties
    <3>5. InTurn'
      BY <1>1, <2>1, <3>2, <3>4 DEF InTurn
    <3>6. ASSUME NEW n \in DOMAIN answers', InTime(n)'
          PROVE  answers'[n].op = n
      <4>1. CASE n = Len(calls)
        BY <1>0, <1>2, <3>1, <3>3, <4>1, LenProperties, AppendProperties
      <4>2. CASE n # Len(calls)
        <5>1. n \in DOMAIN answers /\ answers'[n] = answers[n]
          BY <1>0, <1>2, <3>1, <3>6, <4>2, LenProperties, AppendProperties
        <5>2. InTime(n)
          BY <1>1, <3>6 DEF InTime
        <5> QED
          BY <5>1, <5>2 DEF TurnInv, AnswerIsOwn
      <4> QED
        BY <4>1, <4>2
    <3> QED
      BY <3>5, <3>6 DEF TurnInv, AnswerIsOwn
  <2>8. CASE ResType(w) \notin {GrpcResTypeOk, GrpcResTypeErr}
    <3>1. phase' = "aborted" /\ answers' = answers
      BY <2>4, <2>8 DEF TakeFirst
    <3>2. AnswerIsOwn'
      BY <1>1, <3>1, AnswersKept DEF TurnInv
    <3> QED
      BY <3>1, <3>2 DEF TurnInv
  <2> QED
    BY <2>7, <2>8
<1> QED
  BY <1>3, <1>4

\* Every step keeps calls and results in turn.
LEMMA TurnStep ==
  WorkerTypeOK /\ CallInv /\ TurnInv /\ [WorkerNext]_allVars => TurnInv'
<1> SUFFICES ASSUME WorkerTypeOK, CallInv, TurnInv, [WorkerNext]_allVars
             PROVE  TurnInv'
  OBVIOUS
<1>0. /\ calls \in Seq(Nat) /\ answers \in Seq(Answer)
      /\ tasks \in Seq(TaskResult) /\ AnswerIsOwn
  BY DEF WorkerTypeOK, TypeOK, TurnInv
<1>1. CASE InitSkips \/ InitFails \/ InitSucceeds \/ Require \/ Serve
  BY <1>1, InitTurn DEF InitSkips, InitFails, InitSucceeds, Require, Serve
<1>2. ASSUME NEW t \in Timeouts, StartBlockingCall(t) PROVE TurnInv'
  <2>1. /\ Len(calls') = Len(calls) + 1 /\ answers' = answers
        /\ \A m \in 1 .. Len(calls) : calls'[m] = calls[m]
        /\ running' = running \cup {Len(calls) + 1} /\ heap' = heap
    BY <1>0, <1>2 DEF StartBlockingCall
  <2>2. UNCHANGED <<done, tasks, fired, phase>>
    BY <1>2 DEF StartBlockingCall, WaitCall, workerVars
  <2>3. AnswerIsOwn'
    BY <1>0, <2>1, AnswersKept
  <2>4. ASSUME InTime(Len(calls))', phase' # "aborted" PROVE InTurn'
    <3>1. InTime(Len(calls))
      BY <1>0, <2>1, <2>4 DEF InTime
    <3>2. Len(answers) = Len(calls)
      BY <1>0, <1>2 DEF StartBlockingCall, Busy, CallInv
    <3>3. InTurn
      BY <2>2, <2>4, <3>1 DEF TurnInv
    <3>4. fired = 0 /\ heap = {} /\ running = {} /\ tasks = <<>> /\ ~done
      BY <3>2, <3>3 DEF InTurn
    <3>5. Len(answers') # Len(calls')
      BY <1>0, <2>1, <3>2
    <3> QED
      BY <2>1, <2>2, <3>4, <3>5 DEF InTurn
  <2> QED
    BY <2>3, <2>4 DEF TurnInv
<1>3. ASSUME NEW n \in Id, Report(n) PROVE TurnInv'
  <2>1. PICK res \in TaskResult : res.id = n /\ Done(res)
    BY <1>3 DEF Report
  <2>2. /\ UNCHANGED <<phase, calls, answers, heap, fired>>
        /\ running' = running \ {n} /\ n \in running
        /\ tasks' = Append(tasks, res) /\ done'
    BY <1>3, <2>1 DEF Report, Done, signal, workerVars
  <2>3. AnswerIsOwn'
    BY <1>0, <2>2, AnswersKept
  <2>4. ASSUME InTime(Len(calls))', phase' # "aborted" PROVE InTurn'
    <3>1. InTurn
      BY <2>2, <2>4 DEF TurnInv, InTime
    <3>2. /\ fired = 0 /\ heap = {} /\ Len(answers) # Len(calls)
          /\ running = {Len(calls)} /\ tasks = <<>>
      BY <2>2, <3>1 DEF InTurn
    <3>3. n = Len(calls)
      BY <2>2, <3>2
    <3>4. Len(tasks') = 1 /\ tasks'[1] = res
      BY <2>2, <3>2
    <3> QED
      BY <2>1, <2>2, <3>2, <3>3, <3>4 DEF InTurn
  <2> QED
    BY <2>3, <2>4 DEF TurnInv
<1>4. CASE WaitTimer
  <2>1. ~InTime(Len(calls))
    <3>1. Len(calls) \in 1 .. Len(calls)
      BY <1>0, <1>4 DEF WaitTimer, Busy
    <3> QED
      BY <1>4, <3>1 DEF WaitTimer, InTime
  <2> QED
    BY <1>4, <2>1 DEF WaitTimer, TurnInv, AnswerIsOwn, InTime, callVars
<1>5. CASE LateTimerFunc
  <2>1. ~InTime(Len(calls))
    BY <1>5 DEF LateTimerFunc, TimerFunc, TurnInv, InTurn
  <2> QED
    BY <1>5, <2>1 DEF LateTimerFunc, TurnInv, AnswerIsOwn, InTime, callVars
<1>6. CASE WaitBlocks
  BY <1>6 DEF WaitBlocks, WaitSleep, TurnInv, InTurn, InTime, AnswerIsOwn,
              workerVars, callVars
<1>7. CASE WaitEnds
  BY <1>7, EndTurn
<1>8. CASE UNCHANGED allVars
  BY <1>8 DEF TurnInv, InTurn, InTime, AnswerIsOwn, vars, workerVars,
              callVars, allVars
<1> QED
  BY <1>1, <1>2, <1>3, <1>4, <1>5, <1>6, <1>7, <1>8 DEF WorkerNext

\* Calls alternate with answers and, as long as all deadlines come in time,
\* with results.
LEMMA TurnInvCorrect == WorkerSpec => [](CallInv /\ TurnInv)
<1>1. WorkerInit => CallInv /\ TurnInv
  <2> SUFFICES ASSUME WorkerInit PROVE CallInv /\ TurnInv
    OBVIOUS
  <2>1. Len(calls) = 0 /\ Len(answers) = 0 /\ DOMAIN answers = {}
    BY DEF WorkerInit
  <2> QED
    BY <2>1 DEF WorkerInit, Init, CallInv, TurnInv, InTurn, AnswerIsOwn
<1> QED
  BY <1>1, CallStep, TurnStep, WorkerTypeCorrect, PTL DEF WorkerSpec

\* A blocking call returns its own answer, although it takes whatever result
\* comes first, if every call so far has a deadline before the end of the
\* wait.
THEOREM AnswerCorrect == WorkerSpec => []AnswerIsOwn
<1>1. TurnInv => AnswerIsOwn
  BY DEF TurnInv
<1> QED
  BY <1>1, TurnInvCorrect, PTL

\* Each buffer of a blocking call is freed, its address got back from the
\* tagged word, whichever addresses malloc returns.
THEOREM BuffersCorrect == WorkerSpec => []BuffersFreed
<1>1. TurnInv => BuffersFreed
  BY DEF TurnInv, InTurn, BuffersFreed
<1> QED
  BY <1>1, TurnInvCorrect, PTL

=============================================================================
