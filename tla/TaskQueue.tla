----------------------------- MODULE TaskQueue -----------------------------
(***************************************************************************)
(* The queue of finished tasks of the gRPC engine, task/task.go: goroutines *)
(* call Done, and one caller at a time (the nginx pool thread, or the      *)
(* worker itself in init_worker) calls Wait.                               *)
(*                                                                         *)
(* The mutex makes each critical section one step; cond.Wait is the only   *)
(* place that gives the mutex up in the middle.  The function of the       *)
(* AfterFunc timer runs in a goroutine of its own: once the timer has      *)
(* fired, Stop no longer prevents it, and it may still be waiting for the  *)
(* mutex when the Wait that armed it has returned.                         *)
(***************************************************************************)
EXTENDS Naturals, Sequences

CONSTANTS Id,          \* task ids
          MaxReports,  \* bound: calls of Done
          MaxFired     \* bound: fired timer functions that have not yet run

ASSUME BoundsAssumption == MaxReports \in Nat /\ MaxFired \in Nat

VARIABLES done, tasks,   \* the fields of taskQueue
          waiter,        \* where the caller of Wait is
          timer,         \* the timer of the current Wait is running
          fired,         \* timer functions started and not yet finished
          out,           \* every result Wait has returned, in order
          reports        \* number of calls of Done so far

vars == <<done, tasks, waiter, timer, fired, out, reports>>

\* A taskResult: "nil" stands for the nil slice, err for a non-nil error.
TaskResult == [id : Id, result : {"nil", "bytes"}, err : BOOLEAN]

\* What C gets of a result.
GrpcResType == {"Ok", "Err", "OkNotRes"}
TaskRes == [id : Id, type : GrpcResType]

\* Mutated form of Encode: the pointer is passed on without a tag.
Untagged(res) == [id |-> res.id,
                  type |-> IF res.err THEN "Err" ELSE res.result]

\* The record Wait hands to C for one result, with its type.
Encode(res) ==
  [id   |-> res.id,
   type |-> IF res.err THEN "Err"
            ELSE IF res.result = "nil" THEN "OkNotRes" ELSE "Ok"]

EncodeAll(s) == [i \in 1 .. Len(s) |-> Encode(s[i])]

TypeOK ==
  /\ done \in BOOLEAN
  /\ tasks \in Seq(TaskResult)
  /\ waiter \in {"none", "entering", "asleep", "woken"}
  /\ timer \in BOOLEAN
  /\ fired \in 0 .. MaxFired
  /\ out \in Seq(TaskRes)
  /\ reports \in 0 .. MaxReports

Init ==
  /\ done = FALSE /\ tasks = <<>>
  /\ waiter = "none" /\ timer = FALSE /\ fired = 0
  /\ out = <<>> /\ reports = 0

\* Mutated forms of signal: no cond.Signal, done not set.
DropSignal ==
  /\ done' = TRUE
  /\ UNCHANGED waiter
SetNoDone ==
  /\ waiter' = IF waiter = "asleep" THEN "woken" ELSE waiter
  /\ UNCHANGED done

\* signal, called with the mutex held: the waiter leaves cond.Wait and has
\* to take the mutex again.
signal ==
  /\ done' = TRUE
  /\ waiter' = IF waiter = "asleep" THEN "woken" ELSE waiter

\* Mutated form of WaitCall: the timer is not armed.
NoTimer ==
  /\ waiter = "none" /\ waiter' = "entering"
  /\ UNCHANGED <<done, tasks, timer, fired, out, reports>>

\* Wait is called: it arms its timer before it takes the mutex.
WaitCall ==
  /\ waiter = "none" /\ waiter' = "entering"
  /\ timer' = TRUE
  /\ UNCHANGED <<done, tasks, fired, out, reports>>

\* Wait holds the mutex and finds done unset: cond.Wait.
WaitSleep ==
  /\ waiter \in {"entering", "woken"}
  /\ ~done
  /\ waiter' = "asleep"
  /\ UNCHANGED <<done, tasks, timer, fired, out, reports>>

\* Mutated form of WaitReturn: the results stay in the queue.
KeepTasks ==
  /\ waiter \in {"entering", "woken"}
  /\ done
  /\ done' = FALSE /\ timer' = FALSE
  /\ out' = out \o EncodeAll(tasks)
  /\ waiter' = "none"
  /\ UNCHANGED <<tasks, fired, reports>>

\* Wait holds the mutex and finds done set: it takes every result there is,
\* stops its timer (which does nothing if it has fired) and returns.
WaitReturn ==
  /\ waiter \in {"entering", "woken"}
  /\ done
  /\ done' = FALSE /\ timer' = FALSE
  /\ out' = out \o EncodeAll(tasks)
  /\ tasks' = <<>>
  /\ waiter' = "none"
  /\ UNCHANGED <<fired, reports>>

\* The timer of the current Wait fires: its function starts.
TimerFires ==
  /\ timer /\ fired < MaxFired
  /\ timer' = FALSE
  /\ fired' = fired + 1
  /\ UNCHANGED <<done, tasks, waiter, out, reports>>

\* The function of some fired timer gets the mutex.
TimerFunc ==
  /\ fired > 0 /\ fired' = fired - 1
  /\ signal
  /\ UNCHANGED <<tasks, timer, out, reports>>

\* A goroutine reports a finished task.
Done(res) ==
  /\ reports < MaxReports /\ reports' = reports + 1
  /\ tasks' = Append(tasks, res)
  /\ signal
  /\ UNCHANGED <<timer, fired, out>>

Next ==
  \/ WaitCall \/ WaitSleep \/ WaitReturn
  \/ TimerFires \/ TimerFunc
  \/ \E res \in TaskResult : Done(res)

Spec == Init /\ [][Next]_vars

\* A caller that has entered Wait gets the mutex, a timer fires in the end
\* and its function runs; whether and when anything is reported, or Wait is
\* called again, is left open.
Fairness == WF_vars(WaitSleep) /\ WF_vars(WaitReturn)
            /\ WF_vars(TimerFires) /\ WF_vars(TimerFunc)

FairSpec == Spec /\ Fairness

\* The caller of Wait calls it again and again, as the pool thread does as
\* long as the worker has tasks to wait for.
PollingSpec == FairSpec /\ WF_vars(WaitCall)

----------------------------------------------------------------------------
\* A result is never left behind a cleared flag: whenever results are
\* pending, done is set, so the next Wait returns them at once (Done and
\* Wait of task.go, whatever the stale timers do).
PendingIsSignalled == tasks # <<>> => done

\* No lost wake-up: a caller asleep in cond.Wait has nothing to fetch, and
\* its own timer, or the function of a fired one, will still wake it (Wait).
SleeperIsWoken ==
  waiter = "asleep" => ~done /\ tasks = <<>> /\ (timer \/ fired > 0)

\* Every call of Wait returns, result or not, because of its timer (Wait).
WaitReturns == (waiter # "none") ~> (waiter = "none")

\* A reported result reaches the caller as long as Wait is called again
\* (Done, Wait).
ReportIsDelivered ==
  \A n \in 1 .. MaxReports : (reports = n) ~> (Len(out) >= n)

\* The queue is a mailbox: each result handed over once, in order, with its
\* type, and a Wait leaves nothing behind (Wait and Done together).
Box == INSTANCE Mailbox
         WITH Item <- {Encode(r) : r \in TaskResult},
              pending <- EncodeAll(tasks), delivered <- out

ImplementsMailbox == Box!Spec
=============================================================================
