------------------------------- MODULE Calls -------------------------------
(***************************************************************************)
(* What a worker promises the coroutines that make calls (an operation on  *)
(* a stream is a call here as well).  Every call has one answer to come.   *)
(* A call returns with its own answer or, since tasks have no identity of  *)
(* their own, with the answer of a call whose caller has given up; the     *)
(* answer is then used up.  No other answer than that of a caller that has *)
(* given up is ever dropped, unless memory runs out.                       *)
(***************************************************************************)
EXTENDS Naturals

CONSTANTS Co,     \* coroutines
          Lossy   \* whether answers may be lost

VARIABLES waits,    \* the number of the call a coroutine waits for, or 0
          coming,   \* calls whose answer is neither used nor dropped
          started,  \* number of calls started
          up        \* the process has not faulted

vars == <<waits, coming, started, up>>

Init ==
  /\ waits = [k \in Co |-> 0]
  /\ coming = {}
  /\ started = 0
  /\ up = TRUE

\* The caller of n has given up.
Abandoned(n) == \A k \in Co : waits[k] # n

Start(k) ==
  /\ waits[k] = 0
  /\ started' = started + 1
  /\ waits' = [waits EXCEPT ![k] = started + 1]
  /\ coming' = coming \cup {started + 1}
  /\ UNCHANGED up

Return(k) ==
  /\ waits[k] # 0
  /\ \E n \in coming : /\ n = waits[k] \/ Abandoned(n)
                       /\ coming' = coming \ {n}
  /\ waits' = [waits EXCEPT ![k] = 0]
  /\ UNCHANGED <<started, up>>

\* A timeout or an abort.
GiveUp(k) ==
  /\ waits[k] # 0
  /\ waits' = [waits EXCEPT ![k] = 0]
  /\ UNCHANGED <<coming, started, up>>

Drop ==
  /\ \E n \in coming : Abandoned(n) /\ coming' = coming \ {n}
  /\ UNCHANGED <<waits, started, up>>

Lose ==
  /\ Lossy
  /\ coming' \subseteq coming
  /\ UNCHANGED <<waits, started, up>>

\* Nothing is promised of a process that faults, but that it stops.
Crash == up' = FALSE

Next ==
  /\ up
  /\ \/ \E k \in Co : Start(k) \/ Return(k) \/ GiveUp(k)
     \/ Drop \/ Lose \/ Crash

Spec == Init /\ [][Next]_vars
=============================================================================
