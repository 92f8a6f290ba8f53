------------------------------ MODULE Mailbox ------------------------------
(***************************************************************************)
(* What the engine's queue of finished tasks promises to its one reader,   *)
(* the nginx side: every reported result is handed over once, in the order *)
(* of the reports, and a read takes everything that is pending.  Nothing   *)
(* is said of how the reader waits.                                        *)
(***************************************************************************)
EXTENDS Sequences

CONSTANT Item

VARIABLES pending,      \* reported, not yet read
          delivered     \* everything handed to the reader, in order

mailboxVars == <<pending, delivered>>

Init == pending = <<>> /\ delivered = <<>>

Report(x) ==
  /\ pending' = Append(pending, x)
  /\ UNCHANGED delivered

Collect ==
  /\ delivered' = delivered \o pending
  /\ pending' = <<>>

Next == (\E x \in Item : Report(x)) \/ Collect

Spec == Init /\ [][Next]_mailboxVars
=============================================================================
