------------------------------ MODULE PbState ------------------------------
(***************************************************************************)
(* The Lua library's use of lua-protobuf, which keeps one state (the types *)
(* it knows, and how it converts int64) for a whole Lua VM and lets its    *)
(* users exchange it: pb.state(s) installs s, or a fresh state for nil,    *)
(* and returns the one before.  load and load_state of grpc.lua install    *)
(* the library's state and have to put the old one back, because other Lua *)
(* code of the worker uses lua-protobuf as well.                           *)
(*                                                                         *)
(* load runs to its end without a yield, and so does load_state around an  *)
(* encode or a decode; between the two a call yields and anything may run. *)
(***************************************************************************)
EXTENDS Naturals, FiniteSets

CONSTANTS Proto,      \* definitions to load, each with a service of its name
          Broken,     \* those that do not compile
          NoPackage,  \* those without a package statement
          Encodings,  \* values of opt.int64_encoding
          MaxStates,  \* bound: states ever created
          MaxCalls    \* bound: calls in progress

\* "other" stands for the types that other Lua code loads.
ASSUME ProtoAssumption == /\ Broken \subseteq Proto /\ NoPackage \subseteq Proto
                          /\ "other" \notin Proto
                          /\ MaxStates \in Nat \ {0} /\ MaxCalls \in Nat

VARIABLES pb,                \* the installed state
          types, int64,      \* what a state knows, and its option
          created,           \* number of states created
          protoc_inst,       \* protoc_inst is not nil
          index,             \* services that calls can find
          current_pb_state,  \* the library's state, 0 for nil
          pending,           \* calls that have encoded and yielded
          bad,               \* a call has not found its type
          raised             \* load has raised an error

pbVars == <<pb, types, int64, created>>
vars == <<pbVars, protoc_inst, index, current_pb_state, pending, bad, raised>>

State == 1 .. MaxStates
Home == 1                    \* the state that the other Lua code uses

\* "descriptor": the types protoc needs to compile, put there by its reload.
Known == Proto \cup {"descriptor", "other"}

Call == [service : Proto, enc : Encodings]

TypeOK ==
  /\ pb \in State /\ created \in State
  /\ types \in [State -> SUBSET Known]
  /\ int64 \in [State -> Encodings \cup {"default", "other"}]
  /\ protoc_inst \in BOOLEAN /\ index \subseteq Proto
  /\ current_pb_state \in 0 .. MaxStates
  /\ pending \subseteq Call
  /\ bad \in BOOLEAN /\ raised \in BOOLEAN

Init ==
  /\ pb = Home /\ created = 1
  /\ types = [s \in State |-> IF s = Home THEN {"other"} ELSE {}]
  /\ int64 = [s \in State |-> IF s = Home THEN "other" ELSE "default"]
  /\ protoc_inst = FALSE /\ index = {} /\ current_pb_state = 0
  /\ pending = {} /\ bad = FALSE /\ raised = FALSE

----------------------------------------------------------------------------
\* load.

\* The state load installs: fresh for the first load, and as long as no load
\* has succeeded.
Fresh == ~protoc_inst \/ current_pb_state = 0
LoadState == IF Fresh THEN created + 1 ELSE current_pb_state
Create == /\ ~Fresh \/ created < MaxStates
          /\ created' = IF Fresh THEN created + 1 ELSE created

\* Only the first load calls protoc.reload().
TypesForLoad == IF protoc_inst THEN types[LoadState]
                ELSE types[LoadState] \cup {"descriptor"}

Compiles(p) == p \notin Broken /\ "descriptor" \in TypesForLoad

\* Mutated form of LoadFails: the old state is not put back.
FailsWithoutRestore(p) ==
  /\ Create
  /\ ~Compiles(p)
  /\ protoc_inst' = TRUE
  /\ types' = [types EXCEPT ![LoadState] = TypesForLoad]
  /\ pb' = LoadState
  /\ UNCHANGED <<int64, index, current_pb_state, pending, bad, raised>>

\* protoc raises an error, which load catches; it puts the old state back.
LoadFails(p) ==
  /\ Create
  /\ ~Compiles(p)
  /\ protoc_inst' = TRUE
  /\ types' = [types EXCEPT ![LoadState] = TypesForLoad]
  /\ UNCHANGED <<pb, int64, index, current_pb_state, pending, bad, raised>>

\* The name of the service cannot be put together without a package: an
\* error that load does not catch, with its own state installed.
LoadRaises(p) ==
  /\ Create
  /\ Compiles(p) /\ p \in NoPackage
  /\ protoc_inst' = TRUE
  /\ types' = [types EXCEPT ![LoadState] = TypesForLoad \cup {p}]
  /\ pb' = LoadState
  /\ raised' = TRUE
  /\ UNCHANGED <<int64, index, current_pb_state, pending, bad>>

\* Mutated form of LoadSucceeds: the old state is put back before the
\* library's state is taken, so that the wrong one is kept.
SavesOldState(p) ==
  /\ Create
  /\ Compiles(p) /\ p \notin NoPackage
  /\ protoc_inst' = TRUE
  /\ types' = [types EXCEPT ![LoadState] = TypesForLoad \cup {p}]
  /\ index' = index \cup {p}
  /\ current_pb_state' = pb
  /\ UNCHANGED <<pb, int64, pending, bad, raised>>

\* Mutated form of LoadSucceeds: every load starts from a fresh state.
SavesFreshState(p) ==
  /\ created < MaxStates /\ created' = created + 1
  /\ Compiles(p) /\ p \notin NoPackage
  /\ protoc_inst' = TRUE
  /\ types' = [types EXCEPT ![created + 1] = {p}]
  /\ index' = index \cup {p}
  /\ current_pb_state' = created + 1
  /\ UNCHANGED <<pb, int64, pending, bad, raised>>

LoadSucceeds(p) ==
  /\ Create
  /\ Compiles(p) /\ p \notin NoPackage
  /\ protoc_inst' = TRUE
  /\ types' = [types EXCEPT ![LoadState] = TypesForLoad \cup {p}]
  /\ index' = index \cup {p}
  /\ current_pb_state' = LoadState
  /\ UNCHANGED <<pb, int64, pending, bad, raised>>

----------------------------------------------------------------------------
\* Calls.

\* load_state: in the library's state, with the option of this call, the
\* message of a service is encoded or decoded.  A call finds its service in
\* the index first, so that current_pb_state is not nil.
load_state(service, enc) ==
  /\ int64' = [int64 EXCEPT ![current_pb_state] = enc]
  /\ bad' = (bad \/ service \notin types[current_pb_state])

Encode(c) ==
  /\ c.service \in index /\ c \notin pending
  /\ Cardinality(pending) < MaxCalls
  /\ load_state(c.service, c.enc)
  /\ pending' = pending \cup {c}
  /\ UNCHANGED <<pb, types, created, protoc_inst, index, current_pb_state,
                 raised>>

\* The call's result has come.
Decode(c) ==
  /\ c \in pending /\ pending' = pending \ {c}
  /\ load_state(c.service, c.enc)
  /\ UNCHANGED <<pb, types, created, protoc_inst, index, current_pb_state,
                 raised>>

\* Other Lua code loads its types.
OtherLoads ==
  /\ types' = [types EXCEPT ![pb] = @ \cup {"other"}]
  /\ UNCHANGED <<pb, int64, created, protoc_inst, index, current_pb_state,
                 pending, bad, raised>>

Next ==
  \/ \E p \in Proto : LoadFails(p) \/ LoadRaises(p) \/ LoadSucceeds(p)
  \/ \E c \in Call : Encode(c) \/ Decode(c)
  \/ OtherLoads

Spec == Init /\ [][Next]_vars

----------------------------------------------------------------------------
\* Other users of lua-protobuf find their state as they left it, and their
\* types do not end up in the library's, whatever loads fail and calls
\* interleave, unless load has raised an error (load, load_state).
StateRestored ==
  ~raised => /\ pb = Home /\ int64[Home] = "other"
             /\ types[Home] = {"other"}
             /\ \A s \in State \ {Home} : "other" \notin types[s]

\* A service that a call can find has its types in the library's state when
\* the call encodes and, after any number of loads, when it decodes (load,
\* Conn:call, load_state).
CallsFindTypes == ~bad

\* Once a load has succeeded, the next one can: the state that is kept can
\* compile, whatever has failed or been raised since (load).
CanLoadAgain ==
  current_pb_state # 0 => "descriptor" \in types[current_pb_state]
=============================================================================
