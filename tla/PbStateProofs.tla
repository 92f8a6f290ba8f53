--------------------------- MODULE PbStateProofs ---------------------------
(***************************************************************************)
(* The Lua library leaves the state of lua-protobuf to its other users and *)
(* finds its own types in every call, for any definitions, any number of   *)
(* loads that succeed, fail or raise an error, and any calls in progress.  *)
(***************************************************************************)
EXTENDS PbState, TLAPS

\* What the library knows of its own state, whether or not a load has raised
\* an error: it is not the one of the other users, it has been kept by a load
\* that initialised the compiler, and the types of every service that a call
\* can find, or has found, are in it.
LibraryInv ==
  /\ current_pb_state # Home
  /\ current_pb_state # 0 => /\ protoc_inst
                             /\ "descriptor" \in types[current_pb_state]
                             /\ index \subseteq types[current_pb_state]
  /\ index # {} => current_pb_state # 0
  /\ \A c \in pending : c.service \in index

\* The inductive invariant.
PbInv == TypeOK /\ StateRestored /\ LibraryInv /\ CallsFindTypes

\* The state that load installs exists and is not that of the other users.
LEMMA LoadStateType ==
  ASSUME PbInv, Create
  PROVE  /\ LoadState \in State \ {Home}
         /\ created' \in State
         /\ Fresh => current_pb_state = 0
         /\ TypesForLoad \in SUBSET Known
         /\ types[LoadState] \subseteq TypesForLoad
         /\ TypesForLoad \subseteq types[LoadState] \cup {"descriptor"}
<1>1. /\ created \in Nat /\ 1 <= created /\ created <= MaxStates
      /\ MaxStates \in Nat /\ types \in [State -> SUBSET Known]
      /\ current_pb_state \in 0 .. MaxStates
  BY ProtoAssumption DEF PbInv, TypeOK, State
<1>2. Fresh => current_pb_state = 0
  BY DEF Fresh, PbInv, LibraryInv
<1>3. created' \in State
  BY <1>1 DEF Create, State
<1>4. LoadState \in State \ {Home}
  BY <1>1 DEF LoadState, Create, Fresh, State, Home, PbInv, LibraryInv
<1>5. types[LoadState] \in SUBSET Known
  BY <1>1, <1>4
<1> QED
  BY <1>2, <1>3, <1>4, <1>5 DEF TypesForLoad, Known

\* A load adds the types T to the state it installs, but for those of the
\* other users.
LEMMA LoadTypes ==
  ASSUME PbInv, Create, NEW T \in SUBSET Known,
         types' = [types EXCEPT ![LoadState] = T],
         types[LoadState] \subseteq T, "other" \in T => "other" \in types[LoadState]
  PROVE  /\ types' \in [State -> SUBSET Known]
         /\ types'[LoadState] = T
         /\ types'[Home] = types[Home]
         /\ \A s \in State : types[s] \subseteq types'[s]
         /\ \A s \in State : "other" \in types'[s] => "other" \in types[s]
<1>1. LoadState \in State \ {Home} /\ types \in [State -> SUBSET Known]
  BY LoadStateType DEF PbInv, TypeOK
<1>2. Home \in State
  BY ProtoAssumption DEF Home, State
<1> QED
  BY <1>1, <1>2

\* Every step preserves the invariant.
LEMMA PbStep == PbInv /\ [Next]_vars => PbInv'
<1> SUFFICES ASSUME PbInv, [Next]_vars PROVE PbInv'
  OBVIOUS
<1>0. TypeOK /\ StateRestored /\ LibraryInv /\ CallsFindTypes
  BY DEF PbInv
<1>a. Home \in State /\ current_pb_state \in 0 .. MaxStates
      /\ (current_pb_state # 0 => current_pb_state \in State)
  BY <1>0, ProtoAssumption DEF Home, State, TypeOK
<1>1. ASSUME NEW p \in Proto, LoadFails(p) PROVE PbInv'
  <2>0. /\ Create /\ protoc_inst' = TRUE
        /\ types' = [types EXCEPT ![LoadState] = TypesForLoad]
        /\ UNCHANGED <<pb, int64, index, current_pb_state, pending, bad, raised>>
    BY <1>1 DEF LoadFails
  <2>1. /\ types' \in [State -> SUBSET Known]
        /\ types'[Home] = types[Home]
        /\ \A s \in State : types[s] \subseteq types'[s]
        /\ \A s \in State : "other" \in types'[s] => "other" \in types[s]
    BY <2>0, LoadStateType, LoadTypes
  <2>2. TypeOK'
    BY <1>0, <2>0, <2>1, LoadStateType DEF TypeOK
  <2>3. StateRestored'
    BY <1>0, <2>0, <2>1 DEF StateRestored
  <2>4. LibraryInv'
    BY <1>0, <1>a, <2>0, <2>1 DEF LibraryInv
  <2> QED
    BY <1>0, <2>0, <2>2, <2>3, <2>4 DEF PbInv, CallsFindTypes
<1>2. ASSUME NEW p \in Proto, LoadRaises(p) PROVE PbInv'
  <2>0. /\ Create /\ protoc_inst' = TRUE /\ pb' = LoadState /\ raised' = TRUE
        /\ types' = [types EXCEPT ![LoadState] = TypesForLoad \cup {p}]
        /\ UNCHANGED <<int64, index, current_pb_state, pending, bad>>
    BY <1>2 DEF LoadRaises
  <2>1. /\ types' \in [State -> SUBSET Known]
        /\ \A s \in State : types[s] \subseteq types'[s]
    <3>1. TypesForLoad \cup {p} \in SUBSET Known
      BY <2>0, LoadStateType DEF Known
    <3>2. "other" \in TypesForLoad \cup {p} => "other" \in types[LoadState]
      BY <2>0, LoadStateType, ProtoAssumption
    <3> QED
      BY <2>0, <3>1, <3>2, LoadStateType, LoadTypes
  <2>2. TypeOK'
    BY <1>0, <2>0, <2>1, LoadStateType DEF TypeOK
  <2>3. StateRestored'
    BY <2>0 DEF StateRestored
  <2>4. LibraryInv'
    BY <1>0, <1>a, <2>0, <2>1 DEF LibraryInv
  <2> QED
    BY <1>0, <2>0, <2>2, <2>3, <2>4 DEF PbInv, CallsFindTypes
<1>3. ASSUME NEW p \in Proto, LoadSucceeds(p) PROVE PbInv'
  <2>0. /\ Create /\ Compiles(p) /\ protoc_inst' = TRUE
        /\ types' = [types EXCEPT ![LoadState] = TypesForLoad \cup {p}]
        /\ index' = index \cup {p} /\ current_pb_state' = LoadState
        /\ UNCHANGED <<pb, int64, pending, bad, raised>>
    BY <1>3 DEF LoadSucceeds
  <2>1. /\ types' \in [State -> SUBSET Known]
        /\ types'[LoadState] = TypesForLoad \cup {p}
        /\ types'[Home] = types[Home]
        /\ \A s \in State : "other" \in types'[s] => "other" \in types[s]
    <3>1. TypesForLoad \cup {p} \in SUBSET Known
      BY <2>0, LoadStateType DEF Known
    <3>2. "other" \in TypesForLoad \cup {p} => "other" \in types[LoadState]
      BY <2>0, LoadStateType, ProtoAssumption
    <3> QED
      BY <2>0, <3>1, <3>2, LoadStateType, LoadTypes
  <2>2. TypeOK'
    BY <1>0, <2>0, <2>1, LoadStateType DEF TypeOK, State
  <2>3. StateRestored'
    BY <1>0, <2>0, <2>1 DEF StateRestored
  <2>4. index \subseteq types[LoadState]
    BY <1>0, <2>0, LoadStateType DEF LibraryInv, LoadState, Fresh
  <2>5. "descriptor" \in TypesForLoad
    BY <2>0 DEF Compiles
  <2>6. LibraryInv'
    <3>1. LoadState # Home /\ LoadState # 0
      BY <2>0, LoadStateType DEF State
    <3>2. index' \subseteq types'[LoadState]
      BY <2>0, <2>1, <2>4, LoadStateType
    <3>3. \A c \in pending' : c.service \in index'
      BY <1>0, <2>0 DEF LibraryInv
    <3> QED
      BY <2>0, <2>1, <2>5, <3>1, <3>2, <3>3 DEF LibraryInv, Home
  <2> QED
    BY <1>0, <2>0, <2>2, <2>3, <2>6 DEF PbInv, CallsFindTypes
<1>4. ASSUME NEW c \in Call, Encode(c) \/ Decode(c) PROVE PbInv'
  <2>0. /\ load_state(c.service, c.enc)
        /\ UNCHANGED <<pb, types, created, protoc_inst, index,
                       current_pb_state, raised>>
        /\ c.service \in index /\ c.service \in Proto /\ c.enc \in Encodings
        /\ pending' \subseteq pending \cup {c}
    BY <1>0, <1>4 DEF Encode, Decode, LibraryInv, Call
  <2>1. current_pb_state \in State \ {Home}
        /\ c.service \in types[current_pb_state]
    BY <1>0, <1>a, <2>0 DEF LibraryInv
  <2>2. /\ int64' \in [State -> Encodings \cup {"default", "other"}]
        /\ int64'[Home] = int64[Home] /\ int64'[current_pb_state] = c.enc
    BY <1>0, <1>a, <2>0, <2>1 DEF load_state, TypeOK
  <2>3. TypeOK'
    <3>1. bad' \in BOOLEAN
      BY <2>0 DEF load_state
    <3>2. pending' \subseteq Call
      BY <1>0, <2>0 DEF TypeOK
    <3> QED
      BY <1>0, <2>0, <2>2, <3>1, <3>2 DEF TypeOK
  <2>4. StateRestored'
    BY <1>0, <2>0, <2>2 DEF StateRestored
  <2>5. LibraryInv'
    BY <1>0, <2>0 DEF LibraryInv
  <2>6. CallsFindTypes'
    BY <1>0, <2>0, <2>1, <2>2 DEF CallsFindTypes, load_state
  <2> QED
    BY <2>3, <2>4, <2>5, <2>6 DEF PbInv
<1>5. CASE OtherLoads
  <2>0. /\ types' = [types EXCEPT ![pb] = @ \cup {"other"}]
        /\ UNCHANGED <<pb, int64, created, protoc_inst, index,
                       current_pb_state, pending, bad, raised>>
    BY <1>5 DEF OtherLoads
  <2>1. /\ types' \in [State -> SUBSET Known]
        /\ \A s \in State : types[s] \subseteq types'[s]
    BY <1>0, <2>0 DEF TypeOK, Known
  <2>2. TypeOK'
    BY <1>0, <2>0, <2>1 DEF TypeOK
  <2>3. StateRestored'
    BY <1>0, <1>a, <2>0 DEF StateRestored, TypeOK
  <2>4. LibraryInv'
    BY <1>0, <1>a, <2>0, <2>1 DEF LibraryInv
  <2> QED
    BY <1>0, <2>0, <2>2, <2>3, <2>4 DEF PbInv, CallsFindTypes
<1>6. CASE UNCHANGED vars
  BY <1>0, <1>6 DEF PbInv, TypeOK, StateRestored, LibraryInv, CallsFindTypes,
                    vars, pbVars
<1> QED
  BY <1>1, <1>2, <1>3, <1>4, <1>5, <1>6 DEF Next

\* The invariant holds in every state.
LEMMA PbInvCorrect == Spec => []PbInv
<1>1. Init => PbInv
  <2> SUFFICES ASSUME Init PROVE PbInv
    OBVIOUS
  <2>1. Home \in State /\ 0 \in 0 .. MaxStates
    BY ProtoAssumption DEF Home, State
  <2>2. TypeOK
    BY <2>1 DEF Init, TypeOK, Home, Known
  <2>3. StateRestored
    BY <2>1 DEF Init, StateRestored
  <2>4. LibraryInv
    BY DEF Init, LibraryInv, Home
  <2> QED
    BY <2>2, <2>3, <2>4 DEF PbInv, Init, CallsFindTypes
<1> QED
  BY <1>1, PbStep, PTL DEF Spec

\* load and load_state keep the types of their state: pb.state always gives
\* back a state that exists.
THEOREM TypeCorrect == Spec => []TypeOK
<1>1. PbInv => TypeOK
  BY DEF PbInv
<1> QED
  BY <1>1, PbInvCorrect, PTL

\* Every way out of load but the error it does not catch, and every encode
\* and decode, leaves the state of the other users of lua-protobuf installed
\* and as it was.
THEOREM RestoredCorrect == Spec => []StateRestored
<1>1. PbInv => StateRestored
  BY DEF PbInv
<1> QED
  BY <1>1, PbInvCorrect, PTL

\* A call finds its types and its own option when it encodes and when it
\* decodes, whatever loads and calls come in between.
THEOREM TypesCorrect == Spec => []CallsFindTypes
<1>1. PbInv => CallsFindTypes
  BY DEF PbInv
<1> QED
  BY <1>1, PbInvCorrect, PTL

\* The state a successful load has kept can compile the next definition.
THEOREM LoadsCorrect == Spec => []CanLoadAgain
<1>1. PbInv => CanLoadAgain
  BY DEF PbInv, LibraryInv, CanLoadAgain
<1> QED
  BY <1>1, PbInvCorrect, PTL
=============================================================================
