------------------------------- MODULE ResTag -------------------------------
(***************************************************************************)
(* A result travels from Go to C as one word: the address of its buffer    *)
(* with the type of the result in the low three bits (task.go packs it,    *)
(* ngx_grpc_client.c unpacks it in three places).  C shifts the word as an *)
(* int64_t, so that an address in the upper half is a negative number.     *)
(***************************************************************************)
EXTENDS Integers

CONSTANT Half   \* half the number of words: 2^63 on the machines supported

ASSUME WordAssumption == Half \in Nat /\ Half >= 8 /\ Half % 8 = 0

Word == 0 .. 2 * Half - 1

\* C.CBytes allocates with malloc, which aligns; 0 is the nil pointer.
Address == {p \in Word : p % 8 = 0}

GrpcResTypeOk == 0
GrpcResTypeErr == 1
GrpcResTypeOkNotRes == 2
Type == {GrpcResTypeOk, GrpcResTypeErr, GrpcResTypeOkNotRes}

\* uintptr | type, the address having its low bits clear.
Pack(p, type) == p + type

\* The casts between u_char * and int64_t.
Int64(w) == IF w < Half THEN w ELSE w - 2 * Half
Pointer(i) == IF i < 0 THEN i + 2 * Half ELSE i

\* (int64_t) buf & 7
ResType(w) == Int64(w) % 8

\* Mutated form of Buf: the type is left in the address.
KeepsTag(w) == Pointer(Int64(w))

\* (u_char *) ((int64_t) buf >> 3 << 3)
Buf(w) == Pointer((Int64(w) \div 8) * 8)
=============================================================================
