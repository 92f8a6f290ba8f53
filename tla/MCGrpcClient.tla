---------------------------- MODULE MCGrpcClient ----------------------------
EXTENDS GrpcClient, TLC

CONSTANTS k1, k2, r1, r2

\* Each coroutine is a request of its own, or both are light threads of r1.
TwoRequests == [k \in Co |-> IF k = k1 THEN r1 ELSE r2]
OneRequest == [k \in Co |-> r1]

\* Swapping the requests swaps their coroutines.
SwapRequests == (k1 :> k2) @@ (k2 :> k1) @@ (r1 :> r2) @@ (r2 :> r1)
SameRequests == (k1 :> k1) @@ (k2 :> k2) @@ (r1 :> r1) @@ (r2 :> r2)

Symmetry == {p @@ q : p \in Permutations(Sctx),
                      q \in {SwapRequests, SameRequests}}
LightThreads == {p @@ q @@ c : p \in Permutations(Sctx), q \in Permutations(Co),
                             c \in Permutations(Conn)}
=============================================================================
