---------------------------- MODULE MCInitWorker ----------------------------
(* InitWorker for TLC: words of six bits, of which the upper half are the  *)
(* negative numbers of C.                                                  *)
EXTENDS InitWorker

Calls == 1 .. MaxCalls
=============================================================================
