---------------------------- MODULE MCTaskQueue ----------------------------
(* TaskQueue for TLC: the constants get their values in the .cfg files.    *)
EXTENDS TaskQueue
=============================================================================
