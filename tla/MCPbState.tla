----------------------------- MODULE MCPbState -----------------------------
(* PbState for TLC: the constants get their values in the .cfg file.       *)
EXTENDS PbState
=============================================================================
