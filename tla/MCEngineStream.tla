--------------------------- MODULE MCEngineStream ---------------------------
(* EngineStream for TLC: the constants get their values in the .cfg file.  *)
EXTENDS EngineStream
=============================================================================
