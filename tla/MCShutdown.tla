----------------------------- MODULE MCShutdown -----------------------------
(* Model of Shutdown for TLC.                                               *)
EXTENDS Shutdown
=============================================================================
