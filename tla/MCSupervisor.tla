---------------------------- MODULE MCSupervisor ----------------------------
(* Model of Supervisor for TLC.                                             *)
EXTENDS Supervisor, TLC

CallerSymmetry == Permutations(Callers) \cup Permutations(Pids)
=============================================================================
