---------------------------- MODULE MCSolverDaemon ----------------------------
(* TLC instances of SolverDaemon. *)
EXTENDS SolverDaemon, TLC

Symmetry == Permutations(Blocks) \cup Permutations(ActiveWorkers)
===============================================================================
