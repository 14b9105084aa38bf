----------------------------- MODULE DatabaseMC -----------------------------
(* Instances of Database for TLC. *)
EXTENDS Database, TLC

ThreadSymmetry == Permutations(Threads)
=============================================================================
