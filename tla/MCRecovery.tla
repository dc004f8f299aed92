----------------------------- MODULE MCRecovery -----------------------------
(* Small instances of Recovery.                                             *)
EXTENDS Recovery, TLC

ProcessSymmetry == Permutations(Process)
=============================================================================
