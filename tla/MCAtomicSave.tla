---------------------------- MODULE MCAtomicSave ----------------------------
(* Small instances of AtomicSave. No symmetry: one of them checks liveness. *)
EXTENDS AtomicSave
=============================================================================
