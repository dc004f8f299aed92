-------------------------- MODULE MCSingleInstance --------------------------
EXTENDS SingleInstance, TLC

Symmetry == Permutations(FastPads) \cup Permutations(Captures)
=============================================================================
