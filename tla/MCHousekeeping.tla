--------------------------- MODULE MCHousekeeping ---------------------------
(* Housekeeping for TLC: sockets and contexts are interchangeable.         *)
EXTENDS Housekeeping, TLC

Symmetry == Permutations(Sockets) \cup Permutations(Contexts)
=============================================================================
