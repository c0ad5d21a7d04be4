------------------------------- MODULE MCRoom -------------------------------
(* Small instances of Room for TLC.                                        *)
EXTENDS Room, TLC

\* Sockets are interchangeable: no definition of Room names one.
Symmetry == Permutations(Sockets)
=============================================================================
