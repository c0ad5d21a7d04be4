---------------------------- MODULE MCDashboard ----------------------------
(* Dashboard for TLC: a wide bin and a narrow one, interchangeable ticks.    *)
EXTENDS Dashboard, TLC

MCBounds == <<19, 20>>
Symmetry == Permutations(Slots)
=============================================================================
