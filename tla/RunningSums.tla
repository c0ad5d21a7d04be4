---------------------------- MODULE RunningSums ----------------------------
(***************************************************************************)
(* What a loop over rows adds up, oldest first.                            *)
(***************************************************************************)
EXTENDS Integers

\* The running sums of f, which is a function on some 0..n.
Sums(f) ==
    LET sum[a \in DOMAIN f] == IF a = 0 THEN f[0] ELSE sum[a - 1] + f[a] IN sum
=============================================================================
