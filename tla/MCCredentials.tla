--------------------------- MODULE MCCredentials ---------------------------
(* Credentials for TLC: identifiers of one kind are interchangeable.        *)
EXTENDS Credentials, TLC

Symmetry ==
    Permutations(Challenges) \cup Permutations(Tickets)
        \cup Permutations(Keys) \cup Permutations(Reqs) \cup Permutations(Verifiers)
=============================================================================
