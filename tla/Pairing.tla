------------------------------ MODULE Pairing ------------------------------
(***************************************************************************)
(* What a room promises, with nothing of how it is done: two slots, so     *)
(* many attempts whenever a mac comes, and a room that is established or   *)
(* not.  Room implements it (Room, ImplementsPairing).                     *)
(*                                                                         *)
(* A slot is the set of connections that hold it: none or one.  The only   *)
(* way into a slot is to take it, newest first, and taking one slot leaves *)
(* the other alone.  A connection may be over before its admission; then   *)
(* its predecessor has gone for nothing and the slot is left empty.        *)
(***************************************************************************)
EXTENDS Naturals

CONSTANTS
    Connections,
    MaxAttempts      \* phones an unestablished room lets try before a mac
                     \*   has to come again

VARIABLES
    slot,            \* per role: who holds it
    attempts,        \* phones that joined the unestablished room since then
    established

vars == <<slot, attempts, established>>

Sides == {"mac", "phone"}
Vacant == [r \in Sides |-> {}]
Occupants == {{}} \cup {{c} : c \in Connections}

Init ==
    /\ slot = Vacant
    /\ attempts = 0
    /\ established = FALSE

\* A mac parks, instead of the one that was there.
Park(S) ==
    /\ slot' = [slot EXCEPT !["mac"] = S]
    /\ attempts' = 0
    /\ UNCHANGED established

\* A mac comes that yields to the parked one.  The attempts start over all the
\* same, although nobody new is there to be tried.
Yield ==
    /\ slot["mac"] # {}
    /\ ~established
    /\ attempts' = 0
    /\ UNCHANGED <<slot, established>>

\* A phone joins a parked mac, within the attempts left or by being paired.
Join(S) ==
    /\ slot["mac"] # {}
    /\ established \/ attempts < MaxAttempts
    /\ slot' = [slot EXCEPT !["phone"] = S]
    /\ attempts' = IF established THEN attempts ELSE attempts + 1
    /\ UNCHANGED established

\* Connections end: anyone's, at any time, one or both.
Leave ==
    /\ UNCHANGED <<attempts, established>>
    /\ \E R \in SUBSET Sides : slot' = [r \in Sides |-> IF r \in R THEN {} ELSE slot[r]]

\* The two devices are paired: nobody is disconnected by it, and there is
\* nothing left to try.
Establish ==
    /\ established' = TRUE
    /\ attempts' = 0
    /\ UNCHANGED slot

\* The pairing is deleted or forgotten, and nobody stays connected to it.
Dissolve ==
    /\ slot' = Vacant
    /\ established' = FALSE
    /\ UNCHANGED attempts

Next ==
    \/ Leave \/ Establish \/ Dissolve \/ Yield
    \/ \E S \in Occupants : Park(S) \/ Join(S)

Spec == Init /\ [][Next]_vars
=============================================================================
