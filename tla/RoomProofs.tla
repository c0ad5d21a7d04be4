----------------------------- MODULE RoomProofs -----------------------------
(***************************************************************************)
(* Room, for every set of sockets and every cap: type correctness, one     *)
(* holder per role, the pairing-cycle cap, the backing of every phone by a *)
(* mac, and the sparing of a displaced holder's peer.                      *)
(*                                                                         *)
(* The invariant rests on three facts the code relies on without stating   *)
(* them: a routable socket's transport is not closing and the relay has    *)
(* not closed it (Routable); callbacks wait on a chain only after the      *)
(* transport failed, and none once the chain has run out (OwedAfterLoss);  *)
(* only a challenged socket waits for verifyJoin (VerifyingChallenged).    *)
(***************************************************************************)
EXTENDS Room, TLAPS

Routable ==
    \A s \in sockets : net[s] \in {"open", "errored"} /\ s \notin serverClosed

OwedAfterLoss ==
    \A s \in Sockets :
        /\ net[s] \in {"open", "closing"} => owed[s] = 0
        /\ net[s] = "errored" => owed[s] <= 1
        /\ net[s] = "closed" => owed[s] = 0

VerifyingChallenged ==
    \A s \in verifying : att[s] = "challenged" /\ net[s] # "closed"

\* The part of the invariant that the other parts rest on.
Base == TypeOK /\ Routable /\ OwedAfterLoss /\ VerifyingChallenged

\* While a mac is parked, the budget covers the phones admitted since a mac came.
Budget == CyclesPerMac /\ (Holders("mac") # {} => grinds <= pairingCycles)

-----------------------------------------------------------------------------

LEMMA InitBase == Init => Base
  BY LimitsAssumption DEF Init, Base, TypeOK, Routable, OwedAfterLoss, VerifyingChallenged, Roles

LEMMA AdmitType ==
  ASSUME TypeOK, NEW s \in Sockets, Admit(s)
  PROVE  /\ att' \in [Sockets -> {"hello", "challenged", "admitted"}]
         /\ nonDisplacing' \subseteq Sockets
         /\ sockets' \subseteq sockets
         /\ serverClosed' \subseteq Sockets
         /\ verifier' \in {"none", "set"}
         /\ pairingCycles' \in 0..MAX_PAIRING_CYCLES
         /\ grinds' \in Nat
         /\ strayClose' \in {"no", "yes"}
  <1> USE LimitsAssumption DEF TypeOK, Roles
  <1>1. CASE AdmitRefused(s)
    BY <1>1 DEF AdmitRefused, CapExceeded, CyclesAfter, Sever, history, Established
  <1>2. CASE AdmitKillsRoom(s)
    BY <1>2 DEF AdmitKillsRoom, TeardownRoom, Sever, history
  <1>3. CASE AdmitTakesSlot(s)
    BY <1>3 DEF AdmitTakesSlot, CapExceeded, CyclesAfter, Sever, NoteSevered, Holders, Established
  <1>4. QED BY <1>1, <1>2, <1>3 DEF Admit

\* What admit may change: only sockets it severs become unroutable or
\* server-closed, and only s changes its admission state.
LEMMA AdmitShape ==
  ASSUME Base, NEW s \in Sockets, Admit(s)
  PROVE  /\ \A t \in serverClosed' : t \in serverClosed \/ t \notin sockets'
         /\ \A t \in Sockets : t # s => att'[t] = att[t]
  <1>1. CASE AdmitRefused(s)
    BY <1>1 DEF AdmitRefused, Sever
  <1>2. CASE AdmitKillsRoom(s)
    BY <1>2 DEF AdmitKillsRoom, TeardownRoom, Sever
  <1>3. CASE AdmitTakesSlot(s)
    BY <1>3 DEF AdmitTakesSlot, Sever, Base, TypeOK
  <1>4. QED BY <1>1, <1>2, <1>3 DEF Admit

\* Every action preserves Base.
LEMMA BaseStep == Base /\ [Next]_vars => Base'
  <1> SUFFICES ASSUME Base, [Next]_vars PROVE Base'
    OBVIOUS
  <1> USE LimitsAssumption
      DEF Base, TypeOK, Routable, OwedAfterLoss, VerifyingChallenged, Roles,
          attachment, chains, storage, history
  <1>1. ASSUME NEW s \in Sockets, HandleUpgrade(s) PROVE Base'
    BY <1>1 DEF HandleUpgrade, Forget
  <1>2. ASSUME NEW s \in Sockets, NEW r \in Roles, NEW nd \in BOOLEAN,
               HandleHello(s, r, nd)
        PROVE  Base'
    BY <1>2 DEF HandleHello, Deliverable
  <1>3. ASSUME NEW s \in Sockets, RefuseFrame(s) PROVE Base'
    BY <1>3 DEF RefuseFrame, Sever
  <1>4. ASSUME NEW s \in Sockets, PairingProof(s) PROVE Base'
    BY <1>4, AdmitShape, AdmitType DEF PairingProof, Deliverable
  <1>5. ASSUME NEW s \in Sockets, SignedProof(s) PROVE Base'
    BY <1>5 DEF SignedProof, Deliverable
  <1>6. ASSUME NEW s \in Sockets, SignedProofVerified(s) PROVE Base'
    <2>1. CASE Admit(s)
      BY <1>6, <2>1, AdmitShape, AdmitType DEF SignedProofVerified
    <2>2. CASE Sever({s}) /\ UNCHANGED <<att, nonDisplacing, storage, history>>
      BY <1>6, <2>2 DEF SignedProofVerified, Sever
    <2>3. QED BY <1>6, <2>1, <2>2 DEF SignedProofVerified
  <1>7. ASSUME NEW s \in Sockets, AbusiveFrame(s) PROVE Base'
    BY <1>7 DEF AbusiveFrame, Sever, NoteSevered, PeersOf, Holders
  <1>8. ASSUME NEW s \in Sockets, QuotaExceeded(s) PROVE Base'
    BY <1>8 DEF QuotaExceeded, Sever
  <1>9. ASSUME NEW s \in Sockets, FrameHandlerThrows(s) PROVE Base'
    BY <1>9 DEF FrameHandlerThrows, Sever
  <1>10. ASSUME NEW s \in Sockets, CloseFrame(s) PROVE Base'
    BY <1>10 DEF CloseFrame
  <1>11. ASSUME NEW s \in Sockets, ErrorEvent(s) PROVE Base'
    BY <1>11 DEF ErrorEvent, DispatchLoss, NoteSevered, PeersOf, Holders, Suspended
  <1>12. ASSUME NEW s \in Sockets, CloseEvent(s) PROVE Base'
    BY <1>12 DEF CloseEvent, Connected, NetAfterClose, DispatchLoss, NoteSevered, PeersOf,
                 Holders, Suspended, Forget
  <1>13. ASSUME NEW s \in Sockets, RunOwed(s) PROVE Base'
    BY <1>13 DEF RunOwed, Forget, Sever, NoteSevered, PeersOf, Holders
  <1>14. CASE DropPreAuth
    BY <1>14 DEF DropPreAuth, Sever, PreAuth
  <1>15. CASE AlarmReap \/ DeleteCommit
    BY <1>15 DEF AlarmReap, DeleteCommit, TeardownRoom, Sever
  <1>16. CASE CloseRoom
    BY <1>16 DEF CloseRoom, Sever
  <1>17. CASE RegisterCommit
    BY <1>17 DEF RegisterCommit
  <1>18. ASSUME NEW s \in Sockets, ChainDrains(s) PROVE Base'
    BY <1>18 DEF ChainDrains, Forget, Suspended
  <1>19. CASE UNCHANGED vars
    BY <1>19 DEF vars
  <1>20. QED
    BY <1>1, <1>2, <1>3, <1>4, <1>5, <1>6, <1>7, <1>8, <1>9, <1>10, <1>11,
       <1>12, <1>13, <1>14, <1>15, <1>16, <1>17, <1>18, <1>19 DEF Next

\* The state of Room is always well-typed, with the facts above.
LEMMA BaseAlways == Spec => []Base
  BY InitBase, BaseStep, PTL DEF Spec

\* Type correctness of the room's sockets, chains and storage.
THEOREM TypeCorrect == Spec => []TypeOK
  BY BaseAlways, PTL DEF Base

-----------------------------------------------------------------------------
(* Who becomes a holder.                                                   *)

\* A step makes a new holder only by AdmitTakesSlot.
LEMMA NewHolder ==
  ASSUME Base, [Next]_vars, NEW r \in Roles, NEW t \in Holders(r)'
  PROVE  /\ t \in Sockets
         /\ \/ t \in Holders(r)
            \/ AdmitTakesSlot(t) /\ role[t] = r /\ att[t] = "challenged" /\ UNCHANGED role
  <1>0. t \in Sockets
    BY BaseStep DEF Base, TypeOK, Holders
  <1> USE DEF Base, TypeOK, Holders, attachment, chains, storage, history
  <1>1. ASSUME NEW s \in Sockets, HandleUpgrade(s) PROVE t \in Holders(r)
    BY <1>1 DEF HandleUpgrade, Forget
  <1>2. ASSUME NEW s \in Sockets, NEW q \in Roles, NEW nd \in BOOLEAN, HandleHello(s, q, nd)
        PROVE  t \in Holders(r)
    BY <1>2 DEF HandleHello
  <1>3. ASSUME NEW s \in Sockets, Admit(s), att[s] = "challenged", UNCHANGED role
        PROVE  \/ t \in Holders(r)
               \/ AdmitTakesSlot(t) /\ role[t] = r /\ att[t] = "challenged" /\ UNCHANGED role
    <2>1. CASE AdmitRefused(s)
      BY <1>3, <2>1 DEF AdmitRefused, Sever
    <2>2. CASE AdmitKillsRoom(s)
      BY <1>3, <2>2 DEF AdmitKillsRoom, TeardownRoom, Sever
    <2>3. CASE AdmitTakesSlot(s)
      <3>1. CASE t = s
        BY <1>3, <2>3, <3>1
      <3>2. CASE t # s
        <4>1. t \in Holders(r)
          BY <1>0, <1>3, <2>3, <3>2 DEF AdmitTakesSlot, Sever
        <4>2. QED BY <4>1
      <3>3. QED BY <3>1, <3>2
    <2>4. QED BY <1>3, <2>1, <2>2, <2>3 DEF Admit
  <1>4. ASSUME NEW s \in Sockets, CloseEvent(s) PROVE t \in Holders(r)
    BY <1>4 DEF CloseEvent, DispatchLoss, Forget
  <1>5. ASSUME NEW s \in Sockets,
               \/ RefuseFrame(s) \/ SignedProof(s) \/ AbusiveFrame(s) \/ QuotaExceeded(s)
               \/ FrameHandlerThrows(s) \/ CloseFrame(s) \/ ErrorEvent(s) \/ RunOwed(s)
               \/ ChainDrains(s)
        PROVE  t \in Holders(r)
    BY <1>5 DEF RefuseFrame, SignedProof, AbusiveFrame, QuotaExceeded, FrameHandlerThrows,
                CloseFrame, ErrorEvent, DispatchLoss, RunOwed, ChainDrains, Forget, Sever
  <1>6. CASE DropPreAuth \/ AlarmReap \/ CloseRoom \/ RegisterCommit \/ DeleteCommit
    BY <1>6 DEF DropPreAuth, AlarmReap, CloseRoom, RegisterCommit, DeleteCommit,
                TeardownRoom, Sever
  <1>7. ASSUME NEW s \in Sockets, PairingProof(s) \/ SignedProofVerified(s)
        PROVE  \/ t \in Holders(r)
               \/ AdmitTakesSlot(t) /\ role[t] = r /\ att[t] = "challenged" /\ UNCHANGED role
    BY <1>3, <1>7 DEF PairingProof, SignedProofVerified, VerifyingChallenged, Sever
  <1>8. CASE UNCHANGED vars
    BY <1>8 DEF vars
  <1>9. QED
    BY <1>0, <1>1, <1>2, <1>4, <1>5, <1>6, <1>7, <1>8 DEF Next

\* At most one routable admitted socket per role, whatever races through
\* admission (the two slots of room.js).
THEOREM SlotExclusion == Spec => []OneHolderPerRole
  <1>1. Init => OneHolderPerRole
    BY DEF Init, OneHolderPerRole, Holders
  <1>2. Base /\ OneHolderPerRole /\ [Next]_vars => OneHolderPerRole'
    <2> SUFFICES ASSUME Base, OneHolderPerRole, [Next]_vars, NEW r \in Roles,
                        NEW s \in Holders(r)', NEW t \in Holders(r)'
                 PROVE  s = t
      BY DEF OneHolderPerRole
    <2>1. CASE s \in Holders(r) /\ t \in Holders(r)
      BY <2>1 DEF OneHolderPerRole
    <2>2. ASSUME NEW u \in Holders(r)', NEW v \in Holders(r)',
                 AdmitTakesSlot(u), role[u] = r
          PROVE  u = v
      <3>1. CASE v \in Holders(r)
        BY <2>2, <3>1 DEF AdmitTakesSlot, Sever, Holders
      <3>2. CASE v \notin Holders(r)
        <4>1. AdmitTakesSlot(v) /\ att[v] = "challenged"
          BY <3>2, NewHolder
        <4>2. att'[v] = "admitted" /\ v \in Sockets
          BY BaseStep DEF Holders, Base, TypeOK
        <4>3. QED BY <2>2, <4>1, <4>2 DEF AdmitTakesSlot, Base, TypeOK
      <3>3. QED BY <3>1, <3>2
    <2>3. QED BY <2>1, <2>2, NewHolder
  <1>3. QED BY <1>1, <1>2, BaseAlways, PTL DEF Spec

\* A step that admits a socket leaves every holder of the other role routable:
\* displacement never closes the displaced holder's peer.
THEOREM DisplacementSparesPeer == Spec => AdmissionSparesPeer
  <1>1. ASSUME Base, [Next]_vars, NEW s \in Sockets,
               att[s] # "admitted", att'[s] = "admitted"
        PROVE  Holders(Other(role[s])) \subseteq sockets'
    <2> USE DEF Base, TypeOK, attachment, chains, storage, history
    <2>1. ASSUME NEW u \in Sockets, Admit(u) PROVE Holders(Other(role[s])) \subseteq sockets'
      BY <1>1, <2>1 DEF Admit, AdmitRefused, AdmitKillsRoom, AdmitTakesSlot, Sever,
                        Holders, Other, Roles
    <2>2. \E u \in Sockets : Admit(u)
      BY <1>1 DEF Next, vars, HandleUpgrade, HandleHello, RefuseFrame, PairingProof,
            SignedProof, SignedProofVerified, AbusiveFrame, QuotaExceeded,
            FrameHandlerThrows, CloseFrame, ErrorEvent, CloseEvent, Forget, RunOwed, ChainDrains,
            DropPreAuth, AlarmReap, CloseRoom, RegisterCommit, DeleteCommit
    <2>3. QED BY <2>1, <2>2
  <1>2. Base /\ [Next]_vars =>
          [\A s \in Sockets : att[s] # "admitted" /\ att'[s] = "admitted"
              => Holders(Other(role[s])) \subseteq sockets']_vars
    BY <1>1
  <1>3. QED BY <1>2, BaseAlways, PTL DEF Spec, AdmissionSparesPeer

-----------------------------------------------------------------------------
(* The pairing-cycle cap.                                                  *)

\* The budget is kept: a mac that gets to admit renews it whether or not it
\* parks, and the count of phones starts over with it.
LEMMA BudgetAlways == Spec => []Budget
  <1>1. Init => Budget
    BY LimitsAssumption DEF Init, Budget, CyclesPerMac
  <1>2. Base /\ Budget /\ [Next]_vars => Budget'
    <2> SUFFICES ASSUME Base, Budget, [Next]_vars PROVE Budget'
      OBVIOUS
    <2> USE LimitsAssumption DEF Budget, CyclesPerMac
    <2>1. ASSUME NEW s \in Sockets, Admit(s), att[s] = "challenged" PROVE Budget'
      <3>1. CASE AdmitRefused(s)
        <4>1. ASSUME NEW t \in Holders("mac")' PROVE t \in Holders("mac")
          <5>1. att'[t] = att[t] /\ att'[t] = "admitted"
            BY <3>1 DEF AdmitRefused, Holders
          <5>2. QED BY <5>1, NewHolder DEF Roles
        <4>2. CASE role[s] = "mac" /\ ~Established
          <5>1. grinds' = 0
            BY <3>1, <4>2 DEF AdmitRefused
          <5>2. pairingCycles' \in Nat
            BY <3>1, AdmitType, <2>1 DEF Base
          <5>3. QED BY <5>1, <5>2
        <4>3. CASE ~(role[s] = "mac" /\ ~Established)
          <5>1. grinds' = grinds
            BY <3>1, <4>3 DEF AdmitRefused
          <5>2. pairingCycles' \in Nat /\ pairingCycles' >= pairingCycles
            BY <3>1, <4>3 DEF AdmitRefused, CyclesAfter, Base, TypeOK
          <5>3. QED BY <4>1, <5>1, <5>2 DEF Base, TypeOK
        <4>4. QED BY <4>2, <4>3
      <3>2. CASE AdmitKillsRoom(s)
        BY <3>2 DEF AdmitKillsRoom, TeardownRoom, Sever, Holders, history
      <3>3. CASE AdmitTakesSlot(s)
        BY <3>3 DEF AdmitTakesSlot, MacOffline, CapExceeded, CyclesAfter, Established,
                    Base, TypeOK, Roles
      <3>4. QED BY <2>1, <3>1, <3>2, <3>3 DEF Admit
    <2>2. CASE ~\E s \in Sockets : Admit(s) /\ att[s] = "challenged"
      <3>1. ASSUME NEW t \in Holders("mac")' PROVE t \in Holders("mac")
        BY <2>2, NewHolder DEF Admit, Roles
      <3>2. grinds' = grinds \/ grinds' = 0
        BY <2>2 DEF Next, vars, HandleUpgrade, HandleHello, RefuseFrame, PairingProof,
            SignedProof, SignedProofVerified, AbusiveFrame, QuotaExceeded,
            FrameHandlerThrows, CloseFrame, ErrorEvent, CloseEvent, RunOwed, ChainDrains,
            DropPreAuth, AlarmReap, CloseRoom, RegisterCommit, DeleteCommit, history,
            Base, VerifyingChallenged
      <3>3. pairingCycles' = pairingCycles \/ Holders("mac")' = {}
        BY <2>2 DEF Next, vars, HandleUpgrade, HandleHello, RefuseFrame, PairingProof,
            SignedProof, SignedProofVerified, AbusiveFrame, QuotaExceeded,
            FrameHandlerThrows, CloseFrame, ErrorEvent, CloseEvent, RunOwed, ChainDrains,
            DropPreAuth, AlarmReap, CloseRoom, RegisterCommit, DeleteCommit, storage,
            TeardownRoom, Sever, Holders, Base, VerifyingChallenged
      <3>4. QED BY <3>1, <3>2, <3>3 DEF Base, TypeOK
    <2>3. QED BY <2>1, <2>2
  <1>3. QED BY <1>1, <1>2, BaseAlways, PTL DEF Spec

\* From one mac that gets to admit in pairing mode to the next, whichever of
\* its roles sets nonDisplacing, at most MAX_PAIRING_CYCLES phones are admitted
\* while the room is unestablished, across displacements, teardowns and late
\* registrations (the cap in admit).
THEOREM CycleCap == Spec => []CyclesPerMac
  BY BudgetAlways, PTL DEF Budget

-----------------------------------------------------------------------------
(* Room implements Pairing.                                                *)

Slots == [r \in Roles |-> Holders(r)]

\* admit is a Park or a Join when it succeeds, and when it does not, the end
\* of the room, a mac's yielding, or nothing.
LEMMA AdmitSimulates ==
  ASSUME Base, Budget, NEW s \in Sockets, Admit(s), att[s] = "challenged", UNCHANGED role
  PROVE  Promise!Next \/ UNCHANGED <<Slots, grinds, verifier>>
  <1> DEFINE S == IF s \in sockets THEN {s} ELSE {}
  <1>0. S \in Promise!Occupants
    BY DEF Promise!Occupants
  <1> USE DEF Roles
  <1>1. CASE AdmitRefused(s)
    <2>1. ASSUME NEW r \in Roles PROVE Holders(r)' = Holders(r)
      BY <1>1 DEF AdmitRefused, Sever, Holders
    <2>2. Slots' = Slots /\ verifier' = verifier
      BY <1>1, <2>1 DEF AdmitRefused, Slots
    <2>3. CASE role[s] = "mac" /\ ~Established
      <3>1. Slots["mac"] # {}
        BY <1>1, <2>3 DEF AdmitRefused, MacOffline, SlotRefused, Slots, Base, TypeOK
      <3>2. grinds' = 0
        BY <1>1, <2>3 DEF AdmitRefused
      <3>3. Promise!Yield
        BY <2>2, <2>3, <3>1, <3>2 DEF Promise!Yield, Slots, Established
      <3>4. QED BY <3>3 DEF Promise!Next
    <2>4. CASE ~(role[s] = "mac" /\ ~Established)
      BY <1>1, <2>2, <2>4 DEF AdmitRefused
    <2>5. QED BY <2>3, <2>4
  <1>2. CASE AdmitKillsRoom(s)
    <2>1. ASSUME NEW r \in Roles PROVE Holders(r)' = {}
      BY <1>2 DEF AdmitKillsRoom, TeardownRoom, Sever, Holders
    <2>2. Promise!Dissolve
      BY <1>2, <2>1 DEF AdmitKillsRoom, TeardownRoom, Established, history,
                        Promise!Dissolve, Promise!Vacant, Promise!Sides
    <2>3. QED BY <2>2 DEF Promise!Next
  <1>3. CASE AdmitTakesSlot(s)
    <2>1. Holders(role[s])' = S
      BY <1>3 DEF AdmitTakesSlot, Sever, Holders, Base, TypeOK
    <2>2. ASSUME NEW r \in Roles, r # role[s] PROVE Holders(r)' = Holders(r)
      BY <1>3, <2>2 DEF AdmitTakesSlot, Sever, Holders, Base, TypeOK
    <2>3. Slots' = [Slots EXCEPT ![role[s]] = S]
      BY <2>1, <2>2 DEF Slots, Base, TypeOK
    <2>4. Established' = Established
      BY <1>3 DEF AdmitTakesSlot, Established
    <2>5. CASE role[s] = "mac"
      <3>1. Promise!Park(S)
        BY <1>3, <2>3, <2>4, <2>5 DEF AdmitTakesSlot, Promise!Park, Slots
      <3>2. QED BY <1>0, <3>1 DEF Promise!Next
    <2>6. CASE role[s] = "phone"
      <3>1. Slots["mac"] # {}
        BY <1>3, <2>6 DEF AdmitTakesSlot, MacOffline, Holders, Slots, Base, TypeOK
      <3>2. Established \/ grinds < MAX_PAIRING_CYCLES
        BY <1>3, <2>6, <3>1, LimitsAssumption
        DEF AdmitTakesSlot, CapExceeded, CyclesAfter, Budget, Slots, Base, TypeOK
      <3>3. grinds' = IF Established THEN grinds ELSE grinds + 1
        BY <1>3, <2>6 DEF AdmitTakesSlot
      <3>4. Promise!Join(S)
        BY <2>3, <2>4, <2>6, <3>1, <3>2, <3>3 DEF Promise!Join, Slots
      <3>5. QED BY <1>0, <3>4 DEF Promise!Next
    <2>7. QED BY <2>5, <2>6 DEF Base, TypeOK
  <1>4. QED BY <1>1, <1>2, <1>3 DEF Admit

\* Every behaviour of the room's sockets, chains and awaits is, seen through
\* the slots, a behaviour of Pairing.
THEOREM RoomImplementsPairing == Spec => ImplementsPairing
  <1>1. Init => Promise!Init
    BY DEF Init, Promise!Init, Promise!Vacant, Promise!Sides, Roles, Holders, Established
  <1>2. Base /\ OneHolderPerRole /\ Budget /\ [Next]_vars => [Promise!Next]_Promise!vars
    <2> SUFFICES ASSUME Base, OneHolderPerRole, Budget, [Next]_vars
                 PROVE  Promise!Next \/ UNCHANGED <<Slots, grinds, verifier>>
      BY DEF Slots, Promise!vars, Established
    <2>1. ASSUME NEW s \in Sockets, Admit(s), att[s] = "challenged", UNCHANGED role
          PROVE  Promise!Next \/ UNCHANGED <<Slots, grinds, verifier>>
      BY <2>1, AdmitSimulates
    <2>2. CASE ~\E s \in Sockets : Admit(s) /\ att[s] = "challenged" /\ UNCHANGED role
      <3>1. ASSUME NEW r \in Roles PROVE Holders(r)' = {} \/ Holders(r)' = Holders(r)
        <4>1. ASSUME NEW t \in Holders(r)' PROVE t \in Holders(r)
          BY <2>2, NewHolder DEF Admit
        <4>2. QED BY <4>1 DEF OneHolderPerRole
      <3>2. grinds' = grinds \/ RegisterCommit
        BY <2>2 DEF Next, vars, HandleUpgrade, HandleHello, RefuseFrame, PairingProof,
            SignedProof, SignedProofVerified, AbusiveFrame, QuotaExceeded,
            FrameHandlerThrows, CloseFrame, ErrorEvent, CloseEvent, RunOwed, ChainDrains,
            DropPreAuth, AlarmReap, CloseRoom, RegisterCommit, DeleteCommit, history,
            Base, VerifyingChallenged
      <3>3. CASE verifier' = verifier
        <4>1. Slots' = [r \in Promise!Sides |->
                          IF r \in {q \in Roles : Holders(q)' = {}} THEN {} ELSE Slots[r]]
          BY <3>1 DEF Slots, Roles, Promise!Sides
        <4>2. Promise!Leave
          BY <3>2, <3>3, <4>1 DEF Promise!Leave, Promise!Sides, Slots, Roles, Established,
                RegisterCommit
        <4>3. QED BY <4>2 DEF Promise!Next
      <3>4. CASE RegisterCommit
        <4>1. Slots' = Slots
          BY <3>4 DEF RegisterCommit, Slots, Holders, attachment
        <4>2. Promise!Establish
          BY <3>4, <4>1 DEF RegisterCommit, Promise!Establish, Established, Slots
        <4>3. QED BY <4>2 DEF Promise!Next
      <3>5. CASE AlarmReap \/ DeleteCommit
        <4>1. Promise!Dissolve
          BY <3>5 DEF AlarmReap, DeleteCommit, TeardownRoom, Sever, Holders, Roles,
                Established, history, Promise!Dissolve, Promise!Vacant, Promise!Sides
        <4>2. QED BY <4>1 DEF Promise!Next
      <3>6. QED
        BY <2>2, <3>3, <3>4, <3>5 DEF Next, vars, HandleUpgrade, HandleHello, RefuseFrame,
            PairingProof, SignedProof, SignedProofVerified, AbusiveFrame, QuotaExceeded,
            FrameHandlerThrows, CloseFrame, ErrorEvent, CloseEvent, RunOwed, ChainDrains,
            DropPreAuth, CloseRoom, storage, Base, VerifyingChallenged
    <2>3. QED BY <2>1, <2>2
  <1>3. QED BY <1>1, <1>2, BaseAlways, SlotExclusion, BudgetAlways, PTL
            DEF Spec, ImplementsPairing, Promise!Spec

-----------------------------------------------------------------------------
(* No phone is left without a mac unnoticed.                               *)

\* admit: a mac slot is only emptied by a socket outside the room, and a
\* pending loss stays pending.
LEMMA AdmitBacked ==
  ASSUME Base, PhoneBacked, NEW s \in Sockets, Admit(s), att[s] = "challenged",
         UNCHANGED <<role, net, owed>>
  PROVE  PhoneBacked'
  <1> USE DEF Base, TypeOK, Routable, PhoneBacked, LossPending, Holders, Roles
  <1>1. CASE AdmitRefused(s)
    BY <1>1 DEF AdmitRefused, Sever
  <1>2. CASE AdmitKillsRoom(s)
    BY <1>2 DEF AdmitKillsRoom, TeardownRoom, Sever
  <1>3. CASE AdmitTakesSlot(s)
    <2>1. CASE role[s] = "phone"
      BY <1>3, <2>1 DEF AdmitTakesSlot, MacOffline, Sever
    <2>2. CASE role[s] = "mac" /\ s \in sockets
      BY <1>3, <2>2 DEF AdmitTakesSlot, Sever
    <2>3. CASE role[s] = "mac" /\ s \notin sockets
      <3>1. CASE Holders("phone") = {}
        BY <1>3, <2>3, <3>1 DEF AdmitTakesSlot, Sever
      <3>2. CASE Holders("mac") = {}
        BY <1>3, <2>3, <3>2 DEF AdmitTakesSlot, NoteSevered, Sever
      <3>3. CASE Holders("mac") # {} /\ Holders("phone") # {}
        BY <1>3, <2>3, <3>3 DEF AdmitTakesSlot, NoteSevered
      <3>4. QED BY <3>1, <3>2, <3>3
    <2>4. QED BY <2>1, <2>2, <2>3
  <1>4. QED BY <1>1, <1>2, <1>3 DEF Admit

\* A phone on a working connection whose mac is gone is about to be closed, or
\* its mac was severed by a stale socket or a throwing handler (closePeerOf and
\* the phone_only tripwire of Runtime.occupancy).
THEOREM PhoneNeverAlone == Spec => []PhoneBacked
  <1>1. Init => PhoneBacked
    BY DEF Init, PhoneBacked, Holders
  <1>2. Base /\ OneHolderPerRole /\ PhoneBacked /\ [Next]_vars => PhoneBacked'
    <2> SUFFICES ASSUME Base, OneHolderPerRole, PhoneBacked, [Next]_vars PROVE PhoneBacked'
      OBVIOUS
    <2> USE DEF Base, TypeOK, Routable, OwedAfterLoss, PhoneBacked, LossPending, Holders,
                Roles, attachment, chains, history
    <2>1. ASSUME NEW s \in Sockets, HandleUpgrade(s) PROVE PhoneBacked'
      BY <2>1 DEF HandleUpgrade, Forget
    <2>2. ASSUME NEW s \in Sockets, NEW r \in Roles, NEW nd \in BOOLEAN, HandleHello(s, r, nd)
          PROVE  PhoneBacked'
      BY <2>2 DEF HandleHello
    <2>3. ASSUME NEW s \in Sockets, RefuseFrame(s) \/ SignedProof(s) PROVE PhoneBacked'
      BY <2>3 DEF RefuseFrame, SignedProof, Sever
    <2>4. ASSUME NEW s \in Sockets, PairingProof(s) PROVE PhoneBacked'
      BY <2>4, AdmitBacked DEF PairingProof
    <2>5. ASSUME NEW s \in Sockets, SignedProofVerified(s) PROVE PhoneBacked'
      <3>1. att[s] = "challenged"
        BY <2>5 DEF SignedProofVerified, VerifyingChallenged
      <3>2. CASE Admit(s)
        BY <2>5, <3>1, <3>2, AdmitBacked DEF SignedProofVerified
      <3>3. CASE Sever({s}) /\ UNCHANGED <<att, nonDisplacing, storage, history>>
        BY <2>5, <3>1, <3>3 DEF SignedProofVerified, Sever
      <3>4. QED BY <2>5, <3>2, <3>3 DEF SignedProofVerified
    <2>6. ASSUME NEW s \in Sockets, AbusiveFrame(s) PROVE PhoneBacked'
      <3>1. CASE role[s] = "mac"
        BY <2>6, <3>1 DEF AbusiveFrame, Sever, PeersOf, Other
      <3>2. CASE role[s] = "phone"
        BY <2>6, <3>2 DEF AbusiveFrame, Sever, PeersOf, Other, NoteSevered, OneHolderPerRole
      <3>3. QED BY <3>1, <3>2
    <2>7. ASSUME NEW s \in Sockets, QuotaExceeded(s) PROVE PhoneBacked'
      BY <2>7 DEF QuotaExceeded, Sever
    <2>8. ASSUME NEW s \in Sockets, FrameHandlerThrows(s) PROVE PhoneBacked'
      BY <2>8 DEF FrameHandlerThrows, Sever
    <2>9. ASSUME NEW s \in Sockets, CloseFrame(s) PROVE PhoneBacked'
      BY <2>9 DEF CloseFrame
    <2>10. ASSUME NEW s \in Sockets, ErrorEvent(s) PROVE PhoneBacked'
      <3>1. CASE role[s] = "mac"
        BY <2>10, <3>1 DEF ErrorEvent, DispatchLoss, PeersOf, Other, NoteSevered
      <3>2. CASE role[s] = "phone"
        BY <2>10, <3>2 DEF ErrorEvent, DispatchLoss, PeersOf, Other, NoteSevered, OneHolderPerRole
      <3>3. QED BY <3>1, <3>2
    <2>11. ASSUME NEW s \in Sockets, CloseEvent(s) PROVE PhoneBacked'
      <3>1. CASE s \in serverClosed
        BY <2>11, <3>1 DEF CloseEvent, Connected, NetAfterClose, Forget, Suspended
      <3>2. CASE s \notin serverClosed /\ role[s] = "mac"
        BY <2>11, <3>2 DEF CloseEvent, Connected, NetAfterClose, DispatchLoss, PeersOf, Other,
                           NoteSevered, Forget, Suspended
      <3>3. CASE s \notin serverClosed /\ role[s] = "phone"
        BY <2>11, <3>3 DEF CloseEvent, Connected, NetAfterClose, DispatchLoss, PeersOf, Other,
                           NoteSevered, Forget, Suspended, OneHolderPerRole
      <3>4. QED BY <3>1, <3>2, <3>3
    <2>12. ASSUME NEW s \in Sockets, RunOwed(s) PROVE PhoneBacked'
      <3>1. CASE role[s] = "mac"
        BY <2>12, <3>1 DEF RunOwed, Forget, Sever, PeersOf, Other, NoteSevered
      <3>2. CASE role[s] = "phone"
        BY <2>12, <3>2 DEF RunOwed, Forget, Sever, PeersOf, Other, NoteSevered, OneHolderPerRole
      <3>3. QED BY <3>1, <3>2
    <2>13. CASE DropPreAuth
      BY <2>13 DEF DropPreAuth, PreAuth, Sever
    <2>14. CASE AlarmReap \/ DeleteCommit \/ CloseRoom
      BY <2>14 DEF AlarmReap, DeleteCommit, CloseRoom, TeardownRoom, Sever
    <2>15. CASE RegisterCommit \/ UNCHANGED vars
      BY <2>15 DEF RegisterCommit, vars
    <2>16. ASSUME NEW s \in Sockets, ChainDrains(s) PROVE PhoneBacked'
      BY <2>16 DEF ChainDrains, Forget, Suspended
    <2>17. QED
      BY <2>1, <2>2, <2>3, <2>4, <2>5, <2>6, <2>7, <2>8, <2>9, <2>10, <2>11, <2>12,
         <2>13, <2>14, <2>15, <2>16 DEF Next
  <1>3. QED BY <1>1, <1>2, BaseAlways, SlotExclusion, PTL DEF Spec

=============================================================================
