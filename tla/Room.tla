-------------------------------- MODULE Room --------------------------------
(***************************************************************************)
(* One room of the relay: the WebSockets it holds, the admission state     *)
(* machine hello -> challenged -> admitted, the two role slots and the     *)
(* closing rules (src/room.js), together with the event plumbing that      *)
(* delivers frames, errors and closes to it (RoomContext in                *)
(* host/runtime.js).                                                       *)
(*                                                                         *)
(* Grain of atomicity.  A handler runs to its first real-async await; an   *)
(* await on storage only yields a microtask (host/storage.js, "ATOMICITY   *)
(* INVARIANT").  The real-async await of the frame path is verifyJoin: it  *)
(* cuts handleProof into a step before and a step after, with the socket   *)
(* in `verifying' in between.  The HTTP handlers check the room before     *)
(* their own verification and write after it, so their writes appear here  *)
(* as steps that a check of the current state no longer guards.            *)
(*                                                                         *)
(* A closed socket keeps its attachment, and a frame that was in flight,   *)
(* came together with a close frame, or is queued behind a suspended       *)
(* handler on its promise chain, is still dispatched: nothing on the path  *)
(* asks whether the socket is still in ctx._sockets.                       *)
(*                                                                         *)
(* Abstracted: frame contents (a frame is acceptable or not), signatures,  *)
(* tickets and rate windows (a proof is accepted or rejected), time (the   *)
(* relay may drop a pre-auth socket at any moment), logging and metrics.   *)
(* Housekeeping details which pre-auth socket is dropped and when.         *)
(***************************************************************************)
EXTENDS Naturals, FiniteSets

CONSTANTS
    Sockets,              \* connection identities, reused once fully closed
    MAX_PAIRING_CYCLES    \* phones admitted before a mac has to come again

ASSUME LimitsAssumption ==
    MAX_PAIRING_CYCLES \in Nat

VARIABLES
    att,           \* attachment.state of each socket
    role,          \* attachment.role (meaningful once challenged)
    nonDisplacing, \* sockets whose attachment carries nonDisplacing
    sockets,       \* ctx._sockets, the routable sockets
    serverClosed,  \* sockets with ws._serverClosed set
    net,           \* transport: open, closing (peer's close frame acked),
                   \*   errored ('error' emitted), ended ('close' emitted, the
                   \*   chain not yet run out), closed
    verifying,     \* sockets whose handleProof awaits verifyJoin
    owed,          \* close/error callbacks queued behind that await
    verifier,      \* storage: "none", or "set" once registered (established)
    pairingCycles, \* storage: phone cycles charged to the current park
    grinds,        \* history: phones admitted in pairing mode since a mac
                   \*   last got to admit there (0 again once established)
    strayClose     \* history: "yes" if, since the last live mac park, the mac of
                   \*   a phone was severed on behalf of a socket outside
                   \*   ctx._sockets, or by its own handler throwing

storage == <<verifier, pairingCycles>>
history == <<grinds, strayClose>>
attachment == <<att, role, nonDisplacing>>
chains  == <<verifying, owed>>
vars == <<attachment, sockets, serverClosed, net, chains, storage, history>>

Roles == {"mac", "phone"}

TypeOK ==
    /\ att \in [Sockets -> {"hello", "challenged", "admitted"}]
    /\ role \in [Sockets -> Roles]
    /\ nonDisplacing \subseteq Sockets
    /\ sockets \subseteq Sockets
    /\ serverClosed \subseteq Sockets
    /\ net \in [Sockets -> {"open", "closing", "errored", "ended", "closed"}]
    /\ verifying \subseteq Sockets
    /\ owed \in [Sockets -> 0..2]
    /\ verifier \in {"none", "set"}
    /\ pairingCycles \in 0..MAX_PAIRING_CYCLES
    /\ grinds \in Nat
    /\ strayClose \in {"no", "yes"}

Init ==
    /\ att = [s \in Sockets |-> "hello"]
    /\ role = [s \in Sockets |-> "mac"]
    /\ nonDisplacing = {}
    /\ sockets = {}
    /\ serverClosed = {}
    /\ net = [s \in Sockets |-> "closed"]
    /\ verifying = {}
    /\ owed = [s \in Sockets |-> 0]
    /\ verifier = "none"
    /\ pairingCycles = 0
    /\ grinds = 0
    /\ strayClose = "no"

-----------------------------------------------------------------------------
(* Reading the room.                                                       *)

Established == verifier = "set"

Other(r) == IF r = "mac" THEN "phone" ELSE "mac"

\* The routable admitted sockets of a role: who holds the slot.
Holders(r) == {s \in sockets : att[s] = "admitted" /\ role[s] = r}

PreAuth == {s \in sockets : att[s] # "admitted"}

\* The sockets closePeerOf(s) closes.
PeersOf(s) == IF att[s] = "admitted" THEN Holders(Other(role[s])) \ {s} ELSE {}

\* The promise chain of s is held up by a proof, or still catching up with it.
Suspended(s) == s \in verifying \/ owed[s] > 0

\* A frame of s reaches webSocketMessage: its chain is not suspended, and the
\* transport still delivers, or the frame waits on the chain: with the peer's
\* close frame behind it, ahead of a close or error callback that a suspended
\* proof held up, or on the chain of a socket the relay closed meanwhile.
Deliverable(s) ==
    /\ s \notin verifying
    /\ net[s] \in {"open", "closing", "ended"} \/ owed[s] > 0

\* The host's ws.close wrapper on each socket of T: unroutable at once, and
\* marked server-closed unless the peer's close frame came first.
Sever(T) ==
    /\ sockets' = sockets \ T
    /\ serverClosed' = serverClosed \cup {t \in T : net[t] \in {"open", "errored"}}

\* History: a step on behalf of s severs the sockets T, and with them the mac
\* of a phone.
NoteSevered(s, T) ==
    strayClose' = IF /\ s \notin sockets
                     /\ T \cap Holders("mac") # {}
                     /\ Holders("phone") # {}
                  THEN "yes" ELSE strayClose

\* A closed socket with no handler left is garbage: its attachment goes.
Forget(s, garbage) ==
    IF garbage
    THEN /\ att' = [att EXCEPT ![s] = "hello"]
         /\ role' = [role EXCEPT ![s] = "mac"]
         /\ nonDisplacing' = nonDisplacing \ {s}
    ELSE UNCHANGED attachment

-----------------------------------------------------------------------------
(* Upgrades.                                                               *)

\* acceptWebSocket and the initial attachment.
HandleUpgrade(s) ==
    /\ net[s] = "closed"
    /\ Forget(s, TRUE)
    /\ sockets' = sockets \cup {s}
    /\ serverClosed' = serverClosed \ {s}
    /\ net' = [net EXCEPT ![s] = "open"]
    /\ UNCHANGED <<chains, storage, history>>

\* evictExcessPreAuth and the deadline sweep of alarm() close pre-auth sockets.
DropPreAuth ==
    /\ \E T \in SUBSET PreAuth \ {{}} : Sever(T)
    /\ UNCHANGED <<attachment, net, chains, storage, history>>

-----------------------------------------------------------------------------
(* Frames before admission.                                                *)

HandleHello(s, r, nd) ==
    /\ Deliverable(s)
    /\ att[s] = "hello"
    /\ att' = [att EXCEPT ![s] = "challenged"]
    /\ role' = [role EXCEPT ![s] = r]
    /\ nonDisplacing' = IF nd THEN nonDisplacing \cup {s} ELSE nonDisplacing \ {s}
    /\ UNCHANGED <<sockets, serverClosed, net, chains, storage, history>>

\* A pre-auth frame the room refuses: oversized, bad hello, a proof over the
\* admission rate, malformed, unsigned or without a live ticket, or a handler
\* that throws (closed 1011 by _dispatch).
RefuseFrame(s) ==
    /\ Deliverable(s)
    /\ att[s] # "admitted"
    /\ Sever({s})
    /\ UNCHANGED <<attachment, net, chains, storage, history>>

\* teardownRoom: close every socket, wipe storage.
TeardownRoom ==
    /\ Sever(sockets)
    /\ verifier' = "none"
    /\ pairingCycles' = 0

\* What admit leaves in pairingCycles: an established room is not charged, a
\* mac resets the budget, a phone spends one cycle of it.
CyclesAfter(s) ==
    IF Established THEN pairingCycles
    ELSE IF role[s] = "mac" THEN 0 ELSE pairingCycles + 1

MacOffline(s) == role[s] = "phone" /\ Holders("mac") \ {s} = {}
SlotRefused(s) == s \in nonDisplacing /\ Holders(role[s]) \ {s} # {}
\* Variant: the cap is off by one.
CapOffByOne(s) == ~Established /\ role[s] = "phone" /\ CyclesAfter(s) > MAX_PAIRING_CYCLES + 1
CapExceeded(s) == ~Established /\ role[s] = "phone" /\ CyclesAfter(s) > MAX_PAIRING_CYCLES

\* Turned away.  Whether its slot was taken is asked after the charge, so a
\* phone has spent a cycle by then, and a mac has renewed the budget.
AdmitRefused(s) ==
    /\ MacOffline(s) \/ SlotRefused(s)
    /\ MacOffline(s) \/ ~CapExceeded(s)
    /\ Sever({s})
    /\ pairingCycles' = IF MacOffline(s) THEN pairingCycles ELSE CyclesAfter(s)
    /\ grinds' = IF role[s] = "mac" /\ ~Established THEN 0 ELSE grinds
    /\ UNCHANGED <<att, nonDisplacing, verifier, strayClose>>

AdmitKillsRoom(s) ==
    /\ ~MacOffline(s)
    /\ CapExceeded(s)
    /\ TeardownRoom
    /\ UNCHANGED <<att, nonDisplacing, history>>

\* Variant: the slot is taken without displacing its holder.
AdmitBesideHolder(s) ==
    /\ ~MacOffline(s) /\ ~CapExceeded(s) /\ ~SlotRefused(s)
    /\ att' = [att EXCEPT ![s] = "admitted"]
    /\ nonDisplacing' = nonDisplacing \ {s}
    /\ pairingCycles' = CyclesAfter(s)
    /\ UNCHANGED <<sockets, serverClosed, verifier, history>>

\* Variant: displacing a holder also closes the holder's peer.
AdmitClosesPeer(s) ==
    LET displaced == Holders(role[s]) \ {s} IN
    /\ ~MacOffline(s) /\ ~CapExceeded(s) /\ ~SlotRefused(s)
    /\ Sever(displaced \cup UNION {PeersOf(d) : d \in displaced})
    /\ att' = [att EXCEPT ![s] = "admitted"]
    /\ nonDisplacing' = nonDisplacing \ {s}
    /\ pairingCycles' = CyclesAfter(s)
    /\ grinds' = IF role[s] = "mac" THEN 0
                 ELSE IF Established THEN grinds ELSE grinds + 1
    /\ UNCHANGED <<verifier, strayClose>>

\* Newest wins: the current holders are displaced, their peer is left alone.
AdmitTakesSlot(s) ==
    LET displaced == Holders(role[s]) \ {s} IN
    /\ ~MacOffline(s) /\ ~CapExceeded(s) /\ ~SlotRefused(s)
    /\ Sever(displaced)
    /\ att' = [att EXCEPT ![s] = "admitted"]
    /\ nonDisplacing' = nonDisplacing \ {s}
    /\ pairingCycles' = CyclesAfter(s)
    /\ grinds' = IF role[s] = "mac" THEN 0
                 ELSE IF Established THEN grinds ELSE grinds + 1
    /\ IF role[s] = "mac" /\ s \in sockets
       THEN strayClose' = "no" ELSE NoteSevered(s, displaced)
    /\ UNCHANGED verifier

Admit(s) == AdmitRefused(s) \/ AdmitKillsRoom(s) \/ AdmitTakesSlot(s)

\* handleProof in pairing mode: an accepted proof admits within the frame.
PairingProof(s) ==
    /\ Deliverable(s)
    /\ att[s] = "challenged"
    /\ ~Established
    /\ Admit(s)
    /\ UNCHANGED <<role, net, chains>>

\* handleProof in an established room, up to verifyJoin.
SignedProof(s) ==
    /\ Deliverable(s)
    /\ att[s] = "challenged"
    /\ Established
    /\ verifying' = verifying \cup {s}
    /\ UNCHANGED <<attachment, sockets, serverClosed, net, owed, storage, history>>

\* verifyJoin settles: a bad signature is rejected, a good one admits against
\* the room as it is now.
SignedProofVerified(s) ==
    /\ s \in verifying
    /\ verifying' = verifying \ {s}
    /\ \/ /\ Sever({s})
          /\ UNCHANGED <<att, nonDisplacing, storage, history>>
       \/ Admit(s)
    /\ UNCHANGED <<role, net, owed>>

-----------------------------------------------------------------------------
(* Frames after admission.                                                 *)

\* Variant: only the offender is closed.
AbusiveFrameAlone(s) ==
    /\ Deliverable(s)
    /\ att[s] = "admitted"
    /\ Sever({s})
    /\ UNCHANGED <<attachment, net, chains, storage, history>>

\* Oversized, or over the room's frame rate: close the peer, then the offender.
AbusiveFrame(s) ==
    /\ Deliverable(s)
    /\ att[s] = "admitted"
    /\ Sever(PeersOf(s) \cup {s})
    /\ NoteSevered(s, PeersOf(s))
    /\ UNCHANGED <<attachment, net, chains, storage, grinds>>

\* overQuota: the frame that crosses the daily quota closes every socket.
QuotaExceeded(s) ==
    /\ Deliverable(s)
    /\ att[s] = "admitted"
    /\ Sever(sockets)
    /\ UNCHANGED <<attachment, net, chains, storage, history>>

\* A storage call of overQuota throws: _dispatch closes this socket only.
FrameHandlerThrows(s) ==
    /\ Deliverable(s)
    /\ att[s] = "admitted"
    /\ Sever({s})
    /\ strayClose' = IF s \in Holders("mac") /\ Holders("phone") # {} THEN "yes" ELSE strayClose
    /\ UNCHANGED <<attachment, net, chains, storage, grinds>>

-----------------------------------------------------------------------------
(* Transport events.                                                       *)

\* _dispatch of a close or error callback: closePeerOf now, or, behind a
\* suspended proof, once the chain gets to it.  `gone' leaves ctx._sockets.
DispatchLoss(s, gone) ==
    IF Suspended(s)
    THEN /\ owed' = [owed EXCEPT ![s] = @ + 1]
         /\ sockets' = sockets \ gone
         /\ UNCHANGED <<serverClosed, strayClose>>
    ELSE /\ sockets' = sockets \ (PeersOf(s) \cup gone)
         /\ serverClosed' = serverClosed \cup
                {t \in PeersOf(s) : net[t] \in {"open", "errored"}}
         /\ NoteSevered(s, PeersOf(s))
         /\ UNCHANGED owed

\* The peer's close frame: ws acks it through the wrapped close().
CloseFrame(s) ==
    /\ net[s] = "open"
    /\ net' = [net EXCEPT ![s] = "closing"]
    /\ sockets' = sockets \ {s}
    /\ UNCHANGED <<attachment, serverClosed, chains, storage, history>>

\* 'error': webSocketError is dispatched even for a server-closed socket.
ErrorEvent(s) ==
    /\ net[s] = "open"
    /\ net' = [net EXCEPT ![s] = "errored"]
    /\ DispatchLoss(s, {})
    /\ UNCHANGED <<attachment, verifying, storage, grinds>>

\* Still connected, in one way or another.
Connected(s) == net[s] \in {"open", "closing", "errored"}
NetAfterClose(s) == [net EXCEPT ![s] = IF Suspended(s) THEN "ended" ELSE "closed"]

\* Variant: webSocketClose is never dispatched.
CloseEventSilent(s) ==
    /\ Connected(s)
    /\ net' = NetAfterClose(s)
    /\ sockets' = sockets \ {s}
    /\ serverClosed' = serverClosed \ {s}
    /\ Forget(s, ~Suspended(s))
    /\ UNCHANGED <<chains, storage, history>>

\* 'close': webSocketClose is dispatched unless the relay closed the socket.
CloseEvent(s) ==
    /\ Connected(s)
    /\ net' = NetAfterClose(s)
    /\ IF s \in serverClosed
       THEN /\ sockets' = sockets \ {s}
            /\ serverClosed' = serverClosed \ {s}
            /\ UNCHANGED <<owed, strayClose>>
       ELSE DispatchLoss(s, {s})
    /\ Forget(s, ~Suspended(s))
    /\ UNCHANGED <<verifying, storage, grinds>>

\* The chain reaches a queued close or error callback.
RunOwed(s) ==
    /\ owed[s] > 0
    /\ s \notin verifying
    /\ owed' = [owed EXCEPT ![s] = @ - 1]
    /\ Sever(PeersOf(s))
    /\ NoteSevered(s, PeersOf(s))
    /\ LET last == net[s] = "ended" /\ owed[s] = 1 IN
       /\ net' = IF last THEN [net EXCEPT ![s] = "closed"] ELSE net
       /\ Forget(s, last)
    /\ UNCHANGED <<verifying, storage, grinds>>

\* The chain of a socket the relay had closed runs out: no callback is owed.
ChainDrains(s) ==
    /\ net[s] = "ended"
    /\ ~Suspended(s)
    /\ net' = [net EXCEPT ![s] = "closed"]
    /\ Forget(s, TRUE)
    /\ UNCHANGED <<sockets, serverClosed, chains, storage, history>>

-----------------------------------------------------------------------------
(* Housekeeping, HTTP handlers and the host.                               *)

\* alarm(): an established room past its idle TTL is torn down.
AlarmReap ==
    /\ Established
    /\ TeardownRoom
    /\ UNCHANGED <<attachment, net, chains, history>>

\* handleRegister after its verification: the verifier is written.  Whether the
\* request held a live token is the business of Credentials.
RegisterCommit ==
    /\ ~Established
    /\ verifier' = "set"
    /\ grinds' = 0
    /\ UNCHANGED <<attachment, sockets, serverClosed, net, chains, pairingCycles, strayClose>>

\* handleDelete after its verification, against whatever the room is by then.
\* Whether it was authorised is the business of Credentials.
DeleteCommit ==
    /\ TeardownRoom
    /\ UNCHANGED <<attachment, net, chains, history>>

\* Runtime.closeRoom, called by the drain: every socket, storage kept.
CloseRoom ==
    /\ sockets # {}
    /\ Sever(sockets)
    /\ UNCHANGED <<attachment, net, chains, storage, history>>

Next ==
    \/ \E s \in Sockets :
          \/ HandleUpgrade(s)
          \/ \E r \in Roles, nd \in BOOLEAN : HandleHello(s, r, nd)
          \/ RefuseFrame(s)
          \/ PairingProof(s) \/ SignedProof(s) \/ SignedProofVerified(s)
          \/ AbusiveFrame(s) \/ QuotaExceeded(s) \/ FrameHandlerThrows(s)
          \/ CloseFrame(s) \/ ErrorEvent(s) \/ CloseEvent(s) \/ RunOwed(s)
          \/ ChainDrains(s)
    \/ DropPreAuth \/ AlarmReap \/ CloseRoom
    \/ RegisterCommit \/ DeleteCommit

Spec == Init /\ [][Next]_vars

\* A suspended proof resumes (its crypto promise settles), chains drain, and a
\* close that began ends: ws destroys a closing socket after its own timeout.
Fairness ==
    \A s \in Sockets :
        /\ WF_vars(SignedProofVerified(s))
        /\ WF_vars(RunOwed(s))
        /\ WF_vars(ChainDrains(s))
        /\ WF_vars(net[s] # "open" /\ CloseEvent(s))

FairSpec == Spec /\ Fairness

-----------------------------------------------------------------------------
(* Properties.                                                             *)

\* Two slots, one per role (room.js, admit): whatever sockets race through
\* admission, at most one routable admitted socket holds each role.
OneHolderPerRole ==
    \A r \in Roles : \A s, t \in Holders(r) : s = t

\* The cap on pairing cycles (room.js, MAX_PAIRING_CYCLES): from one mac that
\* gets to admit in pairing mode to the next, parked or turned away, at most
\* MAX_PAIRING_CYCLES phones are admitted while the room is unestablished.
CyclesPerMac == grinds <= MAX_PAIRING_CYCLES

\* An admitted socket m that went away by itself, its peer not told yet.
LossPending(m) ==
    /\ att[m] = "admitted"
    /\ \/ net[m] = "closing" /\ m \notin serverClosed
       \/ owed[m] > 0

\* No phone is left alone in a room (Runtime.occupancy, phone_only): a phone
\* on a working connection without a mac is about to be closed, because its
\* mac's loss is pending, or the mac was severed on behalf of a socket that had
\* itself left the room, or by a frame handler that threw.
PhoneBacked ==
    \/ \A p \in Holders("phone") : net[p] # "open"
    \/ Holders("mac") # {}
    \/ \E m \in Sockets : role[m] = "mac" /\ LossPending(m)
    \/ strayClose = "yes"

\* admit: displacing the holder of a slot never closes the holder's peer (the
\* reconnect livelock the comment in admit describes).
AdmissionSparesPeer ==
    [][\A s \in Sockets :
          att[s] # "admitted" /\ att'[s] = "admitted"
            => Holders(Other(role[s])) \subseteq sockets']_vars

\* Room seen from outside: only the slots, the phones let in since a mac last
\* came and whether the room is established.
Promise == INSTANCE Pairing WITH
    Connections <- Sockets,
    MaxAttempts <- MAX_PAIRING_CYCLES,
    slot        <- [r \in Roles |-> Holders(r)],
    attempts    <- grinds,
    established <- Established

\* What the sockets, chains and awaits of room.js do implements Pairing: slots
\* change hands only by admission, newest wins, displacing a holder never
\* disconnects its peer (the reconnect livelock the comment in admit describes),
\* a phone only ever joins a parked mac, within the budget that only a mac's
\* coming renews, and an established room is only forgotten together with
\* everyone in it.
ImplementsPairing == Promise!Spec

\* closePeerOf does its job: once a mac's loss is pending, a phone that holds
\* its slot is eventually closed, or a mac is parked again.
LossReachesPhone ==
    \A p \in Sockets :
        (p \in Holders("phone") /\ Holders("mac") = {} /\ strayClose = "no")
            ~> (p \notin Holders("phone") \/ Holders("mac") # {} \/ strayClose = "yes")
=============================================================================
