-------------------------- MODULE HostEntryProofs --------------------------
(***************************************************************************)
(* HostEntry, for any number of connections, requests, addresses and rooms *)
(* and any caps: type correctness, exact counters, and the bound on the    *)
(* overshoot of the room cap.                                              *)
(*                                                                         *)
(* The counters are exact because a connection has an address exactly      *)
(* while it is counted (AddressWhileCounted): each end of a connection     *)
(* finds what its upgrade added.  RoomCapSoft is not inductive: what stays *)
(* bounded is the set of rooms that are resident or that a request whose   *)
(* body is awaited will ask for (Claimed), which an eviction never makes   *)
(* larger.                                                                 *)
(***************************************************************************)
EXTENDS HostEntry, FiniteSetTheorems, TLAPS

AddressWhileCounted == \A c \in Conns : conn[c] = "free" <=> ip[c] = NoIp

\* Requests end with the process.
ClosedIsQuiet == phase = "closed" => \A q \in Reqs : request[q] = "free"

\* A request whose headers are in has a room.
TargetKnown == \A q \in Reqs : request[q] \notin {"free", "headers"} => target[q] \in Rooms

Reading == {q \in Reqs : request[q] = "reading"}
Claimed == resident \cup {target[q] : q \in Reading}

Soft ==
    IF BootRooms <= maxRooms + Cardinality(Reqs)
    THEN maxRooms + Cardinality(Reqs) ELSE BootRooms

ClaimedBounded == Cardinality(Claimed) <= Soft

WithinWidth == Cardinality(Claimed) <= Cardinality(resident) + Cardinality(Reqs)

OnIp(i) == {c \in Conns : ip[c] = i}

Base == TypeOK /\ AddressWhileCounted /\ ClosedIsQuiet /\ TargetKnown

Inv == Base /\ CountsExact /\ ClaimedBounded

-----------------------------------------------------------------------------
(* The shape of the state.                                                 *)

LEMMA InitBase == Init => Base
  BY HostEntryAssumption
  DEF Init, Base, TypeOK, AddressWhileCounted, ClosedIsQuiet, TargetKnown

\* A counted connection's address is an address, and both its counts are not
\* zero: the decrements of CloseEvent stay in the naturals.
LEMMA CountedPositive ==
  ASSUME Base, CountsExact, NEW c \in Conns, conn[c] # "free"
  PROVE  /\ ip[c] \in Ips
         /\ totalSockets > 0
         /\ ipSockets[ip[c]] > 0
  <1> USE DEF Base
  <1>1. ip[c] \in Ips BY DEF AddressWhileCounted, TypeOK
  <1>2. IsFiniteSet(Counted) /\ IsFiniteSet(OnIp(ip[c]))
    BY FS_Subset, HostEntryAssumption DEF Counted, OnIp
  <1>3. c \in Counted /\ c \in OnIp(ip[c]) BY DEF Counted, OnIp
  <1>4. Cardinality(Counted) # 0 /\ Cardinality(OnIp(ip[c])) # 0 BY <1>2, <1>3, FS_EmptySet
  <1>5. QED BY <1>1, <1>4 DEF CountsExact, OnIp, TypeOK

LEMMA NextBase == Base /\ CountsExact /\ [Next]_vars => Base'
  <1> SUFFICES ASSUME Base, CountsExact, [Next]_vars PROVE Base'
    OBVIOUS
  <1> USE HostEntryAssumption
      DEF Base, TypeOK, AddressWhileCounted, ClosedIsQuiet, TargetKnown, sockets, counters, requests
  <1>1. ASSUME NEW c \in Conns, NEW i \in Ips, NEW r \in Rooms, HandleUpgrade(c, i, r)
        PROVE  Base'
    BY <1>1 DEF HandleUpgrade
  <1>2. ASSUME NEW c \in Conns, BeginClose(c) PROVE Base'
    BY <1>2 DEF BeginClose, Closing
  <1>3. ASSUME NEW c \in Conns, PeerVanishes(c) PROVE Base'
    BY <1>3 DEF PeerVanishes
  <1>4. ASSUME NEW c \in Conns, CloseEvent(c) PROVE Base'
    <2>1. ip[c] \in Ips /\ totalSockets > 0 /\ ipSockets[ip[c]] > 0
      BY <1>4, CountedPositive DEF CloseEvent, Release
    <2>2. totalSockets' \in Nat /\ ipSockets' \in [Ips -> Nat] BY <1>4, <2>1 DEF CloseEvent
    <2>3. QED BY <1>4, <2>2 DEF CloseEvent, Release
  <1>5. ASSUME NEW c \in Conns, Pong(c) PROVE Base'
    BY <1>5 DEF Pong
  <1>6. ASSUME NEW q \in Reqs, NEW r \in Rooms, HttpCheck(q, r) PROVE Base'
    BY <1>6 DEF HttpCheck
  <1>7. ASSUME NEW q \in Reqs, HttpRun(q) PROVE Base'
    BY <1>7 DEF HttpRun
  <1>8. ASSUME NEW q \in Reqs, HttpConnect(q) \/ HttpAbort(q) \/ HttpOrphan(q) \/ HttpDone(q) PROVE Base'
    BY <1>8 DEF HttpConnect, HttpAbort, HttpOrphan, HttpDone, EndRequest, Running
  <1>9. ASSUME NEW r \in Rooms, Evict(r) PROVE Base'
    BY <1>9 DEF Evict
  <1>10. ASSUME Sweep PROVE Base'
    BY <1>10 DEF Sweep, Counted
  <1>11. ASSUME Shutdown PROVE Base'
    BY <1>11 DEF Shutdown, Closing, Counted
  <1>12. ASSUME WssClosed \/ HttpClosed \/ Boot PROVE Base'
    BY <1>12 DEF WssClosed, HttpClosed, Boot
  <1>13. ASSUME UNCHANGED vars PROVE Base'
    BY <1>13 DEF vars
  <1>14. QED BY <1>1, <1>2, <1>3, <1>4, <1>5, <1>6, <1>7, <1>8, <1>9, <1>10, <1>11, <1>12,
                <1>13 DEF Next

-----------------------------------------------------------------------------
(* The counters.                                                           *)

LEMMA InitCounts == Init => CountsExact
  <1> SUFFICES ASSUME Init PROVE CountsExact
    OBVIOUS
  <1>1. Counted = {} BY DEF Init, Counted
  <1>2. \A i \in Ips : OnIp(i) = {} BY HostEntryAssumption DEF Init, OnIp
  <1>3. QED BY <1>1, <1>2, FS_EmptySet, HostEntryAssumption DEF Init, CountsExact, OnIp

\* Steps that neither open nor end a connection.
LEMMA SameCounts ==
  ASSUME CountsExact, Counted' = Counted, UNCHANGED <<ip, totalSockets, ipSockets>>
  PROVE  CountsExact'
  BY DEF CountsExact

LEMMA UpgradeCounts ==
  ASSUME Base, CountsExact, NEW c \in Conns, NEW i \in Ips, NEW r \in Rooms,
         HandleUpgrade(c, i, r)
  PROVE  CountsExact'
  <1> USE DEF Base
  <1>1. Counted' = Counted \cup {c} /\ c \notin Counted
    BY DEF HandleUpgrade, Counted, TypeOK
  <1>2. totalSockets' = Cardinality(Counted')
    BY <1>1, FS_AddElement, FS_Subset, HostEntryAssumption
    DEF CountsExact, Counted, HandleUpgrade
  <1>3. totalSockets' <= maxTotalSockets
    BY HostEntryAssumption DEF HandleUpgrade, TypeOK
  <1>4. ASSUME NEW j \in Ips
        PROVE  ipSockets'[j] = Cardinality(OnIp(j)') /\ ipSockets'[j] <= maxSocketsPerIp
    <2>1. IsFiniteSet(OnIp(j)) BY FS_Subset, HostEntryAssumption DEF OnIp
    <2>2. ipSockets[j] = Cardinality(OnIp(j)) /\ ipSockets[j] <= maxSocketsPerIp
          /\ ipSockets[j] \in Nat
      BY DEF CountsExact, OnIp, TypeOK
    <2>3. CASE j = i
      <3>1. OnIp(j)' = OnIp(j) \cup {c} /\ c \notin OnIp(j)
        BY <2>3, HostEntryAssumption DEF HandleUpgrade, OnIp, TypeOK, AddressWhileCounted
      <3>2. ipSockets'[j] = ipSockets[j] + 1 /\ ipSockets[j] < maxSocketsPerIp
        BY <2>3 DEF HandleUpgrade, TypeOK
      <3>3. Cardinality(OnIp(j) \cup {c}) = Cardinality(OnIp(j)) + 1
        BY <2>1, <3>1, FS_AddElement
      <3>4. QED BY <2>2, <3>1, <3>2, <3>3, HostEntryAssumption
    <2>4. CASE j # i
      <3>1. OnIp(j)' = OnIp(j)
        BY <2>4, HostEntryAssumption DEF HandleUpgrade, OnIp, TypeOK, AddressWhileCounted
      <3>2. ipSockets'[j] = ipSockets[j] BY <2>4 DEF HandleUpgrade, TypeOK
      <3>3. QED BY <2>2, <3>1, <3>2
    <2>5. QED BY <2>3, <2>4
  <1>5. QED BY <1>2, <1>3, <1>4 DEF CountsExact, OnIp

LEMMA CloseCounts ==
  ASSUME Base, CountsExact, NEW c \in Conns, CloseEvent(c)
  PROVE  CountsExact'
  <1> USE DEF Base
  <1>0. conn[c] # "free" BY DEF CloseEvent, Release
  <1>1. ip[c] \in Ips /\ totalSockets > 0 /\ ipSockets[ip[c]] > 0 BY <1>0, CountedPositive
  <1>2. Counted' = Counted \ {c} /\ c \in Counted
    BY <1>0 DEF CloseEvent, Release, Counted, TypeOK
  <1>3. totalSockets' = Cardinality(Counted')
    BY <1>2, FS_RemoveElement, FS_Subset, HostEntryAssumption
    DEF CountsExact, Counted, CloseEvent
  <1>4. totalSockets' <= maxTotalSockets
    BY HostEntryAssumption DEF CloseEvent, CountsExact, TypeOK
  <1>5. ASSUME NEW j \in Ips
        PROVE  ipSockets'[j] = Cardinality(OnIp(j)') /\ ipSockets'[j] <= maxSocketsPerIp
    <2>1. IsFiniteSet(OnIp(j)) BY FS_Subset, HostEntryAssumption DEF OnIp
    <2>2. ipSockets[j] = Cardinality(OnIp(j)) /\ ipSockets[j] <= maxSocketsPerIp
          /\ ipSockets[j] \in Nat
      BY DEF CountsExact, OnIp, TypeOK
    <2>3. CASE j = ip[c]
      <3>1. OnIp(j)' = OnIp(j) \ {c} /\ c \in OnIp(j)
        BY <2>3, HostEntryAssumption DEF CloseEvent, Release, OnIp, TypeOK
      <3>2. ipSockets'[j] = ipSockets[j] - 1
        BY <1>1, <2>2, <2>3 DEF CloseEvent, TypeOK
      <3>3. Cardinality(OnIp(j) \ {c}) = Cardinality(OnIp(j)) - 1
        BY <2>1, <3>1, FS_RemoveElement
      <3>4. QED BY <2>2, <3>1, <3>2, <3>3, HostEntryAssumption
    <2>4. CASE j # ip[c]
      <3>1. OnIp(j)' = OnIp(j)
        BY <2>4, HostEntryAssumption DEF CloseEvent, Release, OnIp, TypeOK
      <3>2. ipSockets'[j] = ipSockets[j] BY <2>4 DEF CloseEvent, TypeOK
      <3>3. QED BY <2>2, <3>1, <3>2
    <2>5. QED BY <2>3, <2>4
  <1>6. QED BY <1>3, <1>4, <1>5 DEF CountsExact, OnIp

LEMMA NextCounts == Base /\ CountsExact /\ [Next]_vars => CountsExact'
  <1> SUFFICES ASSUME Base, CountsExact, [Next]_vars PROVE CountsExact'
    OBVIOUS
  <1>1. CASE \E c \in Conns, i \in Ips, r \in Rooms : HandleUpgrade(c, i, r)
    BY <1>1, UpgradeCounts
  <1>2. CASE \E c \in Conns : CloseEvent(c)
    BY <1>2, CloseCounts
  <1>3. CASE \/ \E c \in Conns : BeginClose(c) \/ PeerVanishes(c) \/ Pong(c)
             \/ Sweep \/ Shutdown
    <2>1. UNCHANGED <<ip, totalSockets, ipSockets>>
      BY <1>3 DEF BeginClose, PeerVanishes, Pong, Sweep, Shutdown, counters
    <2>2. Counted' = Counted
      BY <1>3 DEF BeginClose, PeerVanishes, Pong, Sweep, Shutdown, Closing, Counted, Base, TypeOK
    <2>3. QED BY <2>1, <2>2, SameCounts
  <1>4. CASE \/ \E q \in Reqs, r \in Rooms : HttpCheck(q, r)
             \/ \E q \in Reqs : HttpConnect(q) \/ HttpRun(q) \/ HttpAbort(q)
                                  \/ HttpOrphan(q) \/ HttpDone(q)
             \/ \E r \in Rooms : Evict(r)
             \/ WssClosed \/ HttpClosed \/ Boot
             \/ UNCHANGED vars
    <2>1. UNCHANGED <<conn, ip, totalSockets, ipSockets>>
      BY <1>4 DEF HttpCheck, HttpConnect, HttpRun, HttpAbort, HttpOrphan, HttpDone, Evict, WssClosed,
                  HttpClosed, Boot, vars, sockets, counters
    <2>2. Counted' = Counted BY <2>1 DEF Counted
    <2>3. QED BY <2>1, <2>2, SameCounts
  <1>5. QED BY <1>1, <1>2, <1>3, <1>4 DEF Next

-----------------------------------------------------------------------------
(* The room cap.                                                           *)

LEMMA SoftType == Cardinality(Reqs) \in Nat /\ Soft \in Nat
                  /\ maxRooms + Cardinality(Reqs) <= Soft /\ BootRooms <= Soft
  BY FS_CardinalityType, HostEntryAssumption DEF Soft

LEMMA ClaimedFinite == Base => IsFiniteSet(resident) /\ IsFiniteSet(Claimed)
  <1> SUFFICES ASSUME Base PROVE resident \subseteq Rooms /\ Claimed \subseteq Rooms
    BY FS_Subset, HostEntryAssumption
  <1>1. QED BY DEF Base, TypeOK, TargetKnown, Claimed, Reading

\* Requests that await a body ask for no more rooms than there are requests.
LEMMA ClaimedByWidth == Base => WithinWidth
  <1> SUFFICES ASSUME Base PROVE WithinWidth
    OBVIOUS
  <1> DEFINE asked == {target[q] : q \in Reading}
             f == [q \in Reading |-> target[q]]
  <1>1. IsFiniteSet(Reading) /\ Cardinality(Reading) <= Cardinality(Reqs)
    BY FS_Subset, HostEntryAssumption DEF Reading
  <1>2. f \in Surjection(Reading, asked) BY DEF Surjection
  <1>3. IsFiniteSet(asked) /\ Cardinality(asked) <= Cardinality(Reading)
    BY <1>1, <1>2, FS_Surjection
  <1>4. Claimed = resident \cup asked BY DEF Claimed
  <1>5. IsFiniteSet(resident) BY ClaimedFinite
  <1> HIDE DEF asked, f
  <1>6. IsFiniteSet(resident \cap asked) BY <1>5, FS_Intersection
  <1>7. Cardinality(Claimed)
          = Cardinality(resident) + Cardinality(asked) - Cardinality(resident \cap asked)
    BY <1>3, <1>4, <1>5, FS_Union
  <1>8. /\ Cardinality(resident) \in Nat /\ Cardinality(asked) \in Nat
        /\ Cardinality(resident \cap asked) \in Nat /\ Cardinality(Reading) \in Nat
        /\ Cardinality(Reqs) \in Nat
    BY <1>1, <1>3, <1>5, <1>6, FS_CardinalityType, HostEntryAssumption
  <1>9. QED BY <1>1, <1>3, <1>7, <1>8 DEF WithinWidth

LEMMA InitClaimed == Init => ClaimedBounded
  <1> SUFFICES ASSUME Init PROVE ClaimedBounded
    OBVIOUS
  <1>1. Claimed = resident BY DEF Init, Claimed, Reading
  <1>2. Cardinality(resident) <= BootRooms /\ resident \subseteq Rooms BY DEF Init
  <1>3. Cardinality(resident) \in Nat
    BY <1>2, FS_Subset, FS_CardinalityType, HostEntryAssumption
  <1>4. QED BY <1>1, <1>2, <1>3, SoftType, HostEntryAssumption DEF ClaimedBounded

\* A step that claims nothing new.
LEMMA ClaimedShrinks ==
  ASSUME Base, ClaimedBounded, Claimed' \subseteq Claimed
  PROVE  ClaimedBounded'
  <1>1. IsFiniteSet(Claimed) BY ClaimedFinite
  <1>2. IsFiniteSet(Claimed') /\ Cardinality(Claimed') <= Cardinality(Claimed)
    BY <1>1, FS_Subset
  <1>3. Cardinality(Claimed) \in Nat /\ Cardinality(Claimed') \in Nat
    BY <1>1, <1>2, FS_CardinalityType
  <1>4. QED BY <1>2, <1>3, SoftType DEF ClaimedBounded, Soft

\* A step that found room under the cap: at most maxRooms are resident after
\* it, and what is asked for besides is bounded by the concurrency.
LEMMA ClaimedUnderCap ==
  ASSUME Base', Cardinality(resident') <= maxRooms
  PROVE  ClaimedBounded'
  <1>1. WithinWidth' BY ClaimedByWidth, PTL
  <1>2. (IsFiniteSet(resident) /\ IsFiniteSet(Claimed))' BY ClaimedFinite, PTL
  <1>3. Cardinality(resident') \in Nat /\ Cardinality(Claimed') \in Nat
    BY <1>2, FS_CardinalityType
  <1>4. QED BY <1>1, <1>3, SoftType, HostEntryAssumption DEF WithinWidth, ClaimedBounded, Soft

\* RoomFits let r in: it was resident, or there was room for one more.
LEMMA UpgradeClaimed ==
  ASSUME Base, Base', ClaimedBounded, NEW c \in Conns, NEW i \in Ips, NEW r \in Rooms,
         HandleUpgrade(c, i, r)
  PROVE  ClaimedBounded'
  <1>1. resident' = resident \cup {r} /\ UNCHANGED <<request, target>> /\ RoomFits(r)
    BY DEF HandleUpgrade, requests
  <1>2. CASE r \in resident
    BY <1>1, <1>2, ClaimedShrinks DEF Claimed, Reading
  <1>3. CASE r \notin resident
    <2>1. IsFiniteSet(resident) BY ClaimedFinite
    <2>2. Cardinality(resident') = Cardinality(resident) + 1 BY <1>1, <1>3, <2>1, FS_AddElement
    <2>3. QED BY <1>1, <1>3, <2>1, <2>2, FS_CardinalityType, ClaimedUnderCap, HostEntryAssumption
              DEF RoomFits
  <1>4. QED BY <1>2, <1>3

LEMMA CheckClaimed ==
  ASSUME Base, Base', ClaimedBounded, NEW q \in Reqs, NEW r \in Rooms, HttpCheck(q, r)
  PROVE  ClaimedBounded'
  <1>1. /\ resident' = resident /\ RoomFits(r)
        /\ request' = [request EXCEPT ![q] = "reading"]
        /\ target' = [target EXCEPT ![q] = r]
    BY DEF HttpCheck
  <1>2. CASE r \in resident
    <2>1. Claimed' \subseteq Claimed
      BY <1>1, <1>2 DEF Claimed, Reading, Base, TypeOK
    <2>2. QED BY <2>1, ClaimedShrinks
  <1>3. CASE r \notin resident
    <2>1. IsFiniteSet(resident) BY ClaimedFinite
    <2>2. QED BY <1>1, <1>3, <2>1, FS_CardinalityType, ClaimedUnderCap, HostEntryAssumption
              DEF RoomFits
  <1>4. QED BY <1>2, <1>3

LEMMA NextClaimed == Base /\ Base' /\ ClaimedBounded /\ [Next]_vars => ClaimedBounded'
  <1> SUFFICES ASSUME Base, Base', ClaimedBounded, [Next]_vars PROVE ClaimedBounded'
    OBVIOUS
  <1> USE DEF Base, TypeOK
  <1>1. CASE \E c \in Conns, i \in Ips, r \in Rooms : HandleUpgrade(c, i, r)
    BY <1>1, UpgradeClaimed
  <1>2. CASE \E q \in Reqs, r \in Rooms : HttpCheck(q, r)
    BY <1>2, CheckClaimed
  <1>3. CASE \E q \in Reqs : HttpRun(q)
    BY <1>3, ClaimedShrinks DEF HttpRun, Claimed, Reading
  <1>4. CASE \E q \in Reqs : HttpConnect(q) \/ HttpAbort(q) \/ HttpOrphan(q) \/ HttpDone(q)
    BY <1>4, ClaimedShrinks
    DEF HttpConnect, HttpAbort, HttpOrphan, HttpDone, EndRequest, Running, Claimed, Reading
  <1>5. CASE HttpClosed \/ \E r \in Rooms : Evict(r)
    BY <1>5, ClaimedShrinks DEF HttpClosed, Evict, Claimed, Reading, requests
  <1>6. CASE Boot
    <2>1. Claimed' = resident' BY <1>6 DEF Boot, ClosedIsQuiet, Claimed, Reading, requests
    <2>2. Cardinality(resident') <= BootRooms BY <1>6 DEF Boot
    <2>3. IsFiniteSet(resident')
      BY FS_Subset, HostEntryAssumption
    <2>4. QED BY <2>1, <2>2, <2>3, FS_CardinalityType, SoftType, HostEntryAssumption
              DEF ClaimedBounded, Soft
  <1>7. CASE \/ \E c \in Conns : BeginClose(c) \/ PeerVanishes(c) \/ CloseEvent(c) \/ Pong(c)
             \/ Sweep \/ Shutdown \/ WssClosed \/ UNCHANGED vars
    <2>1. UNCHANGED <<resident, request, target>>
      BY <1>7 DEF BeginClose, PeerVanishes, CloseEvent, Release, Pong, Sweep, Shutdown, WssClosed,
                  vars, requests
    <2>2. QED BY <2>1, ClaimedShrinks DEF Claimed, Reading
  <1>8. QED BY <1>1, <1>2, <1>3, <1>4, <1>5, <1>6, <1>7 DEF Next

-----------------------------------------------------------------------------
(* The theorems.                                                           *)

LEMMA Invariance == Spec => []Inv
  BY InitBase, InitCounts, InitClaimed, NextBase, NextCounts, NextClaimed, PTL DEF Spec, Inv

\* The entry's state stays of its types; no counter goes below zero.
THEOREM TypeCorrect == Spec => []TypeOK
  BY Invariance, PTL DEF Inv, Base

\* The 'close' callback of an upgrade undoes what the upgrade counted, once,
\* whichever way the connection ended: the counters handleUpgrade compares
\* with the caps are the numbers of connections, and the caps hold exactly.
THEOREM CountersAreExact == Spec => []CountsExact
  BY Invariance, PTL DEF Inv

\* handleRequest checks maxRooms before it awaits the body: the rooms resident
\* exceed the cap by at most the requests in flight together, for ever.
THEOREM RoomCapOvershoot == Spec => []RoomCapSoft
  <1>1. Inv => RoomCapSoft
    <2> SUFFICES ASSUME Inv PROVE RoomCapSoft
      OBVIOUS
    <2>1. IsFiniteSet(Claimed) BY ClaimedFinite DEF Inv
    <2>2. resident \subseteq Claimed BY DEF Claimed
    <2>3. IsFiniteSet(resident) /\ Cardinality(resident) <= Cardinality(Claimed)
      BY <2>1, <2>2, FS_Subset
    <2>4. Cardinality(resident) <= Soft
      BY <2>1, <2>3, FS_CardinalityType, SoftType DEF Inv, ClaimedBounded
    <2>5. QED BY <2>4 DEF RoomCapSoft, Soft
  <1>2. QED BY <1>1, Invariance, PTL
=============================================================================
