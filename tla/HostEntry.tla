----------------------------- MODULE HostEntry -----------------------------
(***************************************************************************)
(* The entry of one relay process (host/server.js): the caps every upgrade *)
(* and HTTP request passes, the counters behind them, the keepalive sweep, *)
(* and the orderly shutdown.                                               *)
(*                                                                         *)
(* Grain of atomicity.  handleUpgrade checks and, through ws, runs its     *)
(* callback in one step: the counters move and runtime.get registers the   *)
(* room before anything else runs.  An HTTP client connects, and its       *)
(* headers may take their time or never end; handleRequest then checks the *)
(* room cap, awaits the body (a step of the client's), and only then asks  *)
(* for the room.                                                           *)
(*                                                                         *)
(* Abstracted: the entry gate and the rate limiters (a request they refuse *)
(* changes nothing here), which alarm keeps a room resident (an idle room  *)
(* may stay or go), and whose close it is that a connection begins.        *)
(* ShardHost has the ownership gate, Housekeeping the registry.            *)
(***************************************************************************)
EXTENDS Naturals, FiniteSets

CONSTANTS
    Conns,            \* WebSocket connections, identities reused
    Reqs,             \* HTTP connections with a request, identities reused
    Ips, Rooms,
    NoIp, NoRoom,     \* of a free connection or request
    maxSocketsPerIp, maxTotalSockets, maxRooms,
    BootRooms         \* bound on the rooms rehydrate makes resident

ASSUME HostEntryAssumption ==
    /\ IsFiniteSet(Conns) /\ IsFiniteSet(Reqs) /\ IsFiniteSet(Rooms)
    /\ maxSocketsPerIp \in Nat \ {0} /\ maxTotalSockets \in Nat \ {0}
    /\ maxRooms \in Nat \ {0} /\ BootRooms \in Nat
    /\ NoIp \notin Ips /\ NoRoom \notin Rooms

VARIABLES
    phase,         \* up; close() awaits wss, then http; closed
    conn,          \* per connection: free, open, closing (either side began)
    ip, room,      \* its rate-limit key and its room
    isAlive,       \* connections with ws.isAlive
    gone,          \* open connections whose peer has vanished without a word
    totalSockets, ipSockets,
    resident,      \* runtime.rooms
    request,       \* per request: free, headers (connected, headers not in),
                   \*   reading, running, orphan (running, its client's
                   \*   connection over)
    target         \* its room

sockets == <<conn, ip, room, isAlive, gone>>
counters == <<totalSockets, ipSockets>>
requests == <<request, target>>
vars == <<phase, sockets, counters, resident, requests>>

TypeOK ==
    /\ phase \in {"up", "wss", "http", "closed"}
    /\ conn \in [Conns -> {"free", "open", "closing"}]
    /\ ip \in [Conns -> Ips \cup {NoIp}]
    /\ room \in [Conns -> Rooms \cup {NoRoom}]
    /\ isAlive \subseteq Conns
    /\ gone \subseteq Conns
    /\ totalSockets \in Nat
    /\ ipSockets \in [Ips -> Nat]
    /\ resident \subseteq Rooms
    /\ request \in [Reqs -> {"free", "headers", "reading", "running", "orphan"}]
    /\ target \in [Reqs -> Rooms \cup {NoRoom}]

\* listen: rehydrate makes rooms with a persisted alarm resident, then the
\* port opens.
Init ==
    /\ phase = "up"
    /\ conn = [c \in Conns |-> "free"]
    /\ ip = [c \in Conns |-> NoIp]
    /\ room = [c \in Conns |-> NoRoom]
    /\ isAlive = {} /\ gone = {}
    /\ totalSockets = 0
    /\ ipSockets = [i \in Ips |-> 0]
    /\ resident \in {B \in SUBSET Rooms : Cardinality(B) <= BootRooms}
    /\ request = [q \in Reqs |-> "free"]
    /\ target = [q \in Reqs |-> NoRoom]

Counted == {c \in Conns : conn[c] # "free"}
Running == {q \in Reqs : request[q] \in {"running", "orphan"}}

-----------------------------------------------------------------------------
(* Admission.                                                              *)

\* Variant: the cap is not asked.
RoomFitsAlways(r) == TRUE

RoomFits(r) == r \in resident \/ Cardinality(resident) < maxRooms

\* handleUpgrade, accepted, and the callback it hands to wss.handleUpgrade.
HandleUpgrade(c, i, r) ==
    /\ phase = "up"
    /\ conn[c] = "free"
    /\ ipSockets[i] < maxSocketsPerIp
    /\ totalSockets < maxTotalSockets
    /\ RoomFits(r)
    /\ conn' = [conn EXCEPT ![c] = "open"]
    /\ ip' = [ip EXCEPT ![c] = i]
    /\ room' = [room EXCEPT ![c] = r]
    /\ isAlive' = isAlive \cup {c}
    /\ totalSockets' = totalSockets + 1
    /\ ipSockets' = [ipSockets EXCEPT ![i] = @ + 1]
    /\ resident' = resident \cup {r}
    /\ UNCHANGED <<phase, gone, requests>>

\* A TCP connection of which no request is complete yet.  The port is open
\* until httpServer.close.
HttpConnect(q) ==
    /\ phase \in {"up", "wss"}
    /\ request[q] = "free"
    /\ request' = [request EXCEPT ![q] = "headers"]
    /\ UNCHANGED <<phase, sockets, counters, resident, target>>

\* The headers are in: handleRequest up to the body, also of a connection that
\* was there when the port was closed.
HttpCheck(q, r) ==
    /\ request[q] = "headers"
    /\ RoomFits(r)
    /\ request' = [request EXCEPT ![q] = "reading"]
    /\ target' = [target EXCEPT ![q] = r]
    /\ UNCHANGED <<phase, sockets, counters, resident>>

EndRequest(q) ==
    /\ request' = [request EXCEPT ![q] = "free"]
    /\ target' = [target EXCEPT ![q] = NoRoom]

\* The body is in: get the room, pin it, run the handler.
HttpRun(q) ==
    /\ request[q] = "reading"
    /\ request' = [request EXCEPT ![q] = "running"]
    /\ resident' = resident \cup {target[q]}
    /\ UNCHANGED <<phase, sockets, counters, target>>

\* Refused, the body too large, or the client goes away before it is in.
HttpAbort(q) ==
    /\ request[q] \in {"headers", "reading"}
    /\ EndRequest(q)
    /\ UNCHANGED <<phase, sockets, counters, resident>>

\* The client goes away while the handler runs.
HttpOrphan(q) ==
    /\ request[q] = "running"
    /\ request' = [request EXCEPT ![q] = "orphan"]
    /\ UNCHANGED <<phase, sockets, counters, resident, target>>

\* The handler returns or throws: unpin, answer.
HttpDone(q) ==
    /\ q \in Running
    /\ EndRequest(q)
    /\ UNCHANGED <<phase, sockets, counters, resident>>

\* maybeEvict: nothing holds the room in memory.
Evict(r) ==
    /\ r \in resident
    /\ \A c \in Conns : room[c] # r
    /\ \A q \in Running : target[q] # r
    /\ resident' = resident \ {r}
    /\ UNCHANGED <<phase, sockets, counters, requests>>

-----------------------------------------------------------------------------
(* The life of a connection.                                               *)

\* ws.close, as acceptWebSocket wraps it, on the sockets of C: they leave their
\* rooms at once, the connections end with their 'close' events.
Closing(C) ==
    /\ conn' = [c \in Conns |-> IF c \in C THEN "closing" ELSE conn[c]]
    /\ room' = [c \in Conns |-> IF c \in C THEN NoRoom ELSE room[c]]

\* A close frame, from the peer or from the relay: a room's decision, or the
\* 1011 of an upgrade that threw.
BeginClose(c) ==
    /\ conn[c] = "open"
    /\ Closing({c})
    /\ UNCHANGED <<phase, ip, isAlive, gone, counters, resident, requests>>

\* The peer's host or network is gone, and nothing tells the relay.
PeerVanishes(c) ==
    /\ conn[c] = "open"
    /\ gone' = gone \cup {c}
    /\ UNCHANGED <<phase, conn, ip, room, isAlive, counters, resident, requests>>

Release(c) ==
    /\ conn[c] # "free"
    /\ conn' = [conn EXCEPT ![c] = "free"]
    /\ ip' = [ip EXCEPT ![c] = NoIp]
    /\ room' = [room EXCEPT ![c] = NoRoom]
    /\ isAlive' = isAlive \ {c}
    /\ gone' = gone \ {c}
    /\ UNCHANGED <<phase, resident, requests>>

\* Variant: the address's count is forgotten with its first connection.
CloseEventDropsIp(c) ==
    /\ Release(c)
    /\ totalSockets' = totalSockets - 1
    /\ ipSockets' = [ipSockets EXCEPT ![ip[c]] = 0]

\* Variant: the ends of a connection that did not answer are counted twice.
CloseEventCountsTwice(c) ==
    /\ Release(c)
    /\ totalSockets' = IF c \in isAlive THEN totalSockets - 1 ELSE totalSockets - 2
    /\ ipSockets' = [ipSockets EXCEPT ![ip[c]] = IF @ <= 1 THEN 0 ELSE @ - 1]

\* 'close': a reset, the end of a close handshake or its time-out, the
\* terminate of a sweep, or TCP giving up.
CloseEvent(c) ==
    /\ Release(c)
    /\ totalSockets' = totalSockets - 1
    /\ ipSockets' = [ipSockets EXCEPT ![ip[c]] = IF @ <= 1 THEN 0 ELSE @ - 1]

\* A ping is answered.
Pong(c) ==
    /\ conn[c] # "free"
    /\ c \notin isAlive \cup gone
    /\ isAlive' = isAlive \cup {c}
    /\ UNCHANGED <<phase, conn, ip, room, gone, counters, resident, requests>>

\* Variant: pinging takes a connection for alive.
SweepForgives ==
    /\ phase = "up"
    /\ Counted # {}
    /\ conn' = [c \in Conns |-> IF c \in Counted \ isAlive THEN "closing" ELSE conn[c]]
    /\ UNCHANGED <<phase, ip, room, isAlive, gone, counters, resident, requests>>

\* sweepKeepalive: terminate what has not answered the last ping (it leaves its
\* room with its 'close' event), ping the rest.
Sweep ==
    /\ phase = "up"
    /\ Counted # {}
    /\ conn' = [c \in Conns |-> IF c \in Counted \ isAlive THEN "closing" ELSE conn[c]]
    /\ isAlive' = {}
    /\ UNCHANGED <<phase, ip, room, gone, counters, resident, requests>>

-----------------------------------------------------------------------------
(* Shutdown.                                                               *)

\* Variant: the clients are not asked to close.
ShutdownWaits ==
    /\ phase = "up"
    /\ phase' = "wss"
    /\ UNCHANGED <<sockets, counters, resident, requests>>

\* close(): timers off, every client gets a close frame.
Shutdown ==
    /\ phase = "up"
    /\ phase' = "wss"
    /\ Closing(Counted)
    /\ UNCHANGED <<ip, isAlive, gone, counters, resident, requests>>

\* wss.close calls back when its last client is gone.
WssClosed ==
    /\ phase = "wss"
    /\ Counted = {}
    /\ phase' = "http"
    /\ UNCHANGED <<sockets, counters, resident, requests>>

\* httpServer.close ends idle connections and calls back when no other is left.
\* One whose headers are incomplete is not idle, and the check that would time
\* it out stops with the call.  runtime.shutdown and backend.close follow, and
\* the process ends.
HttpClosed ==
    /\ phase = "http"
    /\ \A q \in Reqs : request[q] \in {"free", "orphan"}
    /\ phase' = "closed"
    /\ resident' = {}
    /\ request' = [q \in Reqs |-> "free"]
    /\ target' = [q \in Reqs |-> NoRoom]
    /\ UNCHANGED <<sockets, counters>>

\* The supervisor starts the next process.
Boot ==
    /\ phase = "closed"
    /\ phase' = "up"
    /\ resident' \in {B \in SUBSET Rooms : Cardinality(B) <= BootRooms}
    /\ UNCHANGED <<sockets, counters, requests>>

Next ==
    \/ \E c \in Conns, i \in Ips, r \in Rooms : HandleUpgrade(c, i, r)
    \/ \E c \in Conns : BeginClose(c) \/ PeerVanishes(c) \/ CloseEvent(c) \/ Pong(c)
    \/ \E q \in Reqs, r \in Rooms : HttpCheck(q, r)
    \/ \E q \in Reqs : HttpConnect(q) \/ HttpRun(q) \/ HttpAbort(q) \/ HttpOrphan(q) \/ HttpDone(q)
    \/ \E r \in Rooms : Evict(r)
    \/ Sweep \/ Shutdown \/ WssClosed \/ HttpClosed \/ Boot

Spec == Init /\ [][Next]_vars

\* The keepalive interval fires, a connection that began to close ends (ws
\* destroys it after its own time-out), a handler's promise settles, and the
\* callbacks of close() are called.  Nothing is assumed of clients.
FairSpec ==
    /\ Spec
    /\ WF_vars(Sweep) /\ WF_vars(WssClosed) /\ WF_vars(HttpClosed)
    /\ \A c \in Conns : WF_vars(conn[c] = "closing" /\ CloseEvent(c))
    /\ \A q \in Reqs : WF_vars(HttpDone(q))

-----------------------------------------------------------------------------
(* Properties.                                                             *)

\* The counters the caps are checked against are right through every end a
\* connection can come to, and so the caps on sockets are exact: the comment
\* on concurrent upgrades in handleUpgrade allows for more.
CountsExact ==
    /\ totalSockets = Cardinality(Counted)
    /\ totalSockets <= maxTotalSockets
    /\ \A i \in Ips :
          /\ ipSockets[i] = Cardinality({c \in Conns : ip[c] = i})
          /\ ipSockets[i] <= maxSocketsPerIp

\* The room cap is soft by the width of the HTTP concurrency and no more: a
\* check made before a body was read is used after it (handleRequest), and
\* rooms that a check found resident may have been evicted meanwhile, but the
\* overshoot does not add up over time.
RoomCapSoft ==
    LET soft == maxRooms + Cardinality(Reqs) IN
    Cardinality(resident) <= IF BootRooms <= soft THEN soft ELSE BootRooms

\* sweepKeepalive: a half-open connection does not pin a slot, its address's
\* count or its room for ever, also when the process is shutting down and the
\* sweep has stopped.
DeadPeerReaped == \A c \in Conns : c \in gone ~> c \notin gone

\* close(): the process ends, however many WebSocket peers are half-open, unless
\* HTTP clients keep it waiting for headers or bodies without end: of those
\* nothing rids it, so the premise is needed.
ShutdownCompletes ==
    []<>(\A q \in Reqs : request[q] \notin {"headers", "reading"})
        => (phase = "wss" ~> phase = "closed")
=============================================================================
