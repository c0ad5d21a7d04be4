----------------------------- MODULE ShardHost -----------------------------
(***************************************************************************)
(* One relay host in distributed mode: the shard map it holds and how it   *)
(* adopts a fetched one (src/sharding/shardMapStore.js, shardMapPoller.js, *)
(* ownedSet.js), the ownership gate in front of upgrades and HTTP requests *)
(* (admission.js, host/server.js), and the scheduler that drains the rooms *)
(* of relinquished buckets (drainScheduler.js, Runtime.closeRoom).         *)
(*                                                                         *)
(* The CDN answers a poll with any published map: edges lag, and a slow    *)
(* answer can arrive after a newer one.  A fetch that fails, or whose text *)
(* does not parse or validate, changes nothing once the host is up.        *)
(*                                                                         *)
(* The gate, runtime.get and acceptWebSocket of an upgrade have only       *)
(* microtasks between them, so an upgrade is one step.  An HTTP request    *)
(* passes the gate before its body is read and runs after.                 *)
(*                                                                         *)
(* One Tick is one second.  Tokens are counted in units of 1/RateDen, for  *)
(* an eviction rate of RateNum/RateDen rooms a second; the time since the  *)
(* last run is kept as the tokens it has accrued.  The order in which the  *)
(* scheduler visits the buckets is left open.                              *)
(***************************************************************************)
EXTENDS ShardMap

CONSTANTS
    Rooms,
    BucketOf,         \* bucketForRoomName
    Published,        \* the maps ever put on the CDN, bad ones included
    SelfHost,         \* the host's own name
    DrainDelay,       \* RESHARD_DRAIN_DELAY, in seconds
    RateNum, RateDen, \* RESHARD_EVICTION_RATE, rooms a second
    BootMaxRetries

ASSUME ShardHostAssumption ==
    /\ IsFiniteSet(Rooms)
    /\ BucketOf \in [Rooms -> Buckets]
    /\ Published \subseteq Maps
    /\ SelfHost \in Hosts
    /\ DrainDelay \in Nat
    /\ RateNum \in Nat \ {0} /\ RateDen \in Nat \ {0}
    /\ BootMaxRetries \in Nat \ {0}

VARIABLES
    phase,     \* boot (fetching the first map), up (listening), dead
    attempts,  \* failed boot fetches
    version,   \* of the map held, -1 before the first
    owned,     \* buckets it assigns to this host
    live,      \* rooms with at least one socket
    reading,   \* rooms with an HTTP request past the gate, body not yet read
    draining,  \* buckets with a drain episode
    defer,     \* per draining bucket: time left until its deadline
    evicted,   \* per draining bucket: rooms closed in this episode
    tokens,    \* token bucket of the scheduler
    accrued,   \* tokens accrued since its last run
    debt       \* history: evictions not yet paid for by elapsed time

store == <<version, owned>>
episodes == <<draining, defer, evicted>>
meter == <<tokens, accrued, debt>>
vars == <<phase, attempts, store, live, reading, episodes, meter>>

\* Variant: one second's worth, even below one whole token.
CapBelowOne == RateNum

\* The burst cap: one second's worth, and at least one whole token.
Cap == IF RateNum >= RateDen THEN RateNum ELSE RateDen

RoomsIn(b) == {r \in live : BucketOf[r] = b}

TypeOK ==
    /\ phase \in {"boot", "up", "dead"}
    /\ attempts \in Nat
    /\ version \in Nat \cup {-1}
    /\ owned \subseteq Buckets
    /\ live \subseteq Rooms
    /\ reading \subseteq Rooms
    /\ draining \subseteq Buckets
    /\ defer \in [Buckets -> 0..DrainDelay]
    /\ evicted \in [Buckets -> SUBSET Rooms]
    /\ tokens \in 0..Cap
    /\ accrued \in 0..Cap
    /\ debt \in Nat

Init ==
    /\ phase = "boot"
    /\ attempts = 0
    /\ version = -1
    /\ owned = {}
    /\ live = {} /\ reading = {}
    /\ draining = {}
    /\ defer = [b \in Buckets |-> 0]
    /\ evicted = [b \in Buckets |-> {}]
    /\ tokens = 0 /\ accrued = 0 /\ debt = 0

-----------------------------------------------------------------------------
(* The map.                                                                *)

\* relinquish every bucket of R, reacquire every bucket of A.
ApplyDiff(R, A) ==
    /\ draining' = (draining \cup R) \ A
    /\ defer' = [b \in Buckets |-> IF b \in R THEN DrainDelay ELSE defer[b]]
    /\ evicted' = [b \in Buckets |-> IF b \in R \cup A THEN {} ELSE evicted[b]]

\* fetchOnce with a valid newer map: applyFetched, then onAdopt.
Adopt(m) ==
    /\ phase \in {"boot", "up"}
    /\ m.version > version
    /\ ValidateShardMap(m) = "ok"
    /\ version' = m.version
    /\ owned' = OwnedBuckets(m.ranges, SelfHost)
    /\ ApplyDiff(owned \ owned', owned' \ owned)
    /\ phase' = "up"
    /\ UNCHANGED <<attempts, live, reading, meter>>

\* fetchOnce fails before the first map: boot retries, then gives up.
BootFetchFails ==
    /\ phase = "boot"
    /\ attempts' = attempts + 1
    /\ phase' = IF attempts' >= BootMaxRetries THEN "dead" ELSE "boot"
    /\ UNCHANGED <<store, live, reading, episodes, meter>>

\* The process stops, or is restarted by the supervisor: memory is gone.
Restart ==
    /\ phase' = "boot"
    /\ attempts' = 0
    /\ version' = -1
    /\ owned' = {}
    /\ live' = {} /\ reading' = {}
    /\ draining' = {}
    /\ defer' = [b \in Buckets |-> 0]
    /\ evicted' = [b \in Buckets |-> {}]
    /\ tokens' = 0 /\ accrued' = 0
    /\ UNCHANGED debt

-----------------------------------------------------------------------------
(* The gate.                                                               *)

OwnershipGate(r) == phase = "up" /\ BucketOf[r] \in owned

HandleUpgrade(r) ==
    /\ OwnershipGate(r)
    /\ live' = live \cup {r}
    /\ UNCHANGED <<phase, attempts, store, reading, episodes, meter>>

\* The last socket of a room goes.
Disconnect(r) ==
    /\ r \in live
    /\ live' = live \ {r}
    /\ UNCHANGED <<phase, attempts, store, reading, episodes, meter>>

HttpGate(r) ==
    /\ OwnershipGate(r)
    /\ reading' = reading \cup {r}
    /\ UNCHANGED <<phase, attempts, store, live, episodes, meter>>

\* The body is in: the request runs in its room (/attest, /register, /delete).
HttpRun(r) ==
    /\ r \in reading
    /\ reading' = reading \ {r}
    /\ UNCHANGED <<phase, attempts, store, live, episodes, meter>>

-----------------------------------------------------------------------------
(* The drain scheduler.                                                    *)

\* Variant: the token bucket is not capped.
RefillUncapped == tokens + accrued

\* Tokens at the start of a run.
Refill == Min({Cap, tokens + accrued})

Due == {b \in draining : defer[b] = 0}
Pending(b) == RoomsIn(b) \ evicted[b]

\* Variant: an episode is dropped although a room was starved.
PassDropsStarved(D, E) ==
    /\ D = Due
    /\ E \subseteq UNION {Pending(b) : b \in D}
    /\ Cardinality(E) * RateDen <= Refill

\* A pass over the due buckets evicts the rooms E and completes the episodes
\* D.  Either every due bucket is completed, or the pass stopped in a bucket
\* with a room left and less than one token.
Pass(D, E) ==
    /\ D \subseteq Due
    /\ Cardinality(E) * RateDen <= Refill
    /\ \A b \in D : Pending(b) \subseteq E
    /\ \/ /\ D = Due
          /\ E = UNION {Pending(b) : b \in D}
       \/ \E last \in Due \ D :
            /\ E \ UNION {Pending(b) : b \in D} \subseteq Pending(last)
            /\ ~(Pending(last) \subseteq E)
            /\ Refill - Cardinality(E) * RateDen < RateDen

\* Variant: evictions are not paid for.
RunUnpaid ==
    /\ phase = "up"
    /\ \E D \in SUBSET draining, E \in SUBSET live :
          /\ Pass(D, E)
          /\ live' = live \ E
          /\ draining' = draining \ D
          /\ evicted' = [b \in Buckets |->
                IF b \in D THEN {}
                ELSE evicted[b] \cup {r \in E : BucketOf[r] = b}]
          /\ debt' = debt + Cardinality(E) * RateDen
    /\ tokens' = Refill
    /\ accrued' = 0
    /\ UNCHANGED <<phase, attempts, store, reading, defer>>

Run ==
    /\ phase = "up"
    /\ \E D \in SUBSET draining, E \in SUBSET live :
          /\ Pass(D, E)
          /\ live' = live \ E
          /\ draining' = draining \ D
          /\ evicted' = [b \in Buckets |->
                IF b \in D THEN {}
                ELSE evicted[b] \cup {r \in E : BucketOf[r] = b}]
          /\ tokens' = Refill - Cardinality(E) * RateDen
          /\ debt' = debt + Cardinality(E) * RateDen
    /\ accrued' = 0
    /\ UNCHANGED <<phase, attempts, store, reading, defer>>

Tick ==
    /\ defer' = [b \in Buckets |-> IF defer[b] = 0 THEN 0 ELSE defer[b] - 1]
    /\ accrued' = Min({Cap, accrued + RateNum})
    /\ debt' = IF debt <= RateNum THEN 0 ELSE debt - RateNum
    /\ UNCHANGED <<phase, attempts, store, live, reading, draining, evicted, tokens>>

Next ==
    \/ \E m \in Published : Adopt(m)
    \/ BootFetchFails \/ Restart
    \/ \E r \in Rooms : HandleUpgrade(r) \/ Disconnect(r) \/ HttpGate(r) \/ HttpRun(r)
    \/ Run \/ Tick

Spec == Init /\ [][Next]_vars

\* Time goes on, and the ticker's interval runs the scheduler.
FairSpec == Spec /\ WF_vars(Tick) /\ WF_vars(Run)

-----------------------------------------------------------------------------
(* Properties.                                                             *)

\* No room is stranded: a host serves a room only while it owns its bucket or
\* is draining it, whatever maps arrive in whatever order; so every room of a
\* relinquished bucket is on its way to the new owner.
LiveIsOwnedOrDraining ==
    \A r \in live : BucketOf[r] \in owned \cup draining

\* Cancel-on-re-acquire: the drain never works on a bucket the host owns.
DrainSparesOwned == draining \cap owned = {}

\* An episode never has to deal with a room it has closed already: the gate
\* keeps an evicted room out until the episode ends.
EvictedOnce == \A b \in draining : evicted[b] \cap live = {}

\* The gate is the map: a host that is up holds some published map that
\* validates, and admits exactly the rooms that a client looking them up in
\* that map is sent to it for.
GateFollowsLookup ==
    phase = "up" =>
        \E m \in Published :
            /\ ValidateShardMap(m) = "ok" /\ m.version = version
            /\ \A r \in Rooms :
                  OwnershipGate(r) <=> HostForBucket(m.ranges, BucketOf[r]) = SelfHost

\* RESHARD_EVICTION_RATE: over any k seconds at most Cap + k * rate rooms are
\* evicted, however the runs of the ticker are delayed and bunched.
EvictionPaced == debt <= Cap

\* Every drain ends: the bucket's rooms are gone or the bucket is back, also
\* at a rate below one room a second.
DrainCompletes == \A b \in Buckets : b \in draining ~> b \notin draining

\* Reject-on-doubt for HTTP: a request runs in a room only if the host's
\* current map gives it the bucket.
HttpWhereOwned ==
    [][\A r \in Rooms : r \in reading \ reading' /\ phase' = "up"
          => BucketOf[r] \in owned]_vars
=============================================================================
