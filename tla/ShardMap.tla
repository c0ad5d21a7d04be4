------------------------------ MODULE ShardMap ------------------------------
(***************************************************************************)
(* The shard map (src/sharding/shardMap.js, ownedSet.js): validation of a  *)
(* parsed map, the lookup a client or the monitor makes, and the set of    *)
(* buckets a host derives for itself.  ShardHost adopts maps by these      *)
(* rules; MapCheck compares them with Partition, which says what a         *)
(* well-formed map is without sorting and walking.                         *)
(*                                                                         *)
(* A host name is good, empty or not a bare authority; which characters    *)
(* make it so is left out.  parseShardMap's shape checks are the type of a *)
(* map here.                                                               *)
(***************************************************************************)
EXTENDS Integers, Sequences, FiniteSetsExt, Functions

CONSTANTS
    EXPECTED_BUCKETS,
    Hosts,            \* bare authorities
    EmptyHost,
    NotAuthority      \* a host with a scheme, upper case, a trailing dot, ...

ASSUME ShardMapAssumption ==
    /\ EXPECTED_BUCKETS \in Nat \ {0}
    /\ {EmptyHost, NotAuthority} \cap Hosts = {}

Buckets == 0..(EXPECTED_BUCKETS - 1)

\* What parseShardMap lets through.
Ranges == [low : Int, high : Int, host : Hosts \cup {EmptyHost, NotAuthority}]
Maps == [version : Int, ranges : Seq(Ranges)]

Covers(r, b) == r.low <= b /\ b <= r.high

-----------------------------------------------------------------------------
(* Validation.                                                             *)

OutOfBounds(r) == r.low > r.high \/ r.low < 0 \/ r.high >= EXPECTED_BUCKETS

\* The first range whose check fails decides; within a range the host is
\* looked at first.
RangeError(r) ==
    CASE r.host = EmptyHost -> "emptyHost"
      [] r.host = NotAuthority -> "invalidHost"
      [] r.host \in Hosts /\ OutOfBounds(r) -> "invalidRange"
      [] OTHER -> "ok"

\* Variant: an overlap is accepted.
WalkStepNoOverlapCheck(r, next) == IF r.low <= next THEN r.high + 1 ELSE -1

\* The walk over the ranges sorted by low: where the next one must start, or
\* -1 once one did not start there.
WalkStep(r, next) == IF r.low = next THEN r.high + 1 ELSE -1

\* Sorted by low.  The order of equal ones is left open: they overlap, and no
\* order makes the walk accept them.
Sorted(ranges) ==
    LET n == Len(ranges)
        p == CHOOSE q \in Bijection(1..n, 1..n) :
                \A i, j \in 1..n : i < j => ranges[q[i]].low <= ranges[q[j]].low IN
    [i \in 1..n |-> ranges[p[i]]]

ExpectedNext(sorted) ==
    LET next[i \in 0..Len(sorted)] ==
            IF i = 0 THEN 0 ELSE WalkStep(sorted[i], next[i - 1]) IN next

Tiles(ranges) == ExpectedNext(Sorted(ranges))[Len(ranges)] = EXPECTED_BUCKETS

ValidateShardMap(m) ==
    LET bad == {i \in DOMAIN m.ranges : RangeError(m.ranges[i]) # "ok"} IN
    IF m.version < 0 THEN "negativeVersion"
    ELSE IF m.ranges = << >> THEN "emptyRanges"
    ELSE IF bad # {} THEN RangeError(m.ranges[Min(bad)])
    ELSE IF Tiles(m.ranges) THEN "ok"
    ELSE "gapOrOverlap"

-----------------------------------------------------------------------------
(* Lookup.                                                                 *)

NoHost == "none"

\* hostForBucket: the first range that covers the bucket.
HostForBucket(ranges, b) ==
    LET covering == {i \in DOMAIN ranges : Covers(ranges[i], b)} IN
    IF covering = {} THEN NoHost ELSE ranges[Min(covering)].host

\* Variant: the last bucket of a range is missed.
OwnedBucketsExclusive(ranges, host) ==
    {b \in Buckets : \E i \in DOMAIN ranges :
        ranges[i].host = host /\ ranges[i].low <= b /\ b < ranges[i].high}

\* ownedBuckets
OwnedBuckets(ranges, host) ==
    {b \in Buckets : \E i \in DOMAIN ranges :
        ranges[i].host = host /\ Covers(ranges[i], b)}

-----------------------------------------------------------------------------
\* The reference: in-bounds ranges with good hosts, every bucket in exactly
\* one of them.
Partition(m) ==
    /\ m.version >= 0
    /\ m.ranges # << >>
    /\ \A i \in DOMAIN m.ranges :
          m.ranges[i].host \in Hosts /\ ~OutOfBounds(m.ranges[i])
    /\ \A b \in Buckets :
          \E i \in DOMAIN m.ranges :
             /\ Covers(m.ranges[i], b)
             /\ \A j \in DOMAIN m.ranges : Covers(m.ranges[j], b) => j = i
=============================================================================
