------------------------------ MODULE MapCheck ------------------------------
(***************************************************************************)
(* One fetched map and what validateShardMap says of it, over all maps of  *)
(* a few ranges.                                                           *)
(***************************************************************************)
EXTENDS ShardMap

CONSTANT MaxRanges   \* bound on the ranges of a map

ASSUME MapCheckAssumption == MaxRanges \in Nat

VARIABLES
    map,       \* the parsed map
    verdict    \* what validateShardMap said of it, "none" before

\* The ranges reach one step outside the buckets.
NearRanges == [low : -1..(EXPECTED_BUCKETS - 1), high : 0..EXPECTED_BUCKETS,
               host : Hosts \cup {EmptyHost, NotAuthority}]

MapInit ==
    /\ map \in [version : {-1, 0}, ranges : UNION {[1..n -> NearRanges] : n \in 0..MaxRanges}]
    /\ verdict = "none"

Validate ==
    /\ verdict = "none"
    /\ verdict' = ValidateShardMap(map)
    /\ UNCHANGED map

MapSpec == MapInit /\ [][Validate]_<<map, verdict>>

-----------------------------------------------------------------------------
(* Properties.                                                             *)

\* validateShardMap accepts exactly the maps that partition the bucket space,
\* in whatever order they list their ranges.
ValidIffPartition ==
    verdict # "none" => ((verdict = "ok") = Partition(map))

\* A client's lookup and a host's own set agree: under any accepted map each
\* bucket has one host, the one whose gate admits it.
LookupAgreesWithGate ==
    verdict = "ok" =>
        \A b \in Buckets : \A h \in Hosts :
            (HostForBucket(map.ranges, b) = h) = (b \in OwnedBuckets(map.ranges, h))
=============================================================================
