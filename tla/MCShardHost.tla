---------------------------- MODULE MCShardHost ----------------------------
(* ShardHost for TLC: two buckets that change hands in every way, a newest *)
(* map that is bad, three rooms, two of them in one bucket.                *)
EXTENDS ShardHost

CONSTANTS self, other, r1, r2, r3

MCHosts == {self, other}
MCRooms == {r1, r2, r3}
MCBucketOf == [r \in MCRooms |-> IF r = r3 THEN 1 ELSE 0]
From(low, high, host) == [low |-> low, high |-> high, host |-> host]
MCPublished ==
    {[version |-> 0, ranges |-> <<From(0, 1, self)>>],
     [version |-> 1, ranges |-> <<From(1, 1, self), From(0, 0, other)>>],
     [version |-> 2, ranges |-> <<From(0, 0, self), From(1, 1, other)>>],
     [version |-> 3, ranges |-> <<From(0, 1, other)>>],
     [version |-> 4, ranges |-> <<From(0, 1, self), From(1, 1, other)>>]}
=============================================================================
