SPECIFICATION Spec
CONSTANTS
    Bounds <- MCBounds
    RANGES = {2}
    BUCKETS = 2
    RETENTION = 1
    PRUNE_EVERY = 2
    Slots = {t1, t2}
    MaxTime = 3
    MaxObserved = 3
    MaxRestarts = 1
    MaxMissed = 1
SYMMETRY Symmetry
INVARIANTS WindowHonest BucketsPartition QuantilesOrdered RetentionKept
