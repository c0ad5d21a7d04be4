SPECIFICATION FairSpec
CONSTANTS
    self = self  other = other  r1 = r1  r2 = r2  r3 = r3
    Rooms <- MCRooms
    EXPECTED_BUCKETS = 2
    Hosts <- MCHosts
    EmptyHost = EmptyHost
    NotAuthority = NotAuthority
    BucketOf <- MCBucketOf
    Published <- MCPublished
    SelfHost = self
    DrainDelay = 2
    RateNum = 1
    RateDen = 2
    BootMaxRetries = 2
INVARIANTS TypeOK LiveIsOwnedOrDraining EvictionPaced
PROPERTY DrainCompletes
