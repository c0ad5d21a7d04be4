SPECIFICATION MapSpec
CONSTANTS
    EXPECTED_BUCKETS = 3
    Hosts = {h1, h2}
    EmptyHost = EmptyHost
    NotAuthority = NotAuthority
    MaxRanges = 3
INVARIANTS ValidIffPartition LookupAgreesWithGate
CHECK_DEADLOCK FALSE
