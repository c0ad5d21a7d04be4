SPECIFICATION FairSpec
CONSTANTS
    Sockets = {s1, s2}
    MAX_PAIRING_CYCLES = 1
PROPERTY LossReachesPhone
