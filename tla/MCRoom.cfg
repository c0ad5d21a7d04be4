SPECIFICATION Spec
CONSTANTS
    Sockets = {s1, s2, s3}
    MAX_PAIRING_CYCLES = 1
SYMMETRY Symmetry
INVARIANTS TypeOK OneHolderPerRole PhoneBacked
PROPERTY ImplementsPairing
