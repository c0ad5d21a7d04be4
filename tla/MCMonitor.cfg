SPECIFICATION Spec
CONSTANTS
    Hosts = {"h1"}
    Pushes = {}
    Slots = {"t1"}
    AlertFailStreak = 2
    PeerOutboxStreak = 2
    Cooldown = 2
    MayLose = TRUE
INVARIANTS
    TypeOK
    PagesAreDebounced
PROPERTIES
    UndeliveredRetried
    FailureIsTold
    CooldownHeld
