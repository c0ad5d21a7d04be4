SPECIFICATION Spec
CONSTANTS
    Sockets = {s1, s2}
    Contexts = {c1, c2}
    NoContext = NoContext
    MAX_PREAUTH_SOCKETS = 1
    PREAUTH_DEADLINE = 1
    HOUSEKEEPING_INTERVAL = 1
    ALARM_RETRY = 2
    EPHEMERAL_TTL = 1
    IDLE_TTL = 3
    MayCrash = TRUE
SYMMETRY Symmetry
INVARIANTS TypeOK PreAuthBounded DeadlineWhileAwake OneContextActs EstablishedPersistsAlarm
PROPERTY IdleWatchKept
