SPECIFICATION Spec
CONSTANTS
    Sizes = {1, 2}
    QUOTA_WINDOW = 2
    QUOTA_FLUSH = 2
    QUOTA = 3
    FRAME_WINDOW = 1
    MAX_FRAMES = 3
    MaxTime = 4
    MaxReloads = 2
    MaxFailures = 1
    MaxOver = 1
    Nothing = Nothing
INVARIANTS TypeOK RollingQuota FramesPaced
PROPERTY BarredStaysBarred
CHECK_DEADLOCK FALSE
