CONSTANTS
    Viewer = {"a", "b"}
    Forced = {}
    Query = {"q"}
    Sid = {1, 2}
    Stamp <- StampOf
    Delay = 1
    Window = 1
    Chunk = 1
    Throttle = 1
    Pass = {1, 2, 3}
    MaxTime = 3
    Troubles = {"op", "crash", "stall", "db"}
    MaxTrouble = 1
SPECIFICATION FairSpec
CHECK_DEADLOCK FALSE
INVARIANTS TypeOK NoGap CountExact OnePass
PROPERTIES AlertsApart CatchesUp
