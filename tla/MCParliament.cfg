CONSTANTS
    GroupId = {"g1", "g2", "g3"}
    ClusterId = {"c1", "c2"}
    Stored <- TwoGroups
    MaxEdit = 2
    NoStats = {"c2"}
    Silent = {"c2"}
    Looked = {"c1"}
    Kind = {"noPackets"}
    RemoveAfter = 2
    AckedAfter = 1
    PacketsAfter = 1
    Snooze = 1
    Troubles = {"late", "slow", "empty", "user"}
    MaxTrouble = 2
SPECIFICATION FairSpec
CHECK_DEADLOCK FALSE
INVARIANTS TypeOK EveryClusterOnce ToldOnce
PROPERTIES PersistentIsTold StaleIsForgotten
ACTION_CONSTRAINT Apart
