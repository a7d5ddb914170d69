CONSTANTS
    Hunt = {1, 2}
    Sid = {2}
    Node = {"here", "there"}
    Home <- HomeOf
    Local = "here"
    Fake = {}
    Matching = {2}
    Run = {1, 2}
    PageSize = 2
    NodeLimit = 1
    RetryLimit = 1
    MaxFailed = 1
    Troubles = {"op", "crash", "node", "db"}
    MaxTrouble = 1
SPECIFICATION FairSpec
CHECK_DEADLOCK FALSE
INVARIANTS OneAtATime
PROPERTIES HuntsFinish
