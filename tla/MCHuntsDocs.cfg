CONSTANTS
    Hunt = {1}
    Sid = {1, 2}
    Node = {"here", "there"}
    Home <- HomeOf
    Local = "here"
    Fake = {}
    Matching = {2}
    Run = {1, 2}
    PageSize = 2
    NodeLimit = 1
    RetryLimit = 1
    MaxFailed = 1
    Troubles = {"crash"}
    MaxTrouble = 1
SPECIFICATION Spec
CHECK_DEADLOCK FALSE
INVARIANTS FinishedMeansSearched
