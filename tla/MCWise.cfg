CONSTANTS
    Source = {"a", "b", "c"}
    Knowing = {"a", "b"}
    Excluded = {}
    Named = {"a", "c"}
    SrcTime <- Short
    Query = {1, 2, 3}
    Posted = {1, 3}
    Ref = {1, 2, 3}
    HasStore = TRUE
    MaxLive = 2
    MaxTime = 1
    Troubles = {"timeout", "error", "crash", "evict", "expire"}
    MaxTrouble = 1
SPECIFICATION FairSpec
CHECK_DEADLOCK FALSE
INVARIANTS TypeOK WaitersAnswered AnswerFresh AnsweredOnce
PROPERTIES AskedSeldom QueriesEnd
