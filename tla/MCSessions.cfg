CONSTANTS
    Session = {s1, s2, s3}
    NoId = NoId
    Id = {a, b}
    Kinds = {"syn", "data", "close"}
    DiskMayFail = FALSE
    MaxPacket = 3
    MaxTime = 1
    Horizon = 1
    MaxLookups = 1
    SessionTimeout = 0
    TcpSaveTimeout = 0
    TcpClosingTimeout = 0
    MaxPackets = 2
    MaxStreams = 1
    MinSaving = 0
    SaveLimits = {65535}
    RuleStopsSPI = FALSE
    PcapReadOffline = FALSE
    CmdBatch = 1
    CloseBatch = 1
    IdleBatch = 1
    WriteBatch = 1
SPECIFICATION Spec
SYMMETRY Renaming
CHECK_DEADLOCK FALSE
INVARIANTS TypeOK QueueMembership OneSessionPerId NoAnswerToFreed NeedSaveExact
