CONSTANTS
    Session = {s1, s2}
    NoId = NoId
    Id = {a}
    Kinds = {"syn", "data", "close"}
    DiskMayFail = FALSE
    MaxPacket = 2
    MaxTime = 2
    Horizon = 2
    MaxLookups = 1
    SessionTimeout = 1
    TcpSaveTimeout = 1
    TcpClosingTimeout = 1
    MaxPackets = 3
    MaxStreams = 1
    MinSaving = 0
    SaveLimits = {1}
    RuleStopsSPI = FALSE
    PcapReadOffline = FALSE
    CmdBatch = 1
    CloseBatch = 1
    IdleBatch = 1
    WriteBatch = 1
SPECIFICATION Spec
CHECK_DEADLOCK FALSE
INVARIANTS SaveLimitKept
