CONSTANTS
    Session = {s1, s2}
    NoId = NoId
    Id = {a}
    Kinds = {"syn", "data", "close"}
    DiskMayFail = TRUE
    MaxPacket = 3
    MaxTime = 1
    Horizon = 1
    MaxLookups = 1
    SessionTimeout = 0
    TcpSaveTimeout = 0
    TcpClosingTimeout = 0
    MaxPackets = 2
    MaxStreams = 1
    MinSaving = 0
    SaveLimits = {65535}
    RuleStopsSPI = TRUE
    PcapReadOffline = FALSE
    CmdBatch = 1
    CloseBatch = 1
    IdleBatch = 1
    WriteBatch = 1
SPECIFICATION Spec
SYMMETRY Renaming
CHECK_DEADLOCK FALSE
INVARIANTS RootLinked
PROPERTIES Promise
