SPECIFICATION RuntimeFairSpec
CONSTANTS
    e1 = e1
    e2 = e2
    e3 = e3
    Events <- TwoEvents
    Surrogate <- None
    LoneSurrogate <- None
    OddReplies = FALSE
    DiskFaults = FALSE
    Submitters = {"pipeline", "api"}
    Kinds = {"spool"}
    QueueSize = 1
    BatchSize = 1
    MaxRetries = 0
    Udp = {}
    Connections <- TwoConnections
    Files = {}
    Replay = {"replay"}
    HistorySize = 2
INVARIANTS RuntimeTypeOK NothingVanishes HistoryInOrder
PROPERTY CollectedIsRecorded
CHECK_DEADLOCK FALSE
