SPECIFICATION RuntimeSpec
CONSTANTS
    e1 = e1
    e2 = e2
    e3 = e3
    Events <- TwoEvents
    Surrogate <- None
    LoneSurrogate <- None
    OddReplies = FALSE
    DiskFaults = FALSE
    Submitters = {"pipeline", "api"}
    Kinds = {"spool"}
    QueueSize = 1
    BatchSize = 1
    MaxRetries = 0
    Udp = {"udp"}
    Connections <- NoConnections
    Files = {}
    Replay = {}
    HistorySize = 2
INVARIANT StopDrainsQueues
CHECK_DEADLOCK FALSE
