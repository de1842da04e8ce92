SPECIFICATION Spec
CONSTANTS
    e1 = e1
    e2 = e2
    e3 = e3
    s1 = s1
    s2 = s2
    Events <- MCEvents
    Surrogate <- E2AndE3
    LoneSurrogate <- OnlyE3
    OddReplies = TRUE
    DiskFaults = TRUE
    Submitters <- TwoSubmitters
    Kinds = {"syslog", "elastic", "spool"}
    QueueSize = 1
    BatchSize = 2
    MaxRetries = 1
INVARIANT MetricsAreExact
PROPERTY KeepsPromise
CHECK_DEADLOCK FALSE
