SPECIFICATION Spec
CONSTANTS
    e1 = e1
    e2 = e2
    e3 = e3
    s1 = s1
    s2 = s2
    Events <- MCEvents
    Surrogate <- None
    LoneSurrogate <- None
    OddReplies = FALSE
    DiskFaults = TRUE
    Submitters <- OneSubmitter
    Kinds = {"syslog"}
    QueueSize = 1
    BatchSize = 2
    MaxRetries = 1
INVARIANT WorkerNeverDies
CHECK_DEADLOCK FALSE
