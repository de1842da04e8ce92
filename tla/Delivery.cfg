SPECIFICATION FairSpec
CONSTANTS
    e1 = e1
    e2 = e2
    e3 = e3
    s1 = s1
    s2 = s2
    Events <- MCEvents
    Surrogate <- OnlyE3
    LoneSurrogate <- OnlyE3
    OddReplies = FALSE
    DiskFaults = FALSE
    Submitters <- OneSubmitter
    Kinds = {"syslog", "elastic", "spool"}
    QueueSize = 1
    BatchSize = 2
    MaxRetries = 1
INVARIANTS TypeOK SingleCustody VerdictsAreTrue RetryThenSpool MetricsAreExact AttemptsAreExact StopDrains
PROPERTIES SettledIsFinal KeepsPromise SubmittedSettles WorkerExits
CHECK_DEADLOCK FALSE
