\* A page with fetch and sendBeacon, a collector that may refuse and fail.
SPECIFICATION MCSpec
CONSTANTS
    BatchSize = 2
    MaxQueueSize = 2
    MaxRetries = 1
    Interval = TRUE
    Timers = {"work"}
    Reentrant = FALSE
    Rejects = FALSE
    MaxEvents = 2
    Fingerprint <- MCFingerprint
    MaxEventsPerIssue = 1
    StoreMayFail = TRUE
    MaxTime = 2
    MaxTriages = 1
    Transports = {"fetch", "beacon"}
    Worker = {w1, w2}
    LoadBatch = 2
    Cardinal = 2
    Rates = {TRUE, FALSE}
    FailOnError = TRUE
    MaxCalls = 3
SYMMETRY MCSymmetry
INVARIANTS
    SentIsRecorded
    OnlyLostAnswersMislead
    StoreIsItsRecords
    LoadReportIsComplete
PROPERTIES
    LedgerSpec
CHECK_DEADLOCK FALSE
