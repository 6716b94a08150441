\* Pages with working, throwing and absent timers, reentrant host callbacks, every failure.
SPECIFICATION Spec
CONSTANTS
    BatchSize = 2
    MaxQueueSize = 3
    MaxRetries = 1
    Interval = TRUE
    Timers = {"work", "throw", "absent"}
    Reentrant = TRUE
    Rejects = TRUE
    MaxEvents = 5
INVARIANTS
    AccountedWithTimers
    QueueBounded
    DeliveredInOrder
    FlushTellsTheTruth
PROPERTIES
    EventuallySettled
