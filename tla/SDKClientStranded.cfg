\* A page whose setTimeout throws.
SPECIFICATION Spec
CONSTANTS
    BatchSize = 2
    MaxQueueSize = 3
    MaxRetries = 1
    Interval = TRUE
    Timers = {"throw"}
    Reentrant = FALSE
    Rejects = TRUE
    MaxEvents = 5
INVARIANTS
    Accounted
