SPECIFICATION Spec
CONSTANTS
    Request = {r1, r2}
    Retention = TRUE
    MaxSweeps = 2
INVARIANTS ShutdownInOrder ExitCodeTellsTheTruth
PROPERTY ServingStops
CHECK_DEADLOCK FALSE
