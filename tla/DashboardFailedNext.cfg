SPECIFICATION Spec
CONSTANTS
    Issue = {i1}
    Filter = {all, open}
    All = all
    Deployments = {"demo"}
    Failures = TRUE
    Null = Null
    MaxDepth = 2
    MaxSessions = 1
    MaxLoads = 4
    MaxDetails = 0
PROPERTY PageNumberIsDepth
CHECK_DEADLOCK FALSE
