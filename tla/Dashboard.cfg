SPECIFICATION Spec
CONSTANTS
    Issue = {i1, i2}
    Filter = {all, open}
    All = all
    Deployments = {"demo", "demoOnly"}
    Failures = TRUE
    Null = Null
    MaxDepth = 1
    MaxSessions = 2
    MaxLoads = 3
    MaxDetails = 3
INVARIANT OnScreenIsThisSession
PROPERTIES StaleAnswersChangeNothing RenderedListIsTheView DialogShowsTheIssueAsked BusyEnds
CHECK_DEADLOCK FALSE
