\* Three issues, pages of one and two, retention in batches of one.
SPECIFICATION Spec
CONSTANTS
    Issue = {1, 2, 3}
    Limits = {1}
    Status = {"open", "resolved"}
    Filters = {"", "open"}
    MaxEventsPerIssue = 2
    MaxIssues = 1
    Days = 1
    PruneBatchSize = 1
    Histories = {1}
    MaxTime = 3
    MaxChanges = 2
INVARIANTS
    WalkIsComplete
    StoresAgree
PROPERTIES
    OldestGoFirst
    SweepIsThorough
