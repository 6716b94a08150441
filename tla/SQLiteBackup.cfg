SPECIFICATION BackupSpec
CONSTANTS
    Command <- Commands
    Destination = "backup.db"
    Temporary <- Temporaries
    MaxCommits = 2
INVARIANT BackupTypeOK
PROPERTY PublishesRecentSnapshots
CHECK_DEADLOCK FALSE
