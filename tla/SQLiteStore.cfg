\* A new database, and one with v1 aggregates of one v2 group; two writers.
SPECIFICATION Spec
CONSTANTS
    Writer = {w1, w2}
    NoWriter = NoWriter
    Shape <- MCShape
    Group <- MCGroup
    LegacyKey <- MCLegacyKey
    Fingerprint <- MCFingerprint
    LegacyFingerprint <- MCLegacyFingerprint
    Columns <- MCColumns
    Time = {1, 2}
    MaxEventsPerIssue = 2
    PruneBatchSize = 1
    MaxBatch = 2
    MaxArrivals = 5
    Seeds <- MCSeeds
    PreHistory <- SeedPreHistory
INVARIANTS
    TypeOK
    AggregatesMatchLineage
    SequencesFollowArrival
    HistoryIsNewest
    AckedAreDurable
    NoSplitGroup
PROPERTIES
    LedgerSpec
    LockReleased
