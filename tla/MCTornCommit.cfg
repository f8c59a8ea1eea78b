\* A crash between the batch and its log.
SPECIFICATION Spec
CONSTANTS
    None = None
    Keep = Keep
    k1 = k1
    v1 = v1
    v2 = v2
    DBKey <- OneKey
    DBValue <- OneValue
    MaxId = 3
    MaxSavedTrieLogs = None
    SnapshotInterval = 2
    BackendMaxSnapshots = None
    IdGaps = FALSE
    Failures = TRUE
\* The ids end at MaxId.
CHECK_DEADLOCK FALSE
INVARIANTS
    RevertReachesCommit
