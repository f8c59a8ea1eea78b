\* Errors and crashes between the writes of a commit, gaps between the ids, and
\* transactions that read the logs in between.
SPECIFICATION ReadSpec
CONSTANTS
    None = None
    Keep = Keep
    v1 = v1
    v2 = v2
    DBKey <- TwoKeys
    DBValue <- TwoValues
    MaxId = 2
    MaxSavedTrieLogs = 2
    SnapshotInterval = 2
    BackendMaxSnapshots = 1
    IdGaps = TRUE
    Failures = TRUE
\* The ids end at MaxId.
CHECK_DEADLOCK FALSE
INVARIANTS
    LogUndoes
    LogInv
    RevertWindow
    LogsExpire
    SnapshotsKept
    LogsReadInAnyOrder
    EntriesHaveAValue
