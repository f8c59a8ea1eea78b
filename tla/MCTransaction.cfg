\* Transactional states.
SPECIFICATION Spec
CONSTANTS
    None = None
    Keep = Keep
    k1 = k1
    v1 = v1
    v2 = v2
    DBKey <- OneKey
    DBValue <- TwoValues
    MaxId = 3
    MaxSavedTrieLogs = None
    SnapshotInterval = 2
    BackendMaxSnapshots = None
    IdGaps = FALSE
    Failures = FALSE
\* The ids end at MaxId.
CHECK_DEADLOCK FALSE
INVARIANTS
    TransactionIsPointInTime
