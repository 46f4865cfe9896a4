SPECIFICATION Spec
CONSTANTS
    Sid = {1, 2}
    Task = {t1, t2}
    None = None
    Kinds = {"file", "leveldb", "badger", "boltdb", "redis"}
    Dates = {0, 4}
    Second = 2
    Prefetch = 2
    MaxSyncs = 3
    MaxTime = 5
SYMMETRY Symmetry
CHECK_DEADLOCK FALSE
INVARIANTS TypeOK LastSyncWins TruncatedOnlyWhileWriting TtlMatchesDate
PROPERTY LossHasCause
