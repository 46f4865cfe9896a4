SPECIFICATION Spec
CONSTANTS
    Sid = {1, 2, 3}
    Task = {t1}
    None = None
    Kinds = {"badger"}
    Dates = {0, 2}
    Second = 1
    Prefetch = 2
    MaxSyncs = 3
    MaxTime = 3
CHECK_DEADLOCK FALSE
PROPERTY CleanupRemovesExpired
