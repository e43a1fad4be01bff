SPECIFICATION FairSpec
CONSTANTS
    Object = {o1}
    Request = {r1, r2}
    Binder = {b1}
    Sweeper = {s1, s2}
    NoWork = NoWork
    SlowPut = FALSE
    MaxFaults = 1
INVARIANTS
    StorageTypeOK
    SweepsSpareCompleted
    StoredIsCharged
PROPERTIES
    FailedIsReclaimed
CHECK_DEADLOCK FALSE
