SPECIFICATION CacheSpec
CONSTANTS
    Object = {o1, o2}
    Request = {}
    Binder = {}
    Sweeper = {s1}
    NoWork = NoWork
    SlowPut = FALSE
    MaxFaults = 1
    Task = {t1, t2}
    Worker = {w1, w2}
    NoWorker = NoWorker
    MaxAttempt = 2
SYMMETRY Symmetry
INVARIANTS
    ActiveEntryHasObject
    HitObjectKept
CHECK_DEADLOCK FALSE
