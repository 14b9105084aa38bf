SPECIFICATION FairSpec
CONSTANTS
    Threads = {t1, t2}
    Drainer = drainer
    Size = 1
    MaxAttempts = 2
    HasReplica = TRUE
INVARIANTS
    WithinCap
    NoMissedWakeup
    WritesOnce
    FreedWhenUnused
PROPERTIES
    EveryCallReturns
