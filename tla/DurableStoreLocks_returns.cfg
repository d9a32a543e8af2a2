CONSTANTS
    Threads = {t1, t2}
    StoredJobs = {j1, j2}
    MaxEvents = 1
    None = None
SPECIFICATION FairLocksSpec
PROPERTY EveryCallReturns
CHECK_DEADLOCK FALSE
