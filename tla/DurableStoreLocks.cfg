CONSTANTS
    Threads = {t1, t2, t3}
    StoredJobs = {j1, j2}
    MaxEvents = 3
    None = None
SPECIFICATION LocksSpec
INVARIANTS
  
  OnlyInversionBlocks
\* The lock inversion, and all jobs at their last event, are stopping states.
CHECK_DEADLOCK FALSE
