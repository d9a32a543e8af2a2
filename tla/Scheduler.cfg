\* Limits small enough to be reached, and a threshold below the number of dispatches.
CONSTANTS
    Jobs <- MixedJobs
    Tokens = {t1, t2}
    NoDeadline = NoDeadline
    MaxTotal = 3
    MaxPerPriority = 3
    MaxPerTenant = 3
    MaxPerProject = 2
    DeferAt = 3
    Weight = 1
    StarvationThreshold = 2
    MinRounds = 1
    MaxPreemptions = 1
    MaxAdmitted = 4
SPECIFICATION Spec
SYMMETRY Symmetry
INVARIANTS
  JobsAccounted
  StarvationBound
  LimitsHeld
CHECK_DEADLOCK FALSE
