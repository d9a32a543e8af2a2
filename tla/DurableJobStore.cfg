\* Two jobs that live through one fault of each kind, and one job over four
\* lives of the process, with two failed appends; and the bundles of one job id
\* over three lives.
CONSTANTS
    Jobs = {1, 2}
    Attributes = {"counts"}
    MaxCrashes = 3
    MaxIoFailures = 2
    PairFaults = 1
    MaxLives = 3
    MaxWriteFailures = 2
SPECIFICATION MCSpec
INVARIANTS
  RecordsMatchLogs
  NoAcknowledgedLoss
  ReplayAgrees
  BundlesSound
PROPERTIES
  RecoveredLogIsPrefix
CHECK_DEADLOCK FALSE
