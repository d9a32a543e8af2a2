\* Small instances of the System API and the driver manager, one part per
\* behaviour.
CONSTANTS
  Calls <- MCCalls
  Request <- MCRequest
  Batches <- MCBatches
  Ttl = 2
  MaxClock = 3
  MaxFaults = 2
  Watchers = {w1}
  Askers = {a1}
  MaxStages = 3
  ScheduleStage = 2
  Wait = 1
  MaxDrops = 2
  MaxTime = 2
  ReserveCalls <- MCReserveCalls
  Reserve <- MCReserve
  MaxNow = 3
  MaxReserveFaults = 1
  Refs = {r1, r2}
  BackendCount = 2
  Lifetime = 1
  MaxWrites = 4
  MaxFailovers = 1
  MaxEpoch = 2
  Checkpoints = {k1, k2, k3}
  Sizes = {1, 2}
  MaxArtifacts = 2
  MaxBytes = 3
  Capacity = 2
  MaxUses = 4
  Objects <- MCObjects
  Driver <- MCDriver
  Configs <- MCConfigs
  Plugins <- MCPlugins
  SessionKeys = {"k"}
  DeviceOrder <- MCDeviceOrder
  Requests = {"", "qpu", "1.0", "plugin", "ion trap"}
  MaxInits = 3
  MaxRejects = 1
  Timeout = 4
  MaxRetries = 2
  Backoff = 1
  Qubits = 2
  MaxOperations = 3
  MeasureOps <- MCMeasureOps
  Parameters <- MCParameters
  Options <- MCOptions
  Symbols <- MCSymbols
SPECIFICATION MCFairSpec
INVARIANTS
  SeenIsPrefix
  ReservationsSound
  QfsSound
  RetriesSound
  SimulatorFaithful

  
  
  
CHECK_DEADLOCK FALSE
