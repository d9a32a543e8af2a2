CONSTANTS
    RecordIds = {1, 2}
    DecisionIds = {1}
    Scopes = {s1, s2}
    Contents <- MCContents
    Filters <- MCFilters
    Batches <- MCBatches
    FpOf <- MCFpOf
    VectorOf <- MCVectorOf
    Retention = 0
    Budget = 2
    Page = 1
    MaxClock = 1
    MaxSequence = 3
    Models = {"m"}
    BenchmarkModel = "b"
    DatasetIds = {"d"}
    DatasetVersions = {"v", "w"}
    Digests = {"g", "h"}
    MinRecords = 2
    MinRuntime = 1
    MinBenchmark = 0
    MaxEvidence = 2
    StartKeys = {"a"}
    RetryKeys = {"r"}
    Configs <- MCConfigs
    MaxCalls = 5
    BenchmarkScope = s0
    Claims <- MCClaims
    RecordNumber <- MCRecordNumber
SYMMETRY Symmetry
SPECIFICATION CompositionSpec
INVARIANTS
  KbFollowsRuns
PROPERTIES
  StoreFaithful
  
  
CHECK_DEADLOCK FALSE
