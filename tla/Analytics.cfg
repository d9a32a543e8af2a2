CONSTANTS
    RunIds = {1, 2, 3, 4}
    Queries <- MCQueries
    PageSizes = {1, 2}
    Logs <- MCLogs
    LastTime = 2
    MaxChanges = 2
    Evaluations <- MCEvaluations
    Paths = {p1}
    Releases = {r1}
    SourceFiles <- MCSourceFiles
    MaxRewrites = 4
    Snapshots = {s1}
    Rows <- MCRows
    Projects = {"p"}
    MaxRows = 3
    MaxIngests = 2
    PatternQueries <- MCPatternQueries
    Bundles <- MCBundles
    Edits <- MCEdits
    Callers = {"ns", "x"}
    Policies = {"v1", "v2"}
    MaxEdits = 2
SPECIFICATION MCSpec
INVARIANTS
  PagesSound
  VerdictsSound
  IngestionSound
  PatternsSound
  
CHECK_DEADLOCK FALSE
