\* Two registrations of one dataset release; nothing else runs.
CONSTANTS
    RunIds = {1, 2, 3, 4}
    Queries = {}
    PageSizes = {1, 2}
    Logs = {}
    LastTime = 2
    MaxChanges = 2
    Evaluations = {}
    Paths = {p1}
    Releases = {r1}
    SourceFiles <- MCSourceFiles
    MaxRewrites = 4
    Snapshots = {s1}
    Rows = {}
    Projects = {"p"}
    MaxRows = 3
    MaxIngests = 2
    PatternQueries = {}
    Bundles = {}
    Edits = {}
    Callers = {"ns", "x"}
    Policies = {"v1", "v2"}
    MaxEdits = 2
SPECIFICATION MCSpec
PROPERTY DatasetReleaseImmutable
CHECK_DEADLOCK FALSE
