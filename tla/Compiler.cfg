CONSTANTS
    MaxAstNodes = 6
    MaxAstDepth = 6
    Handlers = {h1, h2}
    Requests = {}
    Remaining = {"t1", "t2"}
    MaxRequests = 3
    Scorers = {s1, s2}
    PlanRequests <- MCPlanRequests
    Registries <- MCRegistries
    Versions = {"m1", "m2"}
    MaxCalls = 2
    MaxActivations = 1
SPECIFICATION MCSpec
CHECK_DEADLOCK FALSE
INVARIANTS
  
  
  CountersAddUp
  ModelServed
  DecisionsAddUp
