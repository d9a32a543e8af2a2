\* A job that is cancelled, expires and retries next to a quiet one.
CONSTANTS
  Jobs = {j1, j2}
  Quiet = {j2}
  MaxAttempts = 2
  None = None
SPECIFICATION MCFairSpec
INVARIANTS
  StagesInOrder
  DoneIsComplete
  FailureReleases
  ControlObeyed
PROPERTIES
  ImplementsPublicLifecycle
  
CHECK_DEADLOCK FALSE
