CONSTANTS
  Jobs = {j1}
  Quiet = {}
  MaxAttempts = 1
  None = None
SPECIFICATION MCFairSpec
PROPERTY
  TerminalImmutable
CHECK_DEADLOCK FALSE
