CONSTANTS
    Envelopes <- SharedQueue
    Workers = {w1, w2}
    Times = {0, 2}
    MaxEnqueues = 2
    HeartbeatTimeout = 1
SPECIFICATION Spec
SYMMETRY Symmetry
PROPERTIES
  QueueSound
  
CHECK_DEADLOCK FALSE
