\* No fault: a worker reads the ticket before its request has committed it.
SPECIFICATION Spec
CONSTANTS
  Tickets = {t1}
  Workers = {w1, w2}
  MaxRetries = 1
  Faults = {}
  MaxFaults = 0
  MaxReplays = 0
CHECK_DEADLOCK FALSE
INVARIANT PendingIsQueued
