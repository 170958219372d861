\* Every kind of fault, three at most, on the way of one ticket through two worker slots.
SPECIFICATION FairSpec
CONSTANTS
  Tickets = {t1}
  Workers = {w1, w2}
  MaxRetries = 2
  Faults = {"error", "unstorable", "crash", "killed", "broker", "post", "commit"}
  MaxFaults = 3
  MaxReplays = 1
CHECK_DEADLOCK FALSE
INVARIANT StagesInOrder
PROPERTY TriageProgress
PROPERTY DraftProgress
PROPERTY QueueDrains
