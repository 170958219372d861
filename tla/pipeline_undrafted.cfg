\* One worker crashes between the commit of the label and the chained enqueue.
SPECIFICATION FairSpec
CONSTANTS
  Tickets = {t1}
  Workers = {w1, w2}
  MaxRetries = 1
  Faults = {"crash"}
  MaxFaults = 1
  MaxReplays = 0
CHECK_DEADLOCK FALSE
PROPERTY LabelledIsDrafted
