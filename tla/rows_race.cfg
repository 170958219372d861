\* Two requests and two overlapping sweeps contend for one ticket.
SPECIFICATION FairSpec
CONSTANTS
  Tickets = {t1}
  Agents = {a1, a2}
  Labels = {l1, l2}
  Requests = {r1, r2}
  Sweepers = {w1, w2}
  None = None
INVARIANT SweepClaimStable
INVARIANT LabelMatchesStatus
PROPERTY BreachIsDeserved
PROPERTY AssignmentIsolated
PROPERTY OverdueIsFlagged
PROPERTY RequestEnds
