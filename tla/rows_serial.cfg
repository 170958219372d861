\* One session at a time: requests and sweeps never overlap.
SPECIFICATION Spec
CONSTANTS
  Tickets = {t1, t2}
  Agents = {a1, a2}
  Labels = {l1, l2}
  Requests = {s1}
  Sweepers = {s1}
  None = None
PROPERTY ImplementsLifecycle
PROPERTY ResolvedIsTerminal
