\* Two requests overlap on one ticket: one resolves it, the other has read it before.
SPECIFICATION Spec
CONSTANTS
  Tickets = {t1}
  Agents = {a1}
  Labels = {l1, l2}
  Requests = {r1, r2}
  Sweepers = {w1}
  None = None
PROPERTY ResolvedIsTerminal
