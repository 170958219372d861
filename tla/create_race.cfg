\* Three POSTs with two keys and two payloads.
SPECIFICATION FairSpec
CONSTANTS
  Requests = {r1, r2, r3}
  Keys = {k1, k2}
  Payloads = {p1, p2}
CHECK_DEADLOCK FALSE
INVARIANT OneTicketPerKey
INVARIANT RepliesAgree
INVARIANT ConflictsAreReal
PROPERTY CallsEnd
