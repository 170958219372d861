\* Two articles, two worker slots, one ticket; two faults of any kind.
SPECIFICATION Spec
CONSTANTS
  a1 = a1
  a2 = a2
  Articles = {a1, a2}
  Length <- Lengths
  Workers = {w1, w2}
  Tickets = {t1}
  TopK = 2
  Threshold = 1
  Similarity <- Likeness
  ChunkSize = 3
  Overlap = 1
  MaxRetries = 1
  IndexFaults = {"error", "crash", "redelivered", "killed", "broker", "post"}
  MaxFaults = 2
CHECK_DEADLOCK FALSE
INVARIANT WholeIndexings
INVARIANT WellChunked
INVARIANT CopiesAreOverlaps
INVARIANT DraftsAreGrounded
INVARIANT KnownIsUsed
INVARIANT LabelIsRight
PROPERTY StaysSearchable
PROPERTY IndexProgress
