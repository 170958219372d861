------------------------- MODULE MCIdempotentCreate -------------------------
(* IdempotentCreate for TLC: requests, keys and payloads are interchangeable. *)
EXTENDS IdempotentCreate, TLC

Symmetry == Permutations(Requests) \cup Permutations(Keys) \cup Permutations(Payloads)

=============================================================================
