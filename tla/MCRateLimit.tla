----------------------------- MODULE MCRateLimit -----------------------------
(* RateLimit for TLC: two users behind one address.                           *)
EXTENDS RateLimit, TLC

SharedAddress == [u \in Users |-> CHOOSE a \in Addresses : TRUE]

Symmetry == Permutations(Users)

=============================================================================
