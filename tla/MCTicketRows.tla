---------------------------- MODULE MCTicketRows ----------------------------
(* TicketRows for TLC: sessions, tickets, agents and labels are              *)
(* interchangeable, in the runs that check no liveness.                      *)
EXTENDS TicketRows, TLC

Symmetry ==
  Permutations(Tickets) \cup Permutations(Agents) \cup Permutations(Labels)
    \cup Permutations(Requests) \cup Permutations(Sweepers)

=============================================================================
