-------------------------- MODULE MCTicketPipeline --------------------------
(* TicketPipeline for TLC: tickets and worker slots are interchangeable.     *)
EXTENDS TicketPipeline, TLC

Symmetry == Permutations(Tickets) \cup Permutations(Workers)

=============================================================================
