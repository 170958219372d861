---------------------------- MODULE MCTicketPages ----------------------------
(* TicketPages for TLC: who creates which ticket.                             *)
EXTENDS TicketPages

CONSTANTS ann, bob

Owners == [t \in Tickets |-> IF t % 3 = 0 THEN bob ELSE ann]

=============================================================================
