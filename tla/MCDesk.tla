------------------------------- MODULE MCDesk -------------------------------
(* Desk for TLC: an agent has an account already.                            *)
EXTENDS Desk

Given == [s1 |-> "agent"]

=============================================================================
