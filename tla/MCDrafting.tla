----------------------------- MODULE MCDrafting -----------------------------
(* Drafting for TLC: a text of two chunks, the second of which just reaches   *)
(* the threshold, and a text of one chunk that is about something else.      *)
EXTENDS Drafting

CONSTANTS a1, a2

Lengths == (a1 :> 5 @@ a2 :> 2)

Likeness(t, a, k) == IF a = a1 THEN k ELSE 0

=============================================================================
