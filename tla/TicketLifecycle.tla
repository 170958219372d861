-------------------------- MODULE TicketLifecycle --------------------------
(* What the service promises about one ticket: every change of its row is    *)
(* one step of this machine, taken on the row as it then is.  The code makes *)
(* each of these changes in a transaction that reads first and writes later  *)
(* (module TicketRows); TicketRows implements this machine when its          *)
(* transactions do not overlap.                                              *)
EXTENDS TicketStates

CONSTANTS
  Tickets,  \* the tickets
  Agents,   \* the users with role AGENT
  Labels,   \* results of a classification: category, priority, confidence
  None      \* SQL NULL

VARIABLES
  row,      \* row[t]: the columns of t that change after it is created
  overdue   \* the tickets whose sla_deadline has passed

vars == <<row, overdue>>

Init ==
  /\ row = [t \in Tickets |-> [status |-> "PENDING", label |-> None, agent |-> None]]
  /\ overdue = {}

\* The classify worker labels a ticket nobody has triaged.
Triage(t, l) ==
  /\ row[t].status = "PENDING"
  /\ row' = [row EXCEPT ![t].status = "CLASSIFIED", ![t].label = l]
  /\ UNCHANGED overdue

\* An agent or admin moves a ticket on.
Move(t, new) ==
  /\ <<row[t].status, new>> \in ManualTransitions
  /\ row' = [row EXCEPT ![t].status = new]
  /\ UNCHANGED overdue

\* An agent or admin hands a ticket to an agent.
Assign(t, a) ==
  /\ row[t].status \notin Unassignable
  /\ row' = [row EXCEPT ![t].agent = a]
  /\ UNCHANGED overdue

\* One sweep flags open tickets whose deadline has passed.
Breach(S) ==
  /\ S \subseteq overdue
  /\ \A t \in S : row[t].status \in OpenStatuses
  /\ row' = [t \in Tickets |-> IF t \in S THEN [row[t] EXCEPT !.status = "BREACHED"]
                                          ELSE row[t]]
  /\ UNCHANGED overdue

\* The clock passes the deadline of t.
Expire(t) ==
  /\ t \notin overdue
  /\ overdue' = overdue \cup {t}
  /\ UNCHANGED row

Next ==
  \/ \E t \in Tickets, l \in Labels : Triage(t, l)
  \/ \E t \in Tickets, new \in Statuses : Move(t, new)
  \/ \E t \in Tickets, a \in Agents : Assign(t, a)
  \/ \E S \in SUBSET Tickets : Breach(S)
  \/ \E t \in Tickets : Expire(t)

Spec == Init /\ [][Next]_vars

=============================================================================
