---------------------------- MODULE TicketStates ----------------------------
(* The statuses of a ticket and the tables of transitions that the API       *)
(* service, the classify worker and the SLA sweep agree on.                  *)

Statuses == {"PENDING", "CLASSIFIED", "IN_PROGRESS", "RESOLVED", "BREACHED"}

\* Variant for a mutation run: a resolved ticket may be reopened.
ManualTransitionsReopening ==
  ({"PENDING", "CLASSIFIED", "BREACHED", "RESOLVED"} \X {"IN_PROGRESS"})
    \cup ({"PENDING", "CLASSIFIED", "IN_PROGRESS", "BREACHED"} \X {"RESOLVED"})

\* What an agent or admin may move a ticket into, and from where.
ManualTransitions ==
  ({"PENDING", "CLASSIFIED", "BREACHED"} \X {"IN_PROGRESS"})
    \cup ({"PENDING", "CLASSIFIED", "IN_PROGRESS", "BREACHED"} \X {"RESOLVED"})

\* assign_ticket refuses a ticket in one of these.
Unassignable == {"RESOLVED", "BREACHED"}

\* The SLA sweep looks only at tickets in one of these.
OpenStatuses == {"PENDING", "CLASSIFIED", "IN_PROGRESS"}

=============================================================================
