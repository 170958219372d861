----------------------------- MODULE TicketRows -----------------------------
(* The tickets table under concurrent sessions.  API requests, classify      *)
(* tasks and SLA sweeps each open a session, read a row, decide, and write   *)
(* it in a later step.  The database runs at READ COMMITTED: a plain read    *)
(* takes no lock and sees the last committed row; a write waits for the row  *)
(* lock and then changes only the columns the session assigned, on whatever  *)
(* row is committed by then.  The sweep alone locks when it reads.           *)
EXTENDS TicketStates

CONSTANTS
  Tickets,   \* tickets that exist; each starts as POST /tickets leaves it
  Agents,    \* users with role AGENT
  Labels,    \* what a classification may find: category, priority, confidence
  Requests,  \* sessions that API requests and classify/suggest tasks run in
  Sweepers,  \* sessions SLA sweeps run in (two of them during a deploy overlap)
  None       \* SQL NULL; in a session's columns: not part of its UPDATE

ASSUME NoneAssumption == None \notin Statuses \cup Labels \cup Agents

VARIABLES
  row,       \* row[t]: the committed row of t
  overdue,   \* tickets whose sla_deadline has passed
  tx         \* tx[s]: the transaction open in session s

vars == <<row, overdue, tx>>

Sessions == Requests \cup Sweepers

\* status: PATCH status; assign: PATCH assign; classify: the classify task;
\* insert: a comment or a suggestion that refers to the ticket; sweep: the sweep.
Ops == {"status", "assign", "classify", "insert", "sweep"}

Row == [status : Statuses, label : Labels \cup {None}, agent : Agents \cup {None}]

\* The columns an UPDATE sets; None for a column it leaves alone.
Columns == [status : Statuses \cup {None},
            label  : Labels \cup {None},
            agent  : Agents \cup {None}]

NoColumns == [status |-> None, label |-> None, agent |-> None]

\* pc "read": the row was read and the decision taken, nothing is written yet.
\* pc "locked": the session holds the row locks and its writes are not committed.
Transaction == [pc : {"read", "locked"}, op : Ops, rows : SUBSET Tickets, cols : Columns]

Idle == [pc |-> "idle"]

-----------------------------------------------------------------------------
\* Row locks.  An UPDATE excludes other UPDATEs; the sweep's SELECT FOR UPDATE
\* excludes everything; an insert with a foreign key to the row takes FOR KEY
\* SHARE, which excludes only FOR UPDATE.
Conflict(op1, op2) ==
  \/ op1 = "sweep"
  \/ op2 = "sweep"
  \/ op1 # "insert" /\ op2 # "insert"

\* Session s holds a lock on t that op would have to wait for.
Blocks(s, op, t) ==
  /\ tx[s].pc = "locked"
  /\ t \in tx[s].rows
  /\ Conflict(tx[s].op, op)

\* The row after an UPDATE of cols.
Updated(r, cols) ==
  [status |-> IF cols.status = None THEN r.status ELSE cols.status,
   label  |-> IF cols.label = None THEN r.label ELSE cols.label,
   agent  |-> IF cols.agent = None THEN r.agent ELSE cols.agent]

\* Session s has read t and will UPDATE (or insert under) it.
Begin(s, op, t, cols) ==
  /\ tx[s] = Idle
  /\ tx' = [tx EXCEPT ![s] = [pc |-> "read", op |-> op, rows |-> {t}, cols |-> cols]]
  /\ UNCHANGED <<row, overdue>>

-----------------------------------------------------------------------------
\* Variant: only the target is checked.
BeginUpdateStatusUnchecked(s, t, new) ==
  /\ new \in {"IN_PROGRESS", "RESOLVED"}
  /\ Begin(s, "status", t, [NoColumns EXCEPT !.status = new])

\* Variant: the whole row is saved, with the agent as it was read.
BeginUpdateStatusWholeRow(s, t, new) ==
  /\ <<row[t].status, new>> \in ManualTransitions
  /\ Begin(s, "status", t, [status |-> new, label |-> None, agent |-> row[t].agent])

\* PATCH /tickets/{t}/status: refused unless the table allows the transition.
BeginUpdateStatus(s, t, new) ==
  /\ <<row[t].status, new>> \in ManualTransitions
  /\ Begin(s, "status", t, [NoColumns EXCEPT !.status = new])

\* PATCH /tickets/{t}/assign: refused on a resolved or breached ticket.  Setting
\* the agent it already has is no change, and no UPDATE is sent.
BeginAssign(s, t, a) ==
  /\ row[t].status \notin Unassignable
  /\ row[t].agent # a
  /\ Begin(s, "assign", t, [NoColumns EXCEPT !.agent = a])

\* Variant: the label is not stored with the status.
BeginClassifyStatusOnly(s, t, l) ==
  /\ row[t].status = "PENDING"
  /\ Begin(s, "classify", t, [NoColumns EXCEPT !.status = "CLASSIFIED"])

\* The classify task: a no-op unless the ticket is PENDING.  The label comes
\* from the LLM or, if that fails, from the rules.
BeginClassify(s, t, l) ==
  /\ row[t].status = "PENDING"
  /\ Begin(s, "classify", t, [status |-> "CLASSIFIED", label |-> l, agent |-> None])

\* A comment or a suggestion is inserted under the ticket, whatever its status.
BeginInsert(s, t) == Begin(s, "insert", t, NoColumns)

\* Variant: SELECT ... FOR SHARE; the UPDATE waits for the other readers.
FlushUpgrades(s) ==
  /\ tx[s].pc = "read"
  /\ \A t \in tx[s].rows, o \in Sessions \ {s} :
       ~Blocks(o, tx[s].op, t) /\ ~(tx[o] # Idle /\ t \in tx[o].rows)
  /\ tx' = [tx EXCEPT ![s].pc = "locked"]
  /\ UNCHANGED <<row, overdue>>

\* The UPDATE or INSERT is sent, and waits for the lock on the row.
Flush(s) ==
  /\ tx[s].pc = "read"
  /\ \A t \in tx[s].rows, o \in Sessions : ~Blocks(o, tx[s].op, t)
  /\ tx' = [tx EXCEPT ![s].pc = "locked"]
  /\ UNCHANGED <<row, overdue>>

\* Variant: SELECT without FOR UPDATE SKIP LOCKED.
ClaimableUnlocked == {t \in overdue : row[t].status \in OpenStatuses}

\* Variant: the status is not asked for.
ClaimableAnyStatus ==
  {t \in overdue : \A s \in Sessions : ~Blocks(s, "sweep", t)}

\* Variant: a ticket somebody works on is not looked at.
ClaimableNotInProgress ==
  {t \in overdue : /\ row[t].status \in OpenStatuses \ {"IN_PROGRESS"}
                   /\ \A s \in Sessions : ~Blocks(s, "sweep", t)}

\* The open, overdue rows no other session has locked.
Claimable ==
  {t \in overdue : /\ row[t].status \in OpenStatuses
                   /\ \A s \in Sessions : ~Blocks(s, "sweep", t)}

\* SELECT ... FOR UPDATE SKIP LOCKED claims them all and sets them BREACHED.
SweepClaim(w) ==
  /\ tx[w] = Idle
  /\ Claimable # {}
  /\ tx' = [tx EXCEPT ![w] = [pc |-> "locked", op |-> "sweep", rows |-> Claimable,
                              cols |-> [NoColumns EXCEPT !.status = "BREACHED"]]]
  /\ UNCHANGED <<row, overdue>>

\* COMMIT: the writes become visible and the locks are released.
Commit(s) ==
  /\ tx[s].pc = "locked"
  /\ row' = [t \in Tickets |-> IF t \in tx[s].rows THEN Updated(row[t], tx[s].cols)
                                                   ELSE row[t]]
  /\ tx' = [tx EXCEPT ![s] = Idle]
  /\ UNCHANGED overdue

\* An exception, a cancelled request or a killed process rolls the session back.
Rollback(s) ==
  /\ tx[s].pc \in {"read", "locked"}
  /\ tx' = [tx EXCEPT ![s] = Idle]
  /\ UNCHANGED <<row, overdue>>

\* The clock passes the deadline of t (sla_deadline is never NULL and never moves).
DeadlinePasses(t) ==
  /\ t \notin overdue
  /\ overdue' = overdue \cup {t}
  /\ UNCHANGED <<row, tx>>

-----------------------------------------------------------------------------
Init ==
  /\ row = [t \in Tickets |-> [status |-> "PENDING", label |-> None, agent |-> None]]
  /\ overdue = {}
  /\ tx = [s \in Sessions |-> Idle]

RequestBegins(s) ==
  \E t \in Tickets :
    \/ \E new \in Statuses : BeginUpdateStatus(s, t, new)
    \/ \E a \in Agents : BeginAssign(s, t, a)
    \/ \E l \in Labels : BeginClassify(s, t, l)
    \/ BeginInsert(s, t)

Next ==
  \/ \E s \in Requests : RequestBegins(s)
  \/ \E w \in Sweepers : SweepClaim(w)
  \/ \E s \in Sessions : Flush(s) \/ Commit(s) \/ Rollback(s)
  \/ \E t \in Tickets : DeadlinePasses(t)

Spec == Init /\ [][Next]_vars

\* Beat starts a sweep every minute.  PostgreSQL queues the sessions that wait
\* for a row, so each gets its turn; failures are transient, so a session that
\* is tried again and again commits in the end, and so do sweeps that have
\* claimed a certain ticket, among others.  Nobody has to send a request.
Fairness ==
  /\ \A w \in Sweepers : WF_vars(SweepClaim(w))
  /\ \A s \in Requests : SF_vars(Flush(s)) /\ SF_vars(Commit(s))
  /\ \A w \in Sweepers, t \in Tickets : SF_vars(tx[w] # Idle /\ t \in tx[w].rows /\ Commit(w))

FairSpec == Spec /\ Fairness

-----------------------------------------------------------------------------
\* Every row and every open transaction has the shape the code gives it.
TypeOK ==
  /\ row \in [Tickets -> Row]
  /\ overdue \subseteq Tickets
  /\ tx \in [Sessions -> Transaction \cup {Idle}]

\* What a sweep read stays true until it commits: while it holds its claim,
\* every row in it is still open and overdue, so no ticket resolved in the
\* meantime is flagged BREACHED and none is flagged twice.
SweepClaimStable ==
  \A s \in Sessions :
    tx[s].pc = "locked" /\ tx[s].op = "sweep"
      => \A t \in tx[s].rows : t \in overdue /\ row[t].status \in OpenStatuses

\* A ticket carries a label exactly when the classifier, and not only people or
\* the sweep, has been at it: never a label on a PENDING ticket (the worker
\* would label it again), never CLASSIFIED without one.
LabelMatchesStatus ==
  \A t \in Tickets :
    /\ row[t].status = "PENDING" => row[t].label = None
    /\ row[t].status = "CLASSIFIED" => row[t].label # None

\* Only an open ticket past its deadline becomes BREACHED.
BreachIsDeserved ==
  [][\A t \in Tickets :
       row[t].status # "BREACHED" /\ row'[t].status = "BREACHED"
         => t \in overdue /\ row[t].status \in OpenStatuses]_vars

\* Assignments and status changes never undo one another: only the commit of an
\* assignment changes the agent, and it leaves the status alone, so neither a
\* status change, a classification nor a sweep writes back the agent it read
\* earlier, and no assignment the status.
AssignmentIsolated ==
  [][\A t \in Tickets :
       row'[t].agent # row[t].agent
         => /\ row'[t].status = row[t].status
            /\ \E s \in Sessions : /\ tx[s] # Idle
                                   /\ tx[s].op = "assign"
                                   /\ tx'[s] = Idle]_vars

-----------------------------------------------------------------------------
\* The documented rules that hold only when sessions do not overlap.

\* "RESOLVED is a terminal state (no reopening)": ticket_service.py:24.
ResolvedIsTerminal ==
  [][\A t \in Tickets : row[t].status = "RESOLVED" => row'[t].status = "RESOLVED"]_vars

\* A resolved or breached ticket is not assigned: ticket_service.py:25.
NotAssignedWhenClosed ==
  [][\A t \in Tickets : row[t].status \in Unassignable => row'[t].agent = row[t].agent]_vars

\* "must not reclassify a ticket an earlier attempt already finished":
\* classify.py:37.
NotReclassified ==
  [][\A t \in Tickets : row[t].label # None => row'[t].label = row[t].label]_vars

\* Every step is a step of the lifecycle machine, or changes no row.
Lifecycle == INSTANCE TicketLifecycle WITH
  Tickets <- Tickets, Agents <- Agents, Labels <- Labels, None <- None,
  row <- row, overdue <- overdue

ImplementsLifecycle == Lifecycle!Spec

-----------------------------------------------------------------------------
\* Some request has t under its hands.
Busy(t) == \E s \in Requests : tx[s] # Idle /\ t \in tx[s].rows

\* A ticket that goes overdue while open is flagged, or resolved first, once
\* requests leave its row alone: a sweep that skips the locked row, or fails,
\* is followed by one that gets it.
OverdueIsFlagged ==
  \A t \in Tickets :
    <>[]~Busy(t)
      => (t \in overdue /\ row[t].status \in OpenStatuses
            ~> row[t].status \in {"BREACHED", "RESOLVED"})

\* No request waits for a row lock for ever, however many contend for the row.
RequestEnds == \A s \in Requests : tx[s].pc = "read" ~> tx[s] = Idle

=============================================================================
