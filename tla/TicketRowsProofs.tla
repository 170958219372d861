-------------------------- MODULE TicketRowsProofs --------------------------
(* Theorems about TicketRows for any tickets, agents, labels and sessions.   *)
(* The sweep's claim is stable because locks exclude one another and because *)
(* of what each kind of transaction may write; the two go into the inductive *)
(* invariant IInv.  And as long as no two open transactions work on one      *)
(* ticket, every change of a row is a step of TicketLifecycle, and the       *)
(* documented rules hold: it is overlap on a row, and nothing else, that     *)
(* breaks them.                                                              *)
EXTENDS TicketRows, TLAPS

\* Two sessions never hold conflicting locks on one row.
LockExclusion ==
  \A s1, s2 \in Sessions :
    \A t \in Tickets :
      s1 # s2 /\ tx[s2].pc = "locked" /\ t \in tx[s2].rows
        => ~Blocks(s1, tx[s2].op, t)

\* What the transaction x may write, by the operation it belongs to.
Shape(x) ==
  /\ x.op = "status" => /\ x.cols.status \in {"IN_PROGRESS", "RESOLVED"}
                        /\ x.cols.label = None
                        /\ x.cols.agent = None
  /\ x.op = "assign" => x.cols.status = None /\ x.cols.label = None
  /\ x.op = "classify" => /\ x.cols.status = "CLASSIFIED"
                          /\ x.cols.label \in Labels
                          /\ x.cols.agent = None
  /\ x.op = "insert" => x.cols = NoColumns
  /\ x.op = "sweep" => /\ x.pc = "locked"
                       /\ x.cols.status = "BREACHED"
                       /\ x.cols.label = None
                       /\ x.cols.agent = None

TxShape == \A s \in Sessions : tx[s] # Idle => Shape(tx[s])

IInv == TypeOK /\ LockExclusion /\ TxShape /\ SweepClaimStable /\ LabelMatchesStatus

-----------------------------------------------------------------------------
\* A session that is not idle has a transaction with all its fields.
LEMMA OpenTransaction ==
  ASSUME TypeOK, NEW s \in Sessions, tx[s].pc # "idle"
  PROVE  tx[s] \in Transaction
BY DEF TypeOK, Idle

LEMMA InitInv == Init => IInv
BY NoneAssumption DEF Init, IInv, TypeOK, LockExclusion, TxShape, SweepClaimStable,
   LabelMatchesStatus, Idle, Blocks, Row, Statuses

\* A request's read changes no row and takes no lock.
LEMMA BeginInv ==
  ASSUME IInv, NEW s \in Sessions, NEW op \in Ops \ {"sweep"}, NEW t \in Tickets,
         NEW cols \in Columns, Begin(s, op, t, cols),
         Shape([pc |-> "read", op |-> op, rows |-> {t}, cols |-> cols])
  PROVE  IInv'
<1> DEFINE new == [pc |-> "read", op |-> op, rows |-> {t}, cols |-> cols]
<1>1. new \in Transaction
  BY DEF Transaction
<1>2. /\ tx[s] = Idle
      /\ tx' = [tx EXCEPT ![s] = new]
      /\ row' = row
      /\ overdue' = overdue
  BY DEF Begin
<1>3. TypeOK'
  BY <1>1, <1>2 DEF IInv, TypeOK
<1>4. \A u \in Sessions : tx'[u] = IF u = s THEN new ELSE tx[u]
  BY <1>2 DEF IInv, TypeOK
<1>5. LockExclusion'
  BY <1>4 DEF IInv, LockExclusion, Blocks
<1>6. TxShape'
  BY <1>4 DEF IInv, TxShape
<1>7. SweepClaimStable'
  BY <1>2, <1>4 DEF IInv, SweepClaimStable
<1>8. LabelMatchesStatus'
  BY <1>2 DEF IInv, LabelMatchesStatus
<1> QED
  BY <1>3, <1>5, <1>6, <1>7, <1>8 DEF IInv

LEMMA RequestInv ==
  ASSUME IInv, NEW s \in Requests, RequestBegins(s)
  PROVE  IInv'
<1> s \in Sessions
  BY DEF Sessions
<1> PICK t \in Tickets :
      \/ \E new \in Statuses : BeginUpdateStatus(s, t, new)
      \/ \E a \in Agents : BeginAssign(s, t, a)
      \/ \E l \in Labels : BeginClassify(s, t, l)
      \/ BeginInsert(s, t)
  BY DEF RequestBegins
<1>1. ASSUME NEW new \in Statuses, BeginUpdateStatus(s, t, new)
      PROVE  IInv'
  <2> DEFINE cols == [NoColumns EXCEPT !.status = new]
  <2>1. cols = [status |-> new, label |-> None, agent |-> None]
    BY DEF NoColumns
  <2>2. new \in {"IN_PROGRESS", "RESOLVED"}
    BY <1>1 DEF BeginUpdateStatus, ManualTransitions
  <2>3. cols \in Columns
    BY <2>1 DEF Columns
  <2>4. Shape([pc |-> "read", op |-> "status", rows |-> {t}, cols |-> cols])
    BY <2>1, <2>2 DEF Shape
  <2>5. Begin(s, "status", t, cols)
    BY <1>1 DEF BeginUpdateStatus
  <2> QED
    BY <2>3, <2>4, <2>5, BeginInv DEF Ops
<1>2. ASSUME NEW a \in Agents, BeginAssign(s, t, a)
      PROVE  IInv'
  <2> DEFINE cols == [NoColumns EXCEPT !.agent = a]
  <2>1. cols = [status |-> None, label |-> None, agent |-> a]
    BY DEF NoColumns
  <2>2. cols \in Columns
    BY <2>1 DEF Columns
  <2>3. Shape([pc |-> "read", op |-> "assign", rows |-> {t}, cols |-> cols])
    BY <2>1 DEF Shape
  <2>4. Begin(s, "assign", t, cols)
    BY <1>2 DEF BeginAssign
  <2> QED
    BY <2>2, <2>3, <2>4, BeginInv DEF Ops
<1>3. ASSUME NEW l \in Labels, BeginClassify(s, t, l)
      PROVE  IInv'
  <2> DEFINE cols == [status |-> "CLASSIFIED", label |-> l, agent |-> None]
  <2>1. cols \in Columns
    BY DEF Columns, Statuses
  <2>2. Shape([pc |-> "read", op |-> "classify", rows |-> {t}, cols |-> cols])
    BY DEF Shape
  <2>3. Begin(s, "classify", t, cols)
    BY <1>3 DEF BeginClassify
  <2> QED
    BY <2>1, <2>2, <2>3, BeginInv DEF Ops
<1>4. ASSUME BeginInsert(s, t)
      PROVE  IInv'
  <2>1. NoColumns \in Columns
    BY DEF NoColumns, Columns
  <2>2. Shape([pc |-> "read", op |-> "insert", rows |-> {t}, cols |-> NoColumns])
    BY DEF Shape
  <2> QED
    BY <1>4, <2>1, <2>2, BeginInv DEF BeginInsert, Ops
<1> QED
  BY <1>1, <1>2, <1>3, <1>4

\* A write that had to wait takes its lock only when nothing conflicts with it.
LEMMA FlushInv ==
  ASSUME IInv, NEW s \in Sessions, Flush(s)
  PROVE  IInv'
<1>1. /\ tx[s] \in Transaction
      /\ tx[s].pc = "read"
      /\ tx[s].op # "sweep"
  BY OpenTransaction DEF Flush, IInv, TxShape, Shape, Idle
<1> DEFINE new == [tx[s] EXCEPT !.pc = "locked"]
<1>2. /\ new \in Transaction
      /\ new.pc = "locked"
      /\ new.op = tx[s].op
      /\ new.rows = tx[s].rows
      /\ new.cols = tx[s].cols
  BY <1>1 DEF Transaction
<1>3. tx' = [tx EXCEPT ![s] = new] /\ row' = row /\ overdue' = overdue
  BY DEF Flush
<1>4. \A u \in Sessions : tx'[u] = IF u = s THEN new ELSE tx[u]
  BY <1>3 DEF IInv, TypeOK
<1>5. TypeOK'
  BY <1>2, <1>3 DEF IInv, TypeOK
<1>6. LockExclusion'
  <2> SUFFICES ASSUME NEW s1 \in Sessions, NEW s2 \in Sessions, NEW t \in Tickets,
                      s1 # s2, tx'[s2].pc = "locked", t \in tx'[s2].rows
               PROVE  ~(/\ tx'[s1].pc = "locked"
                        /\ t \in tx'[s1].rows
                        /\ Conflict(tx'[s1].op, tx'[s2].op))
    BY DEF LockExclusion, Blocks
  <2>1. CASE s2 = s
    BY <1>2, <1>4, <2>1 DEF Flush, Blocks
  <2>2. CASE s1 = s
    BY <1>2, <1>4, <2>2 DEF Flush, Blocks, Conflict
  <2>3. CASE s1 # s /\ s2 # s
    BY <1>4, <2>3 DEF IInv, LockExclusion, Blocks
  <2> QED
    BY <2>1, <2>2, <2>3
<1>7. TxShape'
  <2>1. Shape(tx[s])
    BY <1>1 DEF IInv, TxShape, Idle
  <2>2. Shape(new)
    BY <1>1, <1>2, <2>1 DEF Shape
  <2> QED
    BY <1>4, <2>2 DEF IInv, TxShape
<1>8. SweepClaimStable'
  BY <1>1, <1>2, <1>3, <1>4 DEF IInv, SweepClaimStable
<1>9. LabelMatchesStatus'
  BY <1>3 DEF IInv, LabelMatchesStatus
<1> QED
  BY <1>5, <1>6, <1>7, <1>8, <1>9 DEF IInv

\* The sweep locks and reads in one step, so what it claims is open and overdue.
LEMMA SweepClaimInv ==
  ASSUME IInv, NEW w \in Sweepers, SweepClaim(w)
  PROVE  IInv'
<1> w \in Sessions
  BY DEF Sessions
<1> DEFINE cols == [NoColumns EXCEPT !.status = "BREACHED"]
           new == [pc |-> "locked", op |-> "sweep", rows |-> Claimable, cols |-> cols]
<1>1. cols = [status |-> "BREACHED", label |-> None, agent |-> None]
  BY DEF NoColumns
<1>2. Claimable \subseteq Tickets
  BY DEF Claimable, IInv, TypeOK
<1>3. new \in Transaction
  BY <1>1, <1>2 DEF Transaction, Columns, Statuses, Ops
<1>4. tx' = [tx EXCEPT ![w] = new] /\ row' = row /\ overdue' = overdue
  BY DEF SweepClaim
<1>5. \A u \in Sessions : tx'[u] = IF u = w THEN new ELSE tx[u]
  BY <1>4 DEF IInv, TypeOK
<1>6. TypeOK'
  BY <1>3, <1>4 DEF IInv, TypeOK
<1>7. LockExclusion'
  <2> SUFFICES ASSUME NEW s1 \in Sessions, NEW s2 \in Sessions, NEW t \in Tickets,
                      s1 # s2, tx'[s2].pc = "locked", t \in tx'[s2].rows
               PROVE  ~(/\ tx'[s1].pc = "locked"
                        /\ t \in tx'[s1].rows
                        /\ Conflict(tx'[s1].op, tx'[s2].op))
    BY DEF LockExclusion, Blocks
  <2>1. CASE s2 = w
    <3>1. tx'[s2].op = "sweep" /\ t \in Claimable /\ tx'[s1] = tx[s1]
      BY <1>5, <2>1
    <3>2. ~Blocks(s1, "sweep", t)
      BY <3>1 DEF Claimable
    <3> QED
      BY <3>1, <3>2 DEF Blocks
  <2>2. CASE s1 = w
    <3>1. /\ tx'[s1].op = "sweep"
          /\ tx'[s1].rows = Claimable
          /\ tx'[s2] = tx[s2]
      BY <1>5, <2>2
    <3>2. t \in Claimable => ~Blocks(s2, "sweep", t)
      BY DEF Claimable
    <3> QED
      BY <3>1, <3>2 DEF Blocks, Conflict
  <2>3. CASE s1 # w /\ s2 # w
    BY <1>5, <2>3 DEF IInv, LockExclusion, Blocks
  <2> QED
    BY <2>1, <2>2, <2>3
<1>8. TxShape'
  BY <1>1, <1>5 DEF IInv, TxShape, Shape
<1>9. SweepClaimStable'
  BY <1>4, <1>5 DEF IInv, SweepClaimStable, Claimable
<1>10. LabelMatchesStatus'
  BY <1>4 DEF IInv, LabelMatchesStatus
<1> QED
  BY <1>6, <1>7, <1>8, <1>9, <1>10 DEF IInv

\* An UPDATE keeps a row a row.
LEMMA UpdatedType ==
  ASSUME NEW r \in Row, NEW cols \in Columns
  PROVE  Updated(r, cols) \in Row
BY DEF Updated, Row, Columns

LEMMA UpdatedColumns ==
  ASSUME NEW r \in Row, NEW cols \in Columns
  PROVE  /\ Updated(r, cols).status = IF cols.status = None THEN r.status ELSE cols.status
         /\ Updated(r, cols).label = IF cols.label = None THEN r.label ELSE cols.label
         /\ Updated(r, cols).agent = IF cols.agent = None THEN r.agent ELSE cols.agent
BY DEF Updated

\* A commit writes only rows no other session has claimed.
LEMMA CommitInv ==
  ASSUME IInv, NEW s \in Sessions, Commit(s)
  PROVE  IInv'
<1> DEFINE x == tx[s]
<1>1. x \in Transaction /\ x.pc = "locked" /\ x # Idle
  BY OpenTransaction DEF Commit, IInv, Idle
<1>2. x.cols \in Columns /\ x.rows \subseteq Tickets /\ x.op \in Ops
  BY <1>1 DEF Transaction
<1>3. \A t \in Tickets : row'[t] = IF t \in x.rows THEN Updated(row[t], x.cols) ELSE row[t]
  BY DEF Commit
<1>4. tx' = [tx EXCEPT ![s] = Idle] /\ overdue' = overdue
  BY DEF Commit
<1>5. \A u \in Sessions : tx'[u] = IF u = s THEN Idle ELSE tx[u]
  BY <1>4 DEF IInv, TypeOK
<1>6. TypeOK'
  <2>1. row' \in [Tickets -> Row]
    BY <1>2, UpdatedType DEF Commit, IInv, TypeOK
  <2> QED
    BY <1>4, <2>1 DEF IInv, TypeOK
<1>7. LockExclusion'
  BY <1>5 DEF IInv, LockExclusion, Blocks, Idle
<1>8. TxShape'
  BY <1>5 DEF IInv, TxShape
<1>9. SweepClaimStable'
  <2> SUFFICES ASSUME NEW u \in Sessions, tx'[u].pc = "locked", tx'[u].op = "sweep",
                      NEW t \in tx'[u].rows
               PROVE  t \in overdue' /\ row'[t].status \in OpenStatuses
    BY DEF SweepClaimStable
  <2>1. u # s /\ tx'[u] = tx[u]
    BY <1>5 DEF Idle
  <2>2. t \in Tickets
    BY <2>1, OpenTransaction DEF IInv, Transaction
  <2>3. t \in overdue /\ row[t].status \in OpenStatuses
    BY <2>1 DEF IInv, SweepClaimStable
  <2>4. t \notin x.rows
    BY <1>1, <2>1, <2>2 DEF IInv, LockExclusion, Blocks, Conflict
  <2> QED
    BY <1>3, <1>4, <2>2, <2>3, <2>4
<1>10. LabelMatchesStatus'
  <2> SUFFICES ASSUME NEW t \in Tickets, t \in x.rows
               PROVE  /\ row'[t].status = "PENDING" => row'[t].label = None
                      /\ row'[t].status = "CLASSIFIED" => row'[t].label # None
    BY <1>3 DEF IInv, LabelMatchesStatus
  <2>1. /\ row'[t].status = IF x.cols.status = None THEN row[t].status ELSE x.cols.status
        /\ row'[t].label = IF x.cols.label = None THEN row[t].label ELSE x.cols.label
    BY <1>2, <1>3, UpdatedColumns DEF IInv, TypeOK
  <2>2. /\ row[t].status = "PENDING" => row[t].label = None
        /\ row[t].status = "CLASSIFIED" => row[t].label # None
    BY DEF IInv, LabelMatchesStatus
  <2>3. Shape(x)
    BY <1>1 DEF IInv, TxShape
  <2>4. \/ x.cols.status = None /\ x.cols.label = None
        \/ x.cols.status \in {"IN_PROGRESS", "RESOLVED", "BREACHED"} /\ x.cols.label = None
        \/ x.cols.status = "CLASSIFIED" /\ x.cols.label \in Labels
    BY <1>2, <2>3 DEF Shape, Ops, NoColumns
  <2> QED
    BY <2>1, <2>2, <2>4, NoneAssumption DEF Statuses
<1> QED
  BY <1>6, <1>7, <1>8, <1>9, <1>10 DEF IInv

LEMMA RollbackInv ==
  ASSUME IInv, NEW s \in Sessions, Rollback(s)
  PROVE  IInv'
<1>1. tx' = [tx EXCEPT ![s] = Idle] /\ row' = row /\ overdue' = overdue
  BY DEF Rollback
<1>2. \A u \in Sessions : tx'[u] = IF u = s THEN Idle ELSE tx[u]
  BY <1>1 DEF IInv, TypeOK
<1>3. TypeOK'
  BY <1>1 DEF IInv, TypeOK
<1>4. LockExclusion' /\ TxShape'
  BY <1>2 DEF IInv, LockExclusion, TxShape, Blocks, Idle
<1>5. SweepClaimStable' /\ LabelMatchesStatus'
  BY <1>1, <1>2 DEF IInv, SweepClaimStable, LabelMatchesStatus, Idle
<1> QED
  BY <1>3, <1>4, <1>5 DEF IInv

LEMMA DeadlineInv ==
  ASSUME IInv, NEW t \in Tickets, DeadlinePasses(t)
  PROVE  IInv'
<1>1. overdue' = overdue \cup {t} /\ row' = row /\ tx' = tx
  BY DEF DeadlinePasses
<1>2. TypeOK' /\ SweepClaimStable'
  BY <1>1 DEF IInv, TypeOK, SweepClaimStable
<1>3. LockExclusion' /\ TxShape' /\ LabelMatchesStatus'
  BY <1>1 DEF IInv, LockExclusion, TxShape, LabelMatchesStatus, Blocks
<1> QED
  BY <1>2, <1>3 DEF IInv

LEMMA NextInv == IInv /\ [Next]_vars => IInv'
<1> SUFFICES ASSUME IInv, [Next]_vars
             PROVE  IInv'
  OBVIOUS
<1>1. CASE \E s \in Requests : RequestBegins(s)
  BY <1>1, RequestInv
<1>2. CASE \E w \in Sweepers : SweepClaim(w)
  BY <1>2, SweepClaimInv
<1>3. CASE \E s \in Sessions : Flush(s) \/ Commit(s) \/ Rollback(s)
  BY <1>3, FlushInv, CommitInv, RollbackInv
<1>4. CASE \E t \in Tickets : DeadlinePasses(t)
  BY <1>4, DeadlineInv
<1>5. CASE UNCHANGED vars
  BY <1>5 DEF vars, IInv, TypeOK, LockExclusion, TxShape, SweepClaimStable,
              LabelMatchesStatus, Blocks
<1> QED
  BY <1>1, <1>2, <1>3, <1>4, <1>5 DEF Next

LEMMA SpecInv == Spec => []IInv
BY InitInv, NextInv, PTL DEF Spec

-----------------------------------------------------------------------------
\* Rows and transactions keep their shape.
THEOREM TypeCorrect == Spec => []TypeOK
<1>1. IInv => TypeOK
  BY DEF IInv
<1> QED
  BY <1>1, SpecInv, PTL

\* While a sweep holds its claim, the rows in it stay open and overdue.
THEOREM ClaimsStable == Spec => []SweepClaimStable
<1>1. IInv => SweepClaimStable
  BY DEF IInv
<1> QED
  BY <1>1, SpecInv, PTL

\* A PENDING ticket has no label and a CLASSIFIED one has one.
THEOREM LabelsMatch == Spec => []LabelMatchesStatus
<1>1. IInv => LabelMatchesStatus
  BY DEF IInv
<1> QED
  BY <1>1, SpecInv, PTL

\* A row changes only by a commit.
LEMMA RowChanges ==
  ASSUME IInv, [Next]_vars, row' # row
  PROVE  \E s \in Sessions : Commit(s)
<1>1. ASSUME NEW s \in Requests, RequestBegins(s)
      PROVE  row' = row
  BY <1>1 DEF RequestBegins, BeginUpdateStatus, BeginAssign, BeginClassify, BeginInsert, Begin
<1>2. ASSUME NEW s \in Sessions, Flush(s) \/ Rollback(s)
      PROVE  row' = row
  BY <1>2 DEF Flush, Rollback
<1>3. ASSUME NEW w \in Sweepers, SweepClaim(w)
      PROVE  row' = row
  BY <1>3 DEF SweepClaim
<1>4. ASSUME NEW t \in Tickets, DeadlinePasses(t)
      PROVE  row' = row
  BY <1>4 DEF DeadlinePasses
<1> QED
  BY <1>1, <1>2, <1>3, <1>4 DEF Next, vars

\* What a commit does to a row that it changes, column by column.
LEMMA CommitEffect ==
  ASSUME IInv, NEW s \in Sessions, Commit(s), NEW t \in Tickets, row'[t] # row[t]
  PROVE  /\ t \in tx[s].rows
         /\ tx[s].pc = "locked"
         /\ tx[s] # Idle
         /\ tx[s].op \in Ops
         /\ Shape(tx[s])
         /\ tx'[s] = Idle
         /\ row'[t].status =
              IF tx[s].cols.status = None THEN row[t].status ELSE tx[s].cols.status
         /\ row'[t].label =
              IF tx[s].cols.label = None THEN row[t].label ELSE tx[s].cols.label
         /\ row'[t].agent =
              IF tx[s].cols.agent = None THEN row[t].agent ELSE tx[s].cols.agent
<1>1. tx[s] \in Transaction /\ tx[s].pc = "locked" /\ tx[s] # Idle
  BY OpenTransaction DEF Commit, IInv, Idle
<1>2. tx[s].cols \in Columns /\ tx[s].op \in Ops
  BY <1>1 DEF Transaction
<1>3. row'[t] = IF t \in tx[s].rows THEN Updated(row[t], tx[s].cols) ELSE row[t]
  BY DEF Commit
<1>4. t \in tx[s].rows /\ row'[t] = Updated(row[t], tx[s].cols)
  BY <1>3
<1>5. Shape(tx[s])
  BY <1>1 DEF IInv, TxShape
<1>6. tx'[s] = Idle
  BY DEF Commit, IInv, TypeOK
<1> QED
  BY <1>1, <1>2, <1>4, <1>5, <1>6, UpdatedColumns DEF IInv, TypeOK

\* Only an open ticket past its deadline becomes BREACHED.
THEOREM BreachesDeserved == Spec => BreachIsDeserved
<1> DEFINE Deserved ==
      \A t \in Tickets :
        row[t].status # "BREACHED" /\ row'[t].status = "BREACHED"
          => t \in overdue /\ row[t].status \in OpenStatuses
<1>1. IInv /\ [Next]_vars => Deserved
  <2> SUFFICES ASSUME IInv, [Next]_vars, NEW t \in Tickets,
                      row[t].status # "BREACHED", row'[t].status = "BREACHED"
               PROVE  t \in overdue /\ row[t].status \in OpenStatuses
    OBVIOUS
  <2>1. PICK s \in Sessions : Commit(s)
    BY RowChanges
  <2>2. /\ t \in tx[s].rows
        /\ tx[s].pc = "locked"
        /\ tx[s].op \in Ops
        /\ Shape(tx[s])
        /\ row'[t].status =
             IF tx[s].cols.status = None THEN row[t].status ELSE tx[s].cols.status
    BY <2>1, CommitEffect
  <2>3. tx[s].op = "sweep"
    BY <2>2 DEF Shape, Ops, NoColumns
  <2> QED
    BY <2>2, <2>3 DEF IInv, SweepClaimStable
<1> QED
  BY <1>1, SpecInv, PTL DEF Spec, BreachIsDeserved

\* Assignments and status changes never undo one another.
THEOREM AssignmentsIsolated == Spec => AssignmentIsolated
<1> DEFINE Isolated ==
      \A t \in Tickets :
        row'[t].agent # row[t].agent
          => /\ row'[t].status = row[t].status
             /\ \E s \in Sessions : /\ tx[s] # Idle
                                    /\ tx[s].op = "assign"
                                    /\ tx'[s] = Idle
<1>1. IInv /\ [Next]_vars => Isolated
  <2> SUFFICES ASSUME IInv, [Next]_vars, NEW t \in Tickets,
                      row'[t].agent # row[t].agent
               PROVE  /\ row'[t].status = row[t].status
                      /\ \E s \in Sessions : /\ tx[s] # Idle
                                             /\ tx[s].op = "assign"
                                             /\ tx'[s] = Idle
    OBVIOUS
  <2>1. PICK s \in Sessions : Commit(s)
    BY RowChanges
  <2>2. /\ tx[s] # Idle
        /\ tx[s].op \in Ops
        /\ Shape(tx[s])
        /\ tx'[s] = Idle
        /\ row'[t].status =
             IF tx[s].cols.status = None THEN row[t].status ELSE tx[s].cols.status
        /\ row'[t].agent =
             IF tx[s].cols.agent = None THEN row[t].agent ELSE tx[s].cols.agent
    BY <2>1, CommitEffect
  <2>3. tx[s].op = "assign"
    BY <2>2 DEF Shape, Ops, NoColumns
  <2> QED
    BY <2>2, <2>3 DEF Shape
<1> QED
  BY <1>1, SpecInv, PTL DEF Spec, AssignmentIsolated

-----------------------------------------------------------------------------
\* No ticket is in the hands of two open transactions.
NoOverlap ==
  \A s1, s2 \in Sessions :
    s1 # s2 /\ tx[s1] # Idle /\ tx[s2] # Idle => tx[s1].rows \cap tx[s2].rows = {}

\* What the transaction x decided on holds of the row r.
Decided(x, r) ==
  /\ x.op = "status" => <<r.status, x.cols.status>> \in ManualTransitions
  /\ x.op = "assign" => r.status \notin Unassignable
  /\ x.op = "classify" => r.status = "PENDING"

\* Every decision still holds of the rows it was taken on, and every request
\* works on one ticket.
DecisionsHold ==
  \A s \in Sessions :
    tx[s] # Idle =>
      /\ \A t \in tx[s].rows : Decided(tx[s], row[t])
      /\ tx[s].op # "sweep" => \E t \in Tickets : tx[s].rows = {t}
      /\ tx[s].op = "assign" => tx[s].cols.agent \in Agents

\* Session s begins a request whose decision holds of the row it read.
BeginsDecided(s) ==
  \E op \in Ops, t \in Tickets, cols \in Columns :
    /\ Begin(s, op, t, cols)
    /\ op # "sweep"
    /\ Decided([pc |-> "read", op |-> op, rows |-> {t}, cols |-> cols], row[t])
    /\ op = "assign" => cols.agent \in Agents

-----------------------------------------------------------------------------
LEMMA InitDecisions == Init => DecisionsHold
BY DEF Init, DecisionsHold

\* Each request writes only after its check has passed.
LEMMA RequestDecides ==
  ASSUME NEW s \in Requests, RequestBegins(s)
  PROVE  BeginsDecided(s)
<1> PICK t \in Tickets :
      \/ \E new \in Statuses : BeginUpdateStatus(s, t, new)
      \/ \E a \in Agents : BeginAssign(s, t, a)
      \/ \E l \in Labels : BeginClassify(s, t, l)
      \/ BeginInsert(s, t)
  BY DEF RequestBegins
<1>1. ASSUME NEW new \in Statuses, BeginUpdateStatus(s, t, new)
      PROVE  BeginsDecided(s)
  <2> DEFINE cols == [NoColumns EXCEPT !.status = new]
  <2>1. cols \in Columns /\ cols.status = new
    BY DEF NoColumns, Columns
  <2>2. Begin(s, "status", t, cols) /\ <<row[t].status, new>> \in ManualTransitions
    BY <1>1 DEF BeginUpdateStatus
  <2> HIDE DEF cols
  <2> QED
    BY <2>1, <2>2 DEF BeginsDecided, Ops, Decided
<1>2. ASSUME NEW a \in Agents, BeginAssign(s, t, a)
      PROVE  BeginsDecided(s)
  <2> DEFINE cols == [NoColumns EXCEPT !.agent = a]
  <2>1. cols \in Columns /\ cols.agent = a
    BY DEF NoColumns, Columns
  <2>2. Begin(s, "assign", t, cols) /\ row[t].status \notin Unassignable
    BY <1>2 DEF BeginAssign
  <2> HIDE DEF cols
  <2> QED
    BY <2>1, <2>2 DEF BeginsDecided, Ops, Decided
<1>3. ASSUME NEW l \in Labels, BeginClassify(s, t, l)
      PROVE  BeginsDecided(s)
  <2> DEFINE cols == [status |-> "CLASSIFIED", label |-> l, agent |-> None]
  <2>1. cols \in Columns
    BY DEF Columns, Statuses
  <2>2. Begin(s, "classify", t, cols) /\ row[t].status = "PENDING"
    BY <1>3 DEF BeginClassify
  <2> HIDE DEF cols
  <2> QED
    BY <2>1, <2>2 DEF BeginsDecided, Ops, Decided
<1>4. ASSUME BeginInsert(s, t)
      PROVE  BeginsDecided(s)
  <2>1. NoColumns \in Columns
    BY DEF NoColumns, Columns
  <2> QED
    BY <1>4, <2>1 DEF BeginInsert, BeginsDecided, Ops, Decided
<1> QED
  BY <1>1, <1>2, <1>3, <1>4

\* Only a commit writes rows, those of its own transaction.
LEMMA DecisionsKept ==
  ASSUME IInv, NoOverlap, DecisionsHold, [Next]_vars
  PROVE  DecisionsHold'
<1>1. CASE UNCHANGED vars
  BY <1>1 DEF vars, DecisionsHold
<1>2. ASSUME NEW s \in Requests, RequestBegins(s)
      PROVE  DecisionsHold'
  <2> s \in Sessions
    BY DEF Sessions
  <2>1. BeginsDecided(s)
    BY <1>2, RequestDecides
  <2> PICK op \in Ops, t \in Tickets, cols \in Columns :
        /\ Begin(s, op, t, cols)
        /\ op # "sweep"
        /\ Decided([pc |-> "read", op |-> op, rows |-> {t}, cols |-> cols], row[t])
        /\ op = "assign" => cols.agent \in Agents
    BY <2>1 DEF BeginsDecided
  <2> DEFINE new == [pc |-> "read", op |-> op, rows |-> {t}, cols |-> cols]
  <2>2. row' = row /\ \A u \in Sessions : tx'[u] = IF u = s THEN new ELSE tx[u]
    BY DEF Begin, IInv, TypeOK
  <2>3. /\ \A v \in new.rows : Decided(new, row[v])
        /\ \E v \in Tickets : new.rows = {v}
        /\ new.op = "assign" => new.cols.agent \in Agents
    OBVIOUS
  <2> HIDE DEF new
  <2> QED
    BY <2>2, <2>3 DEF DecisionsHold
<1>3. ASSUME NEW w \in Sweepers, SweepClaim(w)
      PROVE  DecisionsHold'
  <2> w \in Sessions
    BY DEF Sessions
  <2> DEFINE new == [pc |-> "locked", op |-> "sweep", rows |-> Claimable,
                     cols |-> [NoColumns EXCEPT !.status = "BREACHED"]]
  <2>1. row' = row /\ \A u \in Sessions : tx'[u] = IF u = w THEN new ELSE tx[u]
    BY <1>3 DEF SweepClaim, IInv, TypeOK
  <2> QED
    BY <2>1 DEF DecisionsHold, Decided
<1>4. ASSUME NEW s \in Sessions, Flush(s)
      PROVE  DecisionsHold'
  <2>1. tx[s] # Idle
    BY <1>4 DEF Flush, Idle
  <2>2. tx[s] \in Transaction
    BY <2>1 DEF IInv, TypeOK
  <2>3. row' = row /\ \A u \in Sessions :
          tx'[u] = IF u = s THEN [tx[s] EXCEPT !.pc = "locked"] ELSE tx[u]
    BY <1>4 DEF Flush, IInv, TypeOK
  <2> QED
    BY <2>1, <2>2, <2>3 DEF DecisionsHold, Decided, Transaction
<1>5. ASSUME NEW s \in Sessions, Commit(s)
      PROVE  DecisionsHold'
  <2>1. tx[s] # Idle
    BY <1>5 DEF Commit, Idle
  <2>2. \A u \in Sessions : tx'[u] = IF u = s THEN Idle ELSE tx[u]
    BY <1>5 DEF Commit, IInv, TypeOK
  <2>3. \A t \in Tickets : t \notin tx[s].rows => row'[t] = row[t]
    BY <1>5 DEF Commit
  <2>4. ASSUME NEW u \in Sessions, tx'[u] # Idle
        PROVE  /\ tx'[u] = tx[u] /\ tx[u] # Idle /\ tx[u].rows \subseteq Tickets
               /\ \A t \in tx[u].rows : row'[t] = row[t]
    <3>1. u # s /\ tx'[u] = tx[u]
      BY <2>2, <2>4
    <3>2. tx[u] \in Transaction
      BY <3>1, <2>4 DEF IInv, TypeOK
    <3> QED
      BY <3>1, <3>2, <2>1, <2>3, <2>4 DEF NoOverlap, Transaction
  <2> QED
    BY <2>4 DEF DecisionsHold
<1>6. ASSUME NEW s \in Sessions, Rollback(s)
      PROVE  DecisionsHold'
  BY <1>6 DEF Rollback, DecisionsHold, IInv, TypeOK
<1>7. ASSUME NEW t \in Tickets, DeadlinePasses(t)
      PROVE  DecisionsHold'
  BY <1>7 DEF DeadlinePasses, DecisionsHold
<1> QED
  BY <1>1, <1>2, <1>3, <1>4, <1>5, <1>6, <1>7 DEF Next

\* What labelling a row leaves of it.
LEMMA Labelled ==
  ASSUME NEW r \in Row, NEW st, NEW l
  PROVE  [r EXCEPT !.status = st, !.label = l]
           = [status |-> st, label |-> l, agent |-> r.agent]
<1> DEFINE q == [r EXCEPT !.status = st]
<1>1. q = [status |-> st, label |-> r.label, agent |-> r.agent]
  BY DEF Row
<1> HIDE DEF q
<1>2. q \in [status : {st}, label : Labels \cup {None}, agent : Agents \cup {None}]
  BY <1>1 DEF Row
<1>3. [q EXCEPT !.label = l] = [status |-> q.status, label |-> l, agent |-> q.agent]
  BY <1>2
<1>4. [r EXCEPT !.status = st, !.label = l] = [q EXCEPT !.label = l]
  BY DEF q
<1> QED
  BY <1>1, <1>3, <1>4

\* A step that changes rows without overlap is a lifecycle step on those rows.
LEMMA CommitSimulates ==
  ASSUME IInv, DecisionsHold, NEW s \in Sessions, Commit(s)
  PROVE  Lifecycle!Next \/ UNCHANGED Lifecycle!vars
<1> DEFINE x == tx[s]
<1>1. x \in Transaction /\ x.pc = "locked" /\ x # Idle
  BY OpenTransaction DEF Commit, IInv, Idle
<1>2. x.cols \in Columns /\ x.rows \subseteq Tickets /\ x.op \in Ops
  BY <1>1 DEF Transaction
<1>3. Shape(x)
  BY <1>1 DEF IInv, TxShape
<1>4. /\ \A t \in x.rows : Decided(x, row[t])
      /\ x.op # "sweep" => \E t \in Tickets : x.rows = {t}
      /\ x.op = "assign" => x.cols.agent \in Agents
  BY <1>1 DEF DecisionsHold
<1>5. /\ row' = [t \in Tickets |-> IF t \in x.rows THEN Updated(row[t], x.cols) ELSE row[t]]
      /\ overdue' = overdue
  BY DEF Commit
<1>6. row \in [Tickets -> Row]
  BY DEF IInv, TypeOK
<1> HIDE DEF x
<1>7. CASE x.op = "sweep"
  <2>1. \A t \in x.rows : t \in overdue /\ row[t].status \in OpenStatuses
    BY <1>1, <1>7 DEF x, IInv, SweepClaimStable
  <2>2. ASSUME NEW t \in x.rows
        PROVE  Updated(row[t], x.cols) = [row[t] EXCEPT !.status = "BREACHED"]
    BY <1>2, <1>3, <1>6, <1>7, NoneAssumption DEF Shape, Updated, Row, Statuses
  <2>3. row' = [t \in Tickets |-> IF t \in x.rows THEN [row[t] EXCEPT !.status = "BREACHED"]
                                                 ELSE row[t]]
    BY <1>5, <2>2
  <2>4. Lifecycle!Breach(x.rows)
    BY <1>5, <2>1, <2>3 DEF Lifecycle!Breach, OpenStatuses, Lifecycle!OpenStatuses
  <2> QED
    BY <1>2, <2>4 DEF Lifecycle!Next
<1>8. CASE x.op # "sweep"
  <2>1. PICK t \in Tickets : x.rows = {t}
    BY <1>4, <1>8
  <2>2. row' = [row EXCEPT ![t] = Updated(row[t], x.cols)]
    BY <1>5, <1>6, <2>1
  <2>3. row[t] \in Row /\ Decided(x, row[t])
    BY <1>4, <1>6, <2>1
  <2>4. CASE x.op = "status"
    <3>1. Updated(row[t], x.cols) = [row[t] EXCEPT !.status = x.cols.status]
      BY <1>3, <2>3, <2>4, NoneAssumption DEF Shape, Updated, Row, Statuses
    <3>2. x.cols.status \in Statuses
      BY <1>3, <2>4 DEF Shape, Statuses
    <3>3. Lifecycle!Move(t, x.cols.status)
      BY <1>5, <2>2, <2>3, <2>4, <3>1
         DEF Lifecycle!Move, Decided, ManualTransitions, Lifecycle!ManualTransitions
    <3> QED
      BY <2>1, <3>2, <3>3 DEF Lifecycle!Next, Statuses, Lifecycle!Statuses
  <2>5. CASE x.op = "assign"
    <3>1. Updated(row[t], x.cols) = [row[t] EXCEPT !.agent = x.cols.agent]
      BY <1>3, <1>4, <2>3, <2>5, NoneAssumption DEF Shape, Updated, Row
    <3>2. Lifecycle!Assign(t, x.cols.agent)
      BY <1>5, <2>2, <2>3, <2>5, <3>1
         DEF Lifecycle!Assign, Decided, Unassignable, Lifecycle!Unassignable
    <3> QED
      BY <1>4, <2>1, <2>5, <3>2 DEF Lifecycle!Next
  <2>6. CASE x.op = "classify"
    <3>1. Updated(row[t], x.cols)
            = [row[t] EXCEPT !.status = "CLASSIFIED", !.label = x.cols.label]
      <4>1. x.cols.status = "CLASSIFIED" /\ x.cols.label \in Labels /\ x.cols.agent = None
        BY <1>3, <2>6 DEF Shape
      <4>2. Updated(row[t], x.cols) = [status |-> "CLASSIFIED", label |-> x.cols.label,
                                       agent |-> row[t].agent]
        BY <4>1, NoneAssumption DEF Updated, Statuses
      <4> QED
        BY <2>3, <4>2, Labelled
    <3>2. Lifecycle!Triage(t, x.cols.label)
      BY <1>5, <1>6, <2>2, <2>3, <2>6, <3>1 DEF Lifecycle!Triage, Decided
    <3> QED
      BY <1>3, <2>1, <2>6, <3>2 DEF Lifecycle!Next, Shape
  <2>7. CASE x.op = "insert"
    <3>1. Updated(row[t], x.cols) = row[t]
      BY <1>3, <2>3, <2>7 DEF Shape, Updated, NoColumns, Row
    <3>2. row' = row
      BY <1>6, <2>2, <3>1
    <3> QED
      BY <1>5, <3>2 DEF Lifecycle!vars
  <2> QED
    BY <1>2, <1>8, <2>4, <2>5, <2>6, <2>7 DEF Ops
<1> QED
  BY <1>7, <1>8

\* Reading and locking change no row; the deadline passes in both.
LEMMA StepSimulates ==
  ASSUME IInv, DecisionsHold, [Next]_vars
  PROVE  [Lifecycle!Next]_Lifecycle!vars
<1>1. CASE \E s \in Sessions : Commit(s)
  BY <1>1, CommitSimulates
<1>2. ASSUME NEW t \in Tickets, DeadlinePasses(t)
      PROVE  Lifecycle!Next
  BY <1>2 DEF DeadlinePasses, Lifecycle!Next, Lifecycle!Expire
<1>3. CASE row' = row /\ overdue' = overdue
  BY <1>3 DEF Lifecycle!vars
<1>4. ASSUME NEW s \in Requests, RequestBegins(s)
      PROVE  row' = row /\ overdue' = overdue
  BY <1>4 DEF RequestBegins, BeginUpdateStatus, BeginAssign, BeginClassify, BeginInsert, Begin
<1> QED
  BY <1>1, <1>2, <1>3, <1>4 DEF Next, vars, SweepClaim, Flush, Rollback

LEMMA SerialInv == Spec /\ []NoOverlap => [](IInv /\ DecisionsHold)
<1>1. IInv /\ NoOverlap /\ DecisionsHold /\ [Next]_vars => DecisionsHold'
  BY DecisionsKept
<1> QED
  BY <1>1, InitDecisions, SpecInv, PTL DEF Spec

-----------------------------------------------------------------------------
\* Without overlap on a ticket, TicketRows implements TicketLifecycle.
THEOREM SerialImplements == Spec /\ []NoOverlap => ImplementsLifecycle
<1>1. Init => Lifecycle!Init
  BY DEF Init, Lifecycle!Init
<1>2. IInv /\ DecisionsHold /\ [Next]_vars => [Lifecycle!Next]_Lifecycle!vars
  BY StepSimulates
<1> QED
  BY <1>1, <1>2, SerialInv, PTL DEF Spec, ImplementsLifecycle, Lifecycle!Spec

\* Without overlap on a ticket, RESOLVED is terminal.
THEOREM SerialTerminal == Spec /\ []NoOverlap => ResolvedIsTerminal
<1> DEFINE Terminal ==
      \A t \in Tickets : row[t].status = "RESOLVED" => row'[t].status = "RESOLVED"
<1>1. IInv /\ DecisionsHold /\ [Next]_vars => Terminal
  <2> SUFFICES ASSUME IInv, DecisionsHold, [Next]_vars, NEW t \in Tickets,
                      row[t].status = "RESOLVED", row'[t] # row[t]
               PROVE  row'[t].status = "RESOLVED"
    OBVIOUS
  <2>1. PICK s \in Sessions : Commit(s)
    BY RowChanges
  <2>2. /\ t \in tx[s].rows
        /\ tx[s].pc = "locked"
        /\ tx[s] # Idle
        /\ tx[s].op \in Ops
        /\ Shape(tx[s])
        /\ row'[t].status =
             IF tx[s].cols.status = None THEN row[t].status ELSE tx[s].cols.status
    BY <2>1, CommitEffect
  <2>3. Decided(tx[s], row[t])
    BY <2>2 DEF DecisionsHold
  <2>4. tx[s].op \notin {"status", "classify"}
    BY <2>2, <2>3 DEF Decided, ManualTransitions
  <2>5. tx[s].op # "sweep"
    BY <2>2 DEF IInv, SweepClaimStable, OpenStatuses
  <2> QED
    BY <2>2, <2>4, <2>5 DEF Shape, Ops, NoColumns
<1> QED
  BY <1>1, SerialInv, PTL DEF Spec, ResolvedIsTerminal

\* Without overlap on a ticket, a resolved or breached one is not assigned.
THEOREM SerialUnassigned == Spec /\ []NoOverlap => NotAssignedWhenClosed
<1> DEFINE Kept ==
      \A t \in Tickets : row[t].status \in Unassignable => row'[t].agent = row[t].agent
<1>1. IInv /\ DecisionsHold /\ [Next]_vars => Kept
  <2> SUFFICES ASSUME IInv, DecisionsHold, [Next]_vars, NEW t \in Tickets,
                      row[t].status \in Unassignable, row'[t] # row[t]
               PROVE  row'[t].agent = row[t].agent
    OBVIOUS
  <2>1. PICK s \in Sessions : Commit(s)
    BY RowChanges
  <2>2. /\ t \in tx[s].rows
        /\ tx[s] # Idle
        /\ tx[s].op \in Ops
        /\ Shape(tx[s])
        /\ row'[t].agent =
             IF tx[s].cols.agent = None THEN row[t].agent ELSE tx[s].cols.agent
    BY <2>1, CommitEffect
  <2>3. Decided(tx[s], row[t])
    BY <2>2 DEF DecisionsHold
  <2>4. tx[s].op # "assign"
    BY <2>3 DEF Decided
  <2> QED
    BY <2>2, <2>4 DEF Shape, Ops, NoColumns
<1> QED
  BY <1>1, SerialInv, PTL DEF Spec, NotAssignedWhenClosed

\* Without overlap on a ticket, a label is never replaced.
THEOREM SerialLabelled == Spec /\ []NoOverlap => NotReclassified
<1> DEFINE Kept ==
      \A t \in Tickets : row[t].label # None => row'[t].label = row[t].label
<1>1. IInv /\ DecisionsHold /\ [Next]_vars => Kept
  <2> SUFFICES ASSUME IInv, DecisionsHold, [Next]_vars, NEW t \in Tickets,
                      row[t].label # None, row'[t] # row[t]
               PROVE  row'[t].label = row[t].label
    OBVIOUS
  <2>1. PICK s \in Sessions : Commit(s)
    BY RowChanges
  <2>2. /\ t \in tx[s].rows
        /\ tx[s] # Idle
        /\ tx[s].op \in Ops
        /\ Shape(tx[s])
        /\ row'[t].label =
             IF tx[s].cols.label = None THEN row[t].label ELSE tx[s].cols.label
    BY <2>1, CommitEffect
  <2>3. row[t].status # "PENDING" /\ Decided(tx[s], row[t])
    BY <2>2 DEF DecisionsHold, IInv, LabelMatchesStatus
  <2>4. tx[s].op # "classify"
    BY <2>3 DEF Decided
  <2> QED
    BY <2>2, <2>4 DEF Shape, Ops, NoColumns
<1> QED
  BY <1>1, SerialInv, PTL DEF Spec, NotReclassified

=============================================================================
