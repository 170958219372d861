-------------------------- MODULE TicketPagesProofs --------------------------
(* What the pages of a walk promise, for any tickets, customers, page size    *)
(* and clock.  The cursor splits the tickets in two: those on the pages so    *)
(* far are at it or newer, and what the walk still owes is older.  That stays *)
(* so because created_at and id of a ticket never change and a row that a     *)
(* page showed is committed for good.                                         *)
EXTENDS TicketPages, TLAPS, FiniteSetTheorems

\* A walk has shown committed tickets only, none of them past its cursor.
ShownBeforeCursor ==
  walk # NoWalk => /\ Seen \subseteq visible
                   /\ walk.more => \A s \in Seen : ~Past(walk.cursor, s)

\* What the walk owes matches, and is past the cursor or on a page already.
SteadyAhead ==
  walk # NoWalk =>
    \A t \in walk.steady :
      /\ t \in visible /\ Matches(walk.filter, t)
      /\ t \in Seen \/ (walk.more /\ Past(walk.cursor, t))

IInv == TypeOK /\ PagesApart /\ ShownBeforeCursor /\ SteadyAhead

-----------------------------------------------------------------------------
LEMMA Parameters ==
  /\ Tickets \subseteq Nat /\ IsFiniteSet(Tickets) /\ Owner \in [Tickets -> Customers]
  /\ PageSize \in Nat /\ PageSize >= 1 /\ MaxClock \in Nat /\ MaxClock >= 1
BY PagesAssumption

LEMMA AWalk ==
  ASSUME TypeOK, walk # NoWalk \/ walk.more
  PROVE  /\ walk # NoWalk /\ walk \in Walk /\ walk.filter \in Filter
         /\ walk.pages \in Seq(SUBSET Tickets) /\ walk.steady \subseteq Tickets
         /\ walk.cursor \in {<<>>} \cup ((1..MaxClock) \X Tickets) /\ walk.more \in BOOLEAN
BY DEF TypeOK, NoWalk, Walk

LEMMA AtCursor ==
  ASSUME NEW t \in Tickets, NEW s \in Tickets
  PROVE  Past(<<createdAt[t], t>>, s) <=> Older(s, t)
BY DEF Past, Older

LEMMA OlderOrders ==
  ASSUME TypeOK, NEW s \in Tickets, NEW t \in Tickets
  PROVE  /\ ~Older(t, t)
         /\ Older(s, t) => ~Older(t, s)
BY Parameters DEF TypeOK, Older

\* A ticket past a cursor is older than one that is not.
LEMMA CursorSplits ==
  ASSUME TypeOK, NEW c \in {<<>>} \cup ((1..MaxClock) \X Tickets),
         NEW s \in Tickets, NEW t \in Tickets, Past(c, t), ~Past(c, s)
  PROVE  Older(t, s)
<1>1. c # <<>> /\ c[1] \in Nat /\ c[2] \in Nat
  BY Parameters DEF Past
<1> QED
  BY <1>1, Parameters DEF TypeOK, Past, Older

LEMMA AppendedPage ==
  ASSUME NEW pages \in Seq(SUBSET Tickets), NEW P \in SUBSET Tickets
  PROVE  /\ Append(pages, P) \in Seq(SUBSET Tickets)
         /\ Len(Append(pages, P)) = Len(pages) + 1 /\ Len(pages) \in Nat
         /\ \A i \in 1..Len(pages) : Append(pages, P)[i] = pages[i]
         /\ Append(pages, P)[Len(pages) + 1] = P
OBVIOUS

\* A short page is all there is.
LEMMA ShortPage ==
  ASSUME NEW S \in SUBSET Tickets, NEW P \in SUBSET S, IsPage(P, S), ~HasMore(P)
  PROVE  P = S
<1>1. IsFiniteSet(S)
  BY Parameters, FS_Subset
<1>2. Cardinality(P) = Cardinality(S)
  BY DEF IsPage, HasMore
<1> QED
  BY <1>1, <1>2, FS_Subset

-----------------------------------------------------------------------------
LEMMA InitInv == Init => IInv
BY Parameters
   DEF Init, IInv, TypeOK, PagesApart, ShownBeforeCursor, SteadyAhead, NoWalk

\* A step that leaves the walk alone, but for what it owes, and takes no ticket
\* back and no date.
LEMMA WriterInv ==
  ASSUME IInv, TypeOK', visible \subseteq visible',
         \A t \in visible : createdAt'[t] = createdAt[t],
         walk' = walk \/ (walk # NoWalk /\ \E S \in SUBSET walk.steady :
                                             walk' = [walk EXCEPT !.steady = S]),
         walk # NoWalk => \A t \in walk'.steady : Matches(walk.filter, t)'
  PROVE  IInv'
<1>1. CASE walk = NoWalk
  BY <1>1 DEF IInv, PagesApart, ShownBeforeCursor, SteadyAhead, NoWalk
<1>2. CASE walk # NoWalk
  <2>1. walk \in Walk
    BY <1>2, AWalk DEF IInv
  <2>2. /\ walk' # NoWalk /\ walk'.pages = walk.pages /\ walk'.cursor = walk.cursor
        /\ walk'.more = walk.more /\ walk'.filter = walk.filter
        /\ walk'.steady \subseteq walk.steady
    BY <1>2, <2>1 DEF Walk, NoWalk
  <2>3. Seen' = Seen
    BY <2>2 DEF Seen
  <2>4. Seen \subseteq visible /\ visible \subseteq Tickets
    BY <1>2 DEF IInv, ShownBeforeCursor, TypeOK
  <2>5. \A s, t \in visible : Older(t, s)' <=> Older(t, s)
    BY DEF Older
  <2>6. \A i \in 1..Len(walk.pages) : walk.pages[i] \subseteq visible
    BY <2>4 DEF Seen
  <2>7. PagesApart'
    BY <1>2, <2>2, <2>5, <2>6 DEF IInv, PagesApart
  <2>8. \A t \in visible : Past(walk.cursor, t)' <=> Past(walk.cursor, t)
    BY <2>2 DEF Past
  <2>9. ShownBeforeCursor'
    <3>1. walk.more => \A s \in Seen : ~(Past(walk.cursor, s)')
      BY <1>2, <2>4, <2>8 DEF IInv, ShownBeforeCursor
    <3> QED
      BY <2>2, <2>3, <2>4, <3>1 DEF ShownBeforeCursor
  <2>10. SteadyAhead'
    <3>1. ASSUME NEW t \in walk'.steady
          PROVE  /\ t \in visible'
                 /\ t \in Seen' \/ (walk'.more /\ Past(walk.cursor, t)')
      BY <1>2, <2>2, <2>3, <2>8 DEF IInv, SteadyAhead
    <3>2. \A t \in walk'.steady : Matches(walk.filter, t)'
      BY <1>2
    <3> QED
      BY <2>2, <3>1, <3>2 DEF SteadyAhead
  <2> QED
    BY <2>7, <2>9, <2>10 DEF IInv
<1> QED
  BY <1>1, <1>2

-----------------------------------------------------------------------------
\* Writers commit tickets and change rows that are committed.
LEMMA WritersInv ==
  ASSUME IInv, Tick \/ \E t \in Tickets : Begin(t) \/ Commit(t) \/ Classify(t) \/ MoveStatus(t)
  PROVE  IInv'
<1> USE Parameters DEF IInv, TypeOK
<1>1. walk # NoWalk => \A t \in walk.steady : t \in Tickets /\ Matches(walk.filter, t)
  BY AWalk DEF SteadyAhead
<1>2. CASE Tick
  BY <1>1, <1>2, WriterInv DEF Tick, Matches
<1>3. ASSUME NEW t \in Tickets, Begin(t) PROVE IInv'
  BY <1>1, <1>3, WriterInv DEF Begin, Matches
<1>4. ASSUME NEW t \in Tickets, Commit(t) PROVE IInv'
  BY <1>1, <1>4, WriterInv DEF Commit, Matches
<1>5. ASSUME NEW t \in Tickets, NEW s \in {"PENDING", "other"},
             NEW p \in {"none", "LOW", "HIGH"}, Write(t, s, p)
      PROVE  IInv'
  <2>1. walk' = walk \/ (walk # NoWalk /\ walk' = [walk EXCEPT !.steady = @ \ {t}])
    BY <1>5 DEF Write
  <2>2. walk # NoWalk => walk \in Walk
    BY AWalk
  <2>3. walk' \in Walk \cup {NoWalk}
    <3>1. CASE walk' = walk
      BY <3>1
    <3>2. CASE walk # NoWalk /\ walk' = [walk EXCEPT !.steady = @ \ {t}]
      BY <2>2, <3>2 DEF Walk
    <3> QED
      BY <2>1, <3>1, <3>2
  <2>4. TypeOK'
    BY <1>5, <2>3 DEF Write
  <2>5. walk # NoWalk => \A u \in walk'.steady : u \in walk.steady
    BY <2>1, <2>2 DEF Walk
  <2>6. ASSUME walk # NoWalk, NEW u \in walk'.steady PROVE Matches(walk.filter, u)'
    <3>1. walk'.filter = walk.filter
      BY <2>1, <2>2, <2>6 DEF Walk
    <3>2. CASE u # t
      BY <1>1, <1>5, <2>5, <2>6, <3>1, <3>2 DEF Write, Matches
    <3>3. CASE u = t
      <4>1. walk' = walk \/ t \notin walk'.steady
        BY <2>1, <2>2, <2>6 DEF Walk
      <4>2. Selects(walk.filter, t, s, p) \/ t \notin walk'.steady
        BY <1>5, <2>2, <2>6 DEF Write, Walk
      <4>3. status'[t] = s /\ priority'[t] = p
        BY <1>5 DEF Write
      <4> QED
        BY <2>6, <3>1, <3>3, <4>2, <4>3 DEF Matches
    <3> QED
      BY <3>2, <3>3
  <2> QED
    BY <1>5, <2>1, <2>4, <2>6, WriterInv DEF Write
<1> QED
  BY <1>2, <1>3, <1>4, <1>5 DEF Classify, MoveStatus

LEMMA StartInv == ASSUME IInv, StartWalk PROVE IInv'
<1> USE DEF IInv, TypeOK
<1>1. PICK f \in Filter :
        walk' = [filter |-> f, cursor |-> <<>>, pages |-> <<>>, more |-> TRUE,
                 steady |-> {t \in visible : Matches(f, t)}]
  BY DEF StartWalk
<1>2. tickets' = tickets
  BY DEF StartWalk
<1>3. walk' \in Walk
  BY <1>1 DEF Walk
<1>4. Seen' = {}
  BY <1>1 DEF Seen
<1>5. PagesApart'
  BY <1>1 DEF PagesApart
<1>6. ShownBeforeCursor'
  BY <1>4 DEF ShownBeforeCursor
<1>7. SteadyAhead'
  BY <1>1, <1>2 DEF SteadyAhead, Past, Matches, tickets
<1> QED
  BY <1>2, <1>3, <1>5, <1>6, <1>7 DEF tickets

\* The next page is past the cursor, hence older than what was shown; a full one
\* moves the cursor to its oldest ticket, a short one is all that was owed.
LEMMA FetchInv == ASSUME IInv, Fetch PROVE IInv'
<1> USE Parameters DEF IInv
<1> DEFINE c == walk.cursor
<1> DEFINE S == Remaining(walk.filter, c)
<1>1. /\ walk # NoWalk /\ walk \in Walk /\ walk.more
      /\ walk.pages \in Seq(SUBSET Tickets) /\ walk.steady \subseteq Tickets
      /\ c \in {<<>>} \cup ((1..MaxClock) \X Tickets)
  BY AWalk DEF Fetch
<1>2. PICK P \in SUBSET S :
        /\ IsPage(P, S)
        /\ \/ /\ HasMore(P)
              /\ \E t \in P :
                   /\ \A u \in P \ {t} : Older(t, u)
                   /\ walk' = [walk EXCEPT !.pages = Append(@, P),
                                           !.cursor = <<createdAt[t], t>>]
           \/ /\ ~HasMore(P)
              /\ walk' = [walk EXCEPT !.pages = Append(@, P), !.more = FALSE]
  BY DEF Fetch
<1>3. tickets' = tickets /\ visible \subseteq Tickets
  BY DEF Fetch, TypeOK
<1>4. S \subseteq visible /\ \A t \in S : Past(c, t)
  BY DEF Remaining
<1>5. /\ Append(walk.pages, P) \in Seq(SUBSET Tickets)
      /\ Len(Append(walk.pages, P)) = Len(walk.pages) + 1 /\ Len(walk.pages) \in Nat
      /\ \A i \in 1..Len(walk.pages) : Append(walk.pages, P)[i] = walk.pages[i]
      /\ Append(walk.pages, P)[Len(walk.pages) + 1] = P
  BY <1>1, <1>3, <1>4, AppendedPage
<1>6. /\ walk'.pages = Append(walk.pages, P) /\ walk'.steady = walk.steady
      /\ walk'.filter = walk.filter
  BY <1>1, <1>2 DEF Walk
<1>7. Seen' = Seen \cup P
  BY <1>5, <1>6 DEF Seen
<1>8. Seen \subseteq visible /\ \A s \in Seen : ~Past(c, s)
  BY <1>1 DEF ShownBeforeCursor
<1>9. \A s, t \in Tickets : Older(t, s)' <=> Older(t, s)
  BY <1>3 DEF Older, tickets
<1>10. \A s \in Seen, t \in P : Older(t, s)
  <2> SUFFICES ASSUME NEW s \in Seen, NEW t \in P PROVE Older(t, s)
    OBVIOUS
  <2>1. s \in Tickets /\ t \in Tickets /\ Past(c, t) /\ ~Past(c, s)
    BY <1>3, <1>4, <1>8
  <2> QED
    BY <1>1, <2>1, CursorSplits
<1>11. PagesApart'
  <2> SUFFICES ASSUME NEW i \in 1..Len(walk'.pages), NEW j \in 1..Len(walk'.pages), i < j,
                      NEW s \in walk'.pages[i], NEW t \in walk'.pages[j]
               PROVE  Older(t, s)'
    BY DEF PagesApart
  <2>1. i \in 1..Len(walk.pages) /\ s \in walk.pages[i] /\ s \in Seen
    BY <1>5, <1>6 DEF Seen
  <2>2. CASE j \in 1..Len(walk.pages)
    <3>1. t \in walk.pages[j] /\ t \in Seen
      BY <1>5, <1>6, <2>2 DEF Seen
    <3>2. Older(t, s)
      BY <1>1, <2>1, <2>2, <3>1 DEF PagesApart
    <3> QED
      BY <1>3, <1>8, <1>9, <2>1, <3>1, <3>2
  <2>3. CASE j = Len(walk.pages) + 1
    <3>1. t \in P
      BY <1>5, <1>6, <2>3
    <3> QED
      BY <1>3, <1>4, <1>8, <1>9, <1>10, <2>1, <3>1
  <2> QED
    BY <1>5, <1>6, <2>2, <2>3
<1>12. CASE HasMore(P)
  <2>1. PICK t \in P :
          /\ \A u \in P \ {t} : Older(t, u)
          /\ walk' = [walk EXCEPT !.pages = Append(@, P), !.cursor = <<createdAt[t], t>>]
    BY <1>2, <1>12
  <2>2. t \in Tickets /\ createdAt[t] \in 1..MaxClock
    <3>1. t \in visible
      BY <1>2, <1>4
    <3>2. t \in Tickets /\ createdAt[t] # 0 /\ createdAt[t] \in 0..MaxClock
      BY <3>1 DEF TypeOK
    <3> QED
      BY <3>2
  <2>3. walk' \in Walk /\ walk'.more /\ walk'.cursor = <<createdAt[t], t>>
    BY <1>1, <1>5, <2>1, <2>2 DEF Walk
  <2>4. TypeOK'
    BY <1>3, <2>3 DEF TypeOK, tickets
  <2>5. \A s \in Tickets : Past(walk.cursor, s)' <=> Older(s, t)
    BY <1>3, <2>2, <2>3, AtCursor DEF Past, tickets
  <2>6. ASSUME NEW s \in Seen' PROVE ~Past(walk.cursor, s)'
    <3>1. s \in Tickets
      BY <1>3, <1>4, <1>7, <1>8
    <3>2. s = t \/ Older(t, s)
      BY <1>7, <1>10, <2>1
    <3> QED
      BY <2>2, <2>5, <3>1, <3>2, OlderOrders
  <2>7. ShownBeforeCursor'
    BY <1>3, <1>4, <1>7, <1>8, <2>6 DEF ShownBeforeCursor, tickets
  <2>8. ASSUME NEW u \in walk.steady PROVE u \in Seen' \/ Past(walk.cursor, u)'
    <3>1. u \in visible /\ Matches(walk.filter, u) /\ (u \in Seen \/ Past(c, u))
      BY <1>1 DEF SteadyAhead
    <3>2. CASE u \in Seen
      BY <1>7, <3>2
    <3>3. CASE Past(c, u)
      <4>1. u \in S
        BY <3>1, <3>3 DEF Remaining
      <4>2. u \in P \/ Older(u, t)
        BY <1>2, <4>1 DEF IsPage
      <4> QED
        BY <1>3, <1>7, <2>5, <3>1, <4>2
    <3> QED
      BY <3>1, <3>2, <3>3
  <2>9. SteadyAhead'
    <3>1. \A u \in walk.steady : u \in visible /\ Matches(walk.filter, u)
      BY <1>1 DEF SteadyAhead
    <3> QED
      BY <1>3, <1>6, <2>3, <2>8, <3>1 DEF SteadyAhead, Matches, tickets
  <2> QED
    BY <1>11, <2>4, <2>7, <2>9
<1>13. CASE ~HasMore(P)
  <2>1. walk' = [walk EXCEPT !.pages = Append(@, P), !.more = FALSE]
    BY <1>2, <1>13
  <2>2. walk' \in Walk /\ ~walk'.more
    BY <1>1, <1>5, <2>1 DEF Walk
  <2>3. TypeOK'
    BY <1>3, <2>2 DEF TypeOK, tickets
  <2>4. ShownBeforeCursor'
    BY <1>3, <1>4, <1>7, <1>8, <2>2 DEF ShownBeforeCursor, tickets
  <2>5. P = S
    BY <1>2, <1>3, <1>4, <1>13, ShortPage
  <2>6. ASSUME NEW u \in walk.steady
        PROVE  u \in visible /\ Matches(walk.filter, u) /\ u \in Seen'
    <3>1. u \in visible /\ Matches(walk.filter, u) /\ (u \in Seen \/ Past(c, u))
      BY <1>1 DEF SteadyAhead
    <3> QED
      BY <1>7, <2>5, <3>1 DEF Remaining
  <2>7. SteadyAhead'
    BY <1>3, <1>6, <2>2, <2>6 DEF SteadyAhead, Matches, tickets
  <2> QED
    BY <1>11, <2>3, <2>4, <2>7
<1> QED
  BY <1>12, <1>13

LEMMA NextInv == IInv /\ [Next]_vars => IInv'
<1> SUFFICES ASSUME IInv, [Next]_vars PROVE IInv'
  OBVIOUS
<1>1. CASE UNCHANGED <<tickets, walk>>
  <2>1. TypeOK'
    BY <1>1 DEF IInv, TypeOK, tickets
  <2>2. PagesApart'
    BY <1>1 DEF IInv, PagesApart, Older, tickets
  <2>3. ShownBeforeCursor'
    BY <1>1 DEF IInv, ShownBeforeCursor, Seen, Past, tickets
  <2>4. SteadyAhead'
    BY <1>1 DEF IInv, SteadyAhead, Seen, Past, Matches, tickets
  <2> QED
    BY <2>1, <2>2, <2>3, <2>4 DEF IInv
<1>2. CASE Count \/ UNCHANGED vars
  BY <1>1, <1>2 DEF Count, vars
<1>3. CASE Next
  BY <1>2, <1>3, WritersInv, StartInv, FetchInv DEF Next
<1> QED
  BY <1>2, <1>3

LEMMA Invariant == Spec => []IInv
BY InitInv, NextInv, PTL DEF Spec

\* A committed ticket is dated, and a cursor is the date and id of a ticket.
THEOREM TypeTheorem == Spec => []TypeOK
<1>1. IInv => TypeOK
  BY DEF IInv
<1> QED
  BY <1>1, Invariant, PTL

\* No ticket is shown twice and the pages stay newest first, for any page size,
\* whatever others create, commit late and change between two requests.
THEOREM PagesApartTheorem == Spec => []PagesApart
<1>1. IInv => PagesApart
  BY DEF IInv
<1> QED
  BY <1>1, Invariant, PTL

\* A walk to the end has shown every ticket that was committed when it began and
\* matched its filter all the time.
THEOREM NothingMissedTheorem == Spec => []NothingMissed
<1>1. IInv => NothingMissed
  BY DEF IInv, SteadyAhead, NothingMissed
<1> QED
  BY <1>1, Invariant, PTL

-----------------------------------------------------------------------------
Labelled == {t \in visible : priority[t] # "none"}

\* The statements have run in their order, and what they counted has only grown.
ReportSound ==
  /\ DOMAIN report \in {{}, {"total"}, {"total", "status"},
                        {"total", "status", "priority"},
                        {"total", "status", "priority", "category"}}
  /\ \A s \in DOMAIN report : report[s] \in Nat /\ report[s] <= Counted(s)

LEMMA StatementOrder ==
  /\ {Statements[j] : j \in 1..0} = {}
  /\ {Statements[j] : j \in 1..1} = {"total"}
  /\ {Statements[j] : j \in 1..2} = {"total", "status"}
  /\ {Statements[j] : j \in 1..3} = {"total", "status", "priority"}
  /\ {Statements[j] : j \in 1..4} = {"total", "status", "priority", "category"}
  /\ Statements[1] = "total" /\ Statements[2] = "status"
  /\ Statements[3] = "priority" /\ Statements[4] = "category"
BY DEF Statements

LEMMA FewerTickets ==
  ASSUME NEW S \in SUBSET Tickets, NEW R \in SUBSET S
  PROVE  Cardinality(R) \in Nat /\ Cardinality(S) \in Nat /\ Cardinality(R) <= Cardinality(S)
<1>1. IsFiniteSet(S) /\ IsFiniteSet(R)
  BY Parameters, FS_Subset
<1> QED
  BY <1>1, FS_Subset, FS_CardinalityType

\* Counting more tickets counts no fewer.
LEMMA CountsGrow ==
  ASSUME TypeOK, TypeOK', visible \subseteq visible', Labelled \subseteq Labelled', NEW s
  PROVE  Counted(s) \in Nat /\ Counted(s)' \in Nat /\ Counted(s) <= Counted(s)'
<1>1. visible' \in SUBSET Tickets /\ Labelled' \in SUBSET Tickets
  BY DEF TypeOK, Labelled
<1>2. Cardinality(visible) \in Nat /\ Cardinality(visible') \in Nat
      /\ Cardinality(visible) <= Cardinality(visible')
  BY <1>1, FewerTickets
<1>3. Cardinality(Labelled) \in Nat /\ Cardinality(Labelled') \in Nat
      /\ Cardinality(Labelled) <= Cardinality(Labelled')
  BY <1>1, FewerTickets
<1> QED
  BY <1>2, <1>3 DEF Counted, Labelled

\* No ticket goes away and none loses its labels.
LEMMA TicketsGrow ==
  ASSUME TypeOK, [Next]_vars
  PROVE  visible \subseteq visible' /\ Labelled \subseteq Labelled'
<1>1. CASE visible' = visible /\ priority' = priority
  BY <1>1 DEF Labelled
<1>2. ASSUME NEW t \in Tickets, Begin(t) \/ Commit(t) \/ Classify(t) \/ MoveStatus(t)
      PROVE  visible \subseteq visible' /\ Labelled \subseteq Labelled'
  <2>1. CASE Begin(t) \/ Commit(t)
    BY <2>1 DEF Begin, Commit, Labelled
  <2>2. CASE Classify(t)
    BY <2>2 DEF Classify, Write, Labelled, TypeOK
  <2>3. CASE MoveStatus(t)
    BY <2>3 DEF MoveStatus, Write, Labelled, TypeOK
  <2> QED
    BY <1>2, <2>1, <2>2, <2>3
<1> QED
  BY <1>1, <1>2 DEF Next, Tick, StartWalk, Fetch, Count, vars, tickets

\* Every statement counts what is there, after those that ran before it.
LEMMA ReportInv ==
  ASSUME TypeOK, TypeOK', ReportSound, ReportAddsUp, [Next]_vars
  PROVE  ReportSound' /\ ReportAddsUp'
<1>1. visible \subseteq visible' /\ Labelled \subseteq Labelled'
  BY TicketsGrow
<1>2. \A s : Counted(s) \in Nat /\ Counted(s)' \in Nat /\ Counted(s) <= Counted(s)'
  BY <1>1, CountsGrow
<1>3. \A s : Counted(s)' <= Cardinality(visible') /\ Cardinality(visible') \in Nat
  <2>1. visible' \in SUBSET Tickets /\ Labelled' \in SUBSET visible'
    BY DEF TypeOK, Labelled
  <2>2. /\ Cardinality(Labelled') \in Nat /\ Cardinality(visible') \in Nat
        /\ Cardinality(Labelled') <= Cardinality(visible')
    BY <2>1, FewerTickets
  <2> QED
    BY <2>2 DEF Counted, Labelled
<1>4. CASE report' = report
  <2>1. ReportSound'
    <3>1. \A s \in DOMAIN report : report[s] \in Nat /\ report[s] <= Counted(s)'
      BY <1>2 DEF ReportSound
    <3> QED
      BY <1>4, <3>1 DEF ReportSound
  <2>2. \A s \in DOMAIN report : report[s] <= Cardinality(visible')
    BY <1>2, <1>3 DEF ReportSound
  <2> QED
    BY <1>4, <2>1, <2>2 DEF ReportAddsUp
<1>5. CASE Count
  <2>1. PICK i \in 1..4 :
          /\ DOMAIN report = {Statements[j] : j \in 1..(i - 1)}
          /\ report' = [s \in {Statements[j] : j \in 1..i} |->
                         IF s = Statements[i] THEN Counted(s) ELSE report[s]]
    BY <1>5 DEF Count
  <2>2. \A s : Counted(s)' = Counted(s)
    BY <1>5 DEF Count, tickets, Counted
  <2>3. i = 1 \/ i = 2 \/ i = 3 \/ i = 4
    OBVIOUS
  <2>4. DOMAIN report' = {Statements[j] : j \in 1..i}
    BY <2>1
  <2>5. \A s \in DOMAIN report' :
          report'[s] = IF s = Statements[i] THEN Counted(s) ELSE report[s]
    BY <2>1
  <2>6. DOMAIN report' \in {{"total"}, {"total", "status"},
                            {"total", "status", "priority"},
                            {"total", "status", "priority", "category"}}
    BY <2>3, <2>4, StatementOrder
  <2>7. \A s \in DOMAIN report' : s = Statements[i] \/ s \in DOMAIN report
    BY <2>1, <2>3, <2>4, StatementOrder
  <2>8. \A s \in DOMAIN report' : report'[s] \in Nat /\ report'[s] <= Counted(s)'
    BY <1>2, <2>2, <2>5, <2>7 DEF ReportSound
  <2>9. ReportSound'
    BY <2>6, <2>8 DEF ReportSound
  <2>10. \A s \in DOMAIN report' : report'[s] <= Cardinality(visible')
    BY <1>2, <1>3, <2>8
  <2>11. "total" \in DOMAIN report' /\ "status" \in DOMAIN report'
           => report'["total"] <= report'["status"]
    <3>1. CASE i = 1
      BY <2>4, <3>1, StatementOrder
    <3>2. CASE i = 2
      <4>1. /\ "total" \in DOMAIN report /\ "total" # "status"
            /\ report'["total"] = report["total"] /\ report'["status"] = Counted("status")
        BY <2>1, <2>4, <2>5, <3>2, StatementOrder
      <4>2. Counted("total") = Counted("status")
        BY DEF Counted
      <4> QED
        BY <4>1, <4>2 DEF ReportSound
    <3>3. CASE i = 3 \/ i = 4
      <4>1. /\ "total" \in DOMAIN report /\ "status" \in DOMAIN report
            /\ report'["total"] = report["total"] /\ report'["status"] = report["status"]
        BY <2>1, <2>4, <2>5, <3>3, StatementOrder
      <4> QED
        BY <4>1 DEF ReportAddsUp
    <3> QED
      BY <2>3, <3>1, <3>2, <3>3
  <2>12. "priority" \in DOMAIN report' /\ "category" \in DOMAIN report'
           => report'["priority"] <= report'["category"]
    <3>1. CASE i # 4
      BY <2>3, <2>4, <3>1, StatementOrder
    <3>2. CASE i = 4
      <4>1. /\ "priority" \in DOMAIN report
            /\ report'["priority"] = report["priority"]
            /\ report'["category"] = Counted("category")
        BY <2>1, <2>4, <2>5, <3>2, StatementOrder
      <4>2. Counted("priority") = Counted("category")
        BY DEF Counted
      <4> QED
        BY <4>1, <4>2 DEF ReportSound
    <3> QED
      BY <3>1, <3>2
  <2> QED
    BY <2>9, <2>10, <2>11, <2>12 DEF ReportAddsUp
<1> QED
  BY <1>4, <1>5
     DEF Next, Tick, Begin, Commit, Classify, MoveStatus, Write, StartWalk, Fetch, vars, tickets

\* Four statements of one report see four snapshots, yet in the order they run in
\* the parts never add up to less than the total, and nothing is counted twice.
THEOREM ReportTheorem == Spec => []ReportAddsUp
<1>1. Init => ReportSound /\ ReportAddsUp
  BY DEF Init, ReportSound, ReportAddsUp
<1>2. TypeOK /\ TypeOK' /\ ReportSound /\ ReportAddsUp /\ [Next]_vars
        => ReportSound' /\ ReportAddsUp'
  BY ReportInv
<1> QED
  BY <1>1, <1>2, TypeTheorem, PTL DEF Spec

=============================================================================
