----------------------------- MODULE TicketPages -----------------------------
(* GET /tickets, read page by page with the cursor of the page before, and   *)
(* GET /tickets/analytics/sla, four counts in four statements, while tickets *)
(* are created, labelled and moved by others.  created_at is the start of    *)
(* the transaction, so a ticket may become visible behind a reader.          *)
EXTENDS Integers, Sequences, FiniteSets

CONSTANTS
  Tickets,    \* ids of tickets: numbers, since ids are compared
  Customers,
  Owner,      \* Owner[t]: the customer who creates t
  PageSize,   \* the query parameter limit
  MaxClock    \* bound: ticks of the clock

ASSUME PagesAssumption ==
  /\ Tickets \subseteq Nat
  /\ IsFiniteSet(Tickets)
  /\ Owner \in [Tickets -> Customers]
  /\ PageSize \in 1..100
  /\ MaxClock \in Nat \ {0}
  /\ "any" \notin Customers

VARIABLES
  clock,      \* the time of the database
  createdAt,  \* createdAt[t]: start of the transaction that inserts t, 0 before
  visible,    \* tickets that are committed
  status,     \* status[t]: whether t is in the status that is filtered for
  priority,   \* priority[t], set together with the category
  walk,       \* the walk through the pages
  report      \* report[s]: what statement s of the analytics counted

tickets == <<clock, createdAt, visible, status, priority>>

vars == <<tickets, walk, report>>

\* customer: the caller's own id for a customer; status, priority: the query.
Filter == [customer : Customers \cup {"any"}, status : {"any", "PENDING"},
           priority : {"any", "HIGH"}]

\* steady: tickets that were there when the walk began and matched ever since.
Walk == [filter : Filter, cursor : {<<>>} \cup ((1..MaxClock) \X Tickets),
         pages : Seq(SUBSET Tickets), more : BOOLEAN, steady : SUBSET Tickets]

NoWalk == [more |-> FALSE]

\* A row of t with status s and priority p is one the query selects.
Selects(f, t, s, p) ==
  /\ f.customer \in {"any", Owner[t]}
  /\ f.status \in {"any", s}
  /\ f.priority \in {"any", p}

Matches(f, t) == Selects(f, t, status[t], priority[t])

\* ORDER BY created_at DESC, id DESC: t comes after s.
Older(t, s) ==
  \/ createdAt[t] < createdAt[s]
  \/ createdAt[t] = createdAt[s] /\ t < s

\* Variant: the cursor is a date only, those of the same date are left out.
PastDate(c, t) == c # <<>> => createdAt[t] < c[1]

\* Variant: the cursor is a date only, those of the same date come again.
PastDateOrSame(c, t) == c # <<>> => createdAt[t] <= c[1]

\* (created_at, id) < cursor
Past(c, t) ==
  c # <<>> => \/ createdAt[t] < c[1]
              \/ createdAt[t] = c[1] /\ t < c[2]

\* The rows a request for the page after c may return from.
Remaining(f, c) == {t \in visible : Matches(f, t) /\ Past(c, t)}

\* P is the first page of S: LIMIT.
IsPage(P, S) ==
  /\ Cardinality(P) = IF Cardinality(S) < PageSize THEN Cardinality(S) ELSE PageSize
  /\ \A t \in P, u \in S \ P : Older(u, t)

-----------------------------------------------------------------------------
Tick ==
  /\ clock < MaxClock
  /\ clock' = clock + 1
  /\ UNCHANGED <<createdAt, visible, status, priority, walk, report>>

\* POST /tickets: the transaction that will insert t begins ...
Begin(t) ==
  /\ createdAt[t] = 0
  /\ createdAt' = [createdAt EXCEPT ![t] = clock]
  /\ UNCHANGED <<clock, visible, status, priority, walk, report>>

\* ... and commits, perhaps after those that began later.
Commit(t) ==
  /\ createdAt[t] # 0
  /\ t \notin visible
  /\ visible' = visible \cup {t}
  /\ UNCHANGED <<clock, createdAt, status, priority, walk, report>>

\* The row of t is changed; then a walk may select it no longer.
Write(t, s, p) ==
  /\ t \in visible
  /\ status' = [status EXCEPT ![t] = s]
  /\ priority' = [priority EXCEPT ![t] = p]
  /\ walk' = IF walk = NoWalk \/ Selects(walk.filter, t, s, p) THEN walk
             ELSE [walk EXCEPT !.steady = @ \ {t}]
  /\ UNCHANGED <<clock, createdAt, visible, report>>

\* Priority and category are committed together (module TicketRows).
Classify(t) == priority[t] = "none" /\ \E p \in {"LOW", "HIGH"} : Write(t, status[t], p)

MoveStatus(t) == \E s \in {"PENDING", "other"} \ {status[t]} : Write(t, s, priority[t])

-----------------------------------------------------------------------------
\* A client, or a signed-in customer, starts to read a list.  (One reader at a
\* time: reading changes nothing.)
StartWalk ==
  /\ walk = NoWalk
  /\ DOMAIN report = {}
  /\ \E f \in Filter :
       walk' = [filter |-> f, cursor |-> <<>>, pages |-> <<>>, more |-> TRUE,
                steady |-> {t \in visible : Matches(f, t)}]
  /\ UNCHANGED <<tickets, report>>

\* Variant: the last row of every page is taken for a cursor.
HasMoreAlways(P) == TRUE

\* next_cursor: only a full page has one.
HasMore(P) == Cardinality(P) = PageSize

\* list_paginated, one statement; the last row makes the cursor.
Fetch ==
  /\ walk.more
  /\ \E P \in SUBSET Remaining(walk.filter, walk.cursor) :
       /\ IsPage(P, Remaining(walk.filter, walk.cursor))
       /\ \/ /\ HasMore(P)
             /\ \E t \in P :
                  /\ \A u \in P \ {t} : Older(t, u)
                  /\ walk' = [walk EXCEPT !.pages = Append(@, P),
                                          !.cursor = <<createdAt[t], t>>]
          \/ /\ ~HasMore(P)
             /\ walk' = [walk EXCEPT !.pages = Append(@, P), !.more = FALSE]
  /\ UNCHANGED <<tickets, report>>

\* Variant: the parts are counted before the whole.
StatementsSwapped == <<"status", "total", "category", "priority">>

\* The counts of get_ticket_analytics, in this order, on one session: READ
\* COMMITTED takes a snapshot for each.
Statements == <<"total", "status", "priority", "category">>

\* The sum of what statement s returns: the groups of a column that may be NULL
\* leave those tickets out.
Counted(s) ==
  IF s \in {"total", "status"} THEN Cardinality(visible)
  ELSE Cardinality({t \in visible : priority[t] # "none"})

Count ==
  /\ walk = NoWalk
  /\ \E i \in 1..4 :
       /\ DOMAIN report = {Statements[j] : j \in 1..(i - 1)}
       /\ report' = [s \in {Statements[j] : j \in 1..i} |->
                       IF s = Statements[i] THEN Counted(s) ELSE report[s]]
  /\ UNCHANGED <<tickets, walk>>

-----------------------------------------------------------------------------
Init ==
  /\ clock = 1
  /\ createdAt = [t \in Tickets |-> 0]
  /\ visible = {}
  /\ status = [t \in Tickets |-> "PENDING"]
  /\ priority = [t \in Tickets |-> "none"]
  /\ walk = NoWalk
  /\ report = <<>>

Next ==
  \/ Tick
  \/ \E t \in Tickets : Begin(t) \/ Commit(t) \/ Classify(t) \/ MoveStatus(t)
  \/ StartWalk \/ Fetch \/ Count

Spec == Init /\ [][Next]_vars

\* A client that walks goes on to the next page.
FairSpec == Spec /\ WF_vars(Fetch)

-----------------------------------------------------------------------------
TypeOK ==
  /\ clock \in 1..MaxClock
  /\ createdAt \in [Tickets -> 0..MaxClock]
  /\ visible \subseteq {t \in Tickets : createdAt[t] # 0}
  /\ status \in [Tickets -> {"PENDING", "other"}]
  /\ priority \in [Tickets -> {"none", "LOW", "HIGH"}]
  /\ walk \in Walk \cup {NoWalk}

\* Read one after the other, the pages are newest first throughout: no ticket is
\* on two of them, nor newer than one on a page before, whatever is committed,
\* early or late, and whatever changes between the requests.
PagesApart ==
  walk # NoWalk =>
    \A i, j \in 1..Len(walk.pages) :
      i < j => \A s \in walk.pages[i], t \in walk.pages[j] : Older(t, s)

Seen == UNION {walk.pages[i] : i \in 1..Len(walk.pages)}

\* A walk that has come to its end has shown every ticket that was there when it
\* began and matched all the time, those with equal dates included.
NothingMissed == walk # NoWalk /\ ~walk.more => walk.steady \subseteq Seen

\* A walk ends, though tickets are created all the time and the last page may be
\* full.
WalkEnds == (walk # NoWalk) ~> ~walk.more

\* The parts of a report add up to no less than its total, no ticket has a
\* priority but no category, and nothing is counted that is not there.
ReportAddsUp ==
  LET got(s) == s \in DOMAIN report
  IN /\ got("total") /\ got("status") => report["total"] <= report["status"]
     /\ got("priority") /\ got("category") => report["priority"] <= report["category"]
     /\ \A s \in DOMAIN report : report[s] <= Cardinality(visible)

=============================================================================
