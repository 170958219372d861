----------------------- MODULE IdempotentCreateProofs -----------------------
(* One ticket per Idempotency-Key, for any requests, keys and payloads.  The *)
(* invariant that makes it inductive is KeyIsHeldOnce: a request that is     *)
(* about to commit a ticket still has its key to itself.                     *)
EXTENDS IdempotentCreate, TLAPS

\* A request that inserts a ticket will answer with that ticket.
OwnTicket == \A r \in Requests : call[r].at \in Open \cup {"lookup"} => call[r].reply = r

IInv ==
  /\ TypeOK
  /\ OwnTicket
  /\ OneTicketPerKey
  /\ KeyIsHeldOnce
  /\ RepliesAgree
  /\ ConflictsAreReal

\* A call that was sent has all its fields.
LEMMA SentCall ==
  ASSUME TypeOK, NEW r \in Requests, call[r].at # "new"
  PROVE  call[r] \in Call
BY DEF TypeOK, NotSent

LEMMA InitInv == Init => IInv
BY DEF Init, IInv, TypeOK, OwnTicket, OneTicketPerKey, KeyIsHeldOnce, RepliesAgree, ConflictsAreReal,
   NotSent, Open

\* A step that stores no ticket and moves one call to c keeps the invariant, if c
\* holds its key alone and what it was answered is true.
LEMMA CallStepInv ==
  ASSUME IInv, NEW r \in Requests, NEW c \in Call,
         tickets' = tickets, call' = [call EXCEPT ![r] = c],
         c.at \in Open \cup {"lookup"} => c.reply = r,
         c.at \in Open => /\ Matching(c.key) = {}
                          /\ \A o \in Requests \ {r} :
                               call[o].at \in Open => call[o].key # c.key,
         c.at = "done" => [id |-> c.reply, key |-> c.key, payload |-> c.payload] \in tickets,
         c.at = "conflict" => \E x \in tickets : x.key = c.key /\ x.payload # c.payload
  PROVE  IInv'
<1>1. \A u \in Requests : call'[u] = IF u = r THEN c ELSE call[u]
  BY DEF IInv, TypeOK
<1>2. TypeOK'
  BY DEF IInv, TypeOK
<1>3. OneTicketPerKey'
  BY DEF IInv, OneTicketPerKey
<1>4. KeyIsHeldOnce'
  <2> SUFFICES ASSUME NEW u \in Requests, call'[u].at \in Open
               PROVE  /\ {x \in tickets' : x.key = call'[u].key} = {}
                      /\ \A o \in Requests \ {u} :
                           call'[o].at \in Open => call'[o].key # call'[u].key
    BY DEF KeyIsHeldOnce, Matching
  <2>1. {x \in tickets' : x.key = call'[u].key} = Matching(call'[u].key)
    BY DEF Matching
  <2>2. CASE u = r
    BY <1>1, <2>1, <2>2
  <2>3. CASE u # r
    BY <1>1, <2>1, <2>3 DEF IInv, KeyIsHeldOnce
  <2> QED
    BY <2>2, <2>3
<1>5. RepliesAgree'
  BY <1>1 DEF IInv, RepliesAgree
<1>6. ConflictsAreReal'
  BY <1>1 DEF IInv, ConflictsAreReal
<1>7. OwnTicket'
  BY <1>1 DEF IInv, OwnTicket
<1> QED
  BY <1>2, <1>3, <1>4, <1>5, <1>6, <1>7 DEF IInv

LEMMA SendInv ==
  ASSUME IInv, NEW r \in Requests, Send(r)
  PROVE  IInv'
<1> PICK k \in Keys, p \in Payloads :
      LookupMisses(r, k, p) \/ LookupReplays(r, k, p) \/ LookupConflicts(r, k, p)
  BY DEF Send
<1>1. CASE LookupMisses(r, k, p)
  <2> DEFINE c == [at |-> "lookup", key |-> k, payload |-> p, reply |-> r]
  <2>1. c \in Call /\ c.at \notin Open /\ c.at \notin {"done", "conflict"} /\ c.reply = r
    BY DEF Call, Open
  <2>2. tickets' = tickets /\ call' = [call EXCEPT ![r] = c]
    BY <1>1 DEF LookupMisses, Answer
  <2> QED
    BY <2>1, <2>2, CallStepInv
<1>2. CASE LookupReplays(r, k, p)
  <2>1. PICK x \in Matching(k) : x.payload = p /\ Answer(r, k, p, "done", x.id)
    BY <1>2 DEF LookupReplays
  <2> DEFINE c == [at |-> "done", key |-> k, payload |-> p, reply |-> x.id]
  <2>2. x \in tickets /\ x \in Ticket /\ x.key = k
    BY <2>1 DEF Matching, IInv, TypeOK
  <2>3. x = [id |-> x.id, key |-> k, payload |-> p]
    BY <2>1, <2>2 DEF Ticket
  <2>4. c \in Call /\ c.at \notin Open /\ c.at # "conflict"
    BY <2>2 DEF Call, Open, Ticket
  <2>5. tickets' = tickets /\ call' = [call EXCEPT ![r] = c]
    BY <1>2, <2>1 DEF LookupReplays, Answer
  <2> QED
    BY <2>2, <2>3, <2>4, <2>5, CallStepInv
<1>3. CASE LookupConflicts(r, k, p)
  <2>1. PICK x \in Matching(k) : x.payload # p /\ Answer(r, k, p, "conflict", x.id)
    BY <1>3 DEF LookupConflicts
  <2> DEFINE c == [at |-> "conflict", key |-> k, payload |-> p, reply |-> x.id]
  <2>2. x \in tickets /\ x \in Ticket /\ x.key = k
    BY <2>1 DEF Matching, IInv, TypeOK
  <2>3. c \in Call /\ c.at \notin Open /\ c.at # "done"
    BY <2>2 DEF Call, Open, Ticket
  <2>4. tickets' = tickets /\ call' = [call EXCEPT ![r] = c]
    BY <1>3, <2>1 DEF LookupConflicts, Answer
  <2> QED
    BY <2>1, <2>2, <2>3, <2>4, CallStepInv
<1> QED
  BY <1>1, <1>2, <1>3

\* A call that moves on keeps its key, payload and ticket.
LEMMA MovedCall ==
  ASSUME TypeOK, NEW r \in Requests, call[r].at # "new",
         NEW at \in {"inserted", "accepted", "error", "lost"}
  PROVE  LET c == [call[r] EXCEPT !.at = at]
         IN /\ c \in Call
            /\ c.at = at
            /\ c.key = call[r].key
            /\ c.reply = call[r].reply
BY SentCall DEF Call

LEMMA ProceedInv ==
  ASSUME IInv, NEW r \in Requests, Proceed(r) \/ Fail(r), ~Commit(r)
  PROVE  IInv'
<1>1. CASE Insert(r)
  <2> DEFINE c == [call[r] EXCEPT !.at = "inserted"]
  <2>1. c \in Call /\ c.at = "inserted" /\ c.key = call[r].key /\ c.reply = r
    BY <1>1, MovedCall DEF IInv, OwnTicket, Insert, Open
  <2>2. /\ Matching(c.key) = {}
        /\ \A o \in Requests \ {r} : call[o].at \in Open => call[o].key # c.key
    BY <1>1, <2>1 DEF Insert, Held
  <2> HIDE DEF c
  <2>3. tickets' = tickets /\ call' = [call EXCEPT ![r] = c]
    BY <1>1 DEF Insert, c
  <2> QED
    BY <2>1, <2>2, <2>3, CallStepInv
<1>2. CASE Accept(r)
  <2> DEFINE c == [call[r] EXCEPT !.at = "accepted"]
  <2>1. c \in Call /\ c.at = "accepted" /\ c.key = call[r].key /\ c.reply = r
    BY <1>2, MovedCall DEF IInv, OwnTicket, Accept, Open
  <2>2. /\ Matching(c.key) = {}
        /\ \A o \in Requests \ {r} : call[o].at \in Open => call[o].key # c.key
    BY <1>2, <2>1 DEF Accept, IInv, KeyIsHeldOnce, Open
  <2> HIDE DEF c
  <2>3. tickets' = tickets /\ call' = [call EXCEPT ![r] = c]
    BY <1>2 DEF Accept, c
  <2> QED
    BY <2>1, <2>2, <2>3, CallStepInv
<1>3. CASE InsertFails(r)
  <2> DEFINE c == [call[r] EXCEPT !.at = "error"]
  <2>1. c \in Call /\ c.at \notin Open \cup {"lookup", "done", "conflict"}
    BY <1>3, MovedCall DEF IInv, InsertFails, Open
  <2> HIDE DEF c
  <2>2. tickets' = tickets /\ call' = [call EXCEPT ![r] = c]
    BY <1>3 DEF InsertFails, c
  <2> QED
    BY <2>1, <2>2, CallStepInv
<1>4. CASE Fail(r)
  <2> DEFINE c == [call[r] EXCEPT !.at = "lost"]
  <2>1. c \in Call /\ c.at \notin Open \cup {"lookup", "done", "conflict"}
    BY <1>4, MovedCall DEF IInv, Fail, Open
  <2> HIDE DEF c
  <2>2. tickets' = tickets /\ call' = [call EXCEPT ![r] = c]
    BY <1>4 DEF Fail, c
  <2> QED
    BY <2>1, <2>2, CallStepInv
<1> QED
  BY <1>1, <1>2, <1>3, <1>4 DEF Proceed

\* The one step that stores a ticket: its key was free, and nobody else holds it.
LEMMA CommitInv ==
  ASSUME IInv, NEW r \in Requests, Commit(r)
  PROVE  IInv'
<1> DEFINE k == call[r].key
           stored == [id |-> r, key |-> k, payload |-> call[r].payload]
<1>1. call[r] \in Call /\ call[r].at \in Open
  BY SentCall DEF Commit, IInv, Open
<1>2. /\ Matching(k) = {}
      /\ \A o \in Requests \ {r} : call[o].at \in Open => call[o].key # k
  BY <1>1 DEF IInv, KeyIsHeldOnce
<1> call[r].reply = r
  BY <1>1 DEF IInv, OwnTicket
<1>3. tickets' = tickets \cup {stored} /\ stored \in Ticket
  BY <1>1 DEF Commit, Ticket, Call
<1>4. \A u \in Requests : u # r => call'[u] = call[u]
  BY DEF Commit, IInv, TypeOK
<1>5. /\ call'[r] \in Call
      /\ call'[r].at = "done"
      /\ call'[r].key = k
      /\ call'[r].payload = call[r].payload
      /\ call'[r].reply = r
  BY <1>1 DEF Commit, Call, IInv, TypeOK
<1>6. TypeOK'
  BY <1>3, <1>4, <1>5 DEF Commit, IInv, TypeOK
<1>7. OneTicketPerKey'
  BY <1>2, <1>3 DEF IInv, OneTicketPerKey, Matching
<1>8. KeyIsHeldOnce'
  <2> SUFFICES ASSUME NEW u \in Requests, call'[u].at \in Open
               PROVE  /\ {x \in tickets' : x.key = call'[u].key} = {}
                      /\ \A o \in Requests \ {u} :
                           call'[o].at \in Open => call'[o].key # call'[u].key
    BY DEF KeyIsHeldOnce, Matching
  <2>1. u # r /\ call'[u] = call[u] /\ call[u].key # k
    BY <1>2, <1>4, <1>5 DEF Open
  <2>2. Matching(call[u].key) = {}
    BY <2>1 DEF IInv, KeyIsHeldOnce
  <2>3. {y \in tickets' : y.key = call'[u].key} = {}
    BY <1>3, <2>1, <2>2 DEF Matching
  <2>4. \A o \in Requests \ {u} : call'[o].at \in Open => call'[o].key # call'[u].key
    BY <1>4, <1>5, <2>1 DEF IInv, KeyIsHeldOnce, Open
  <2> QED
    BY <2>3, <2>4
<1>9. RepliesAgree'
  BY <1>3, <1>4, <1>5 DEF IInv, RepliesAgree
<1>10. ConflictsAreReal'
  BY <1>3, <1>4, <1>5 DEF IInv, ConflictsAreReal
<1>11. OwnTicket'
  BY <1>4, <1>5 DEF IInv, OwnTicket
<1> QED
  BY <1>6, <1>7, <1>8, <1>9, <1>10, <1>11 DEF IInv

LEMMA SpecInv == Spec => []IInv
<1>1. IInv /\ [Next]_vars => IInv'
  <2>1. ASSUME IInv, NEW r \in Requests, Send(r) \/ Proceed(r) \/ Fail(r)
        PROVE  IInv'
    BY <2>1, SendInv, ProceedInv, CommitInv DEF Proceed
  <2>2. ASSUME IInv, UNCHANGED vars
        PROVE  IInv'
    BY <2>2 DEF vars, IInv, TypeOK, OwnTicket, OneTicketPerKey, KeyIsHeldOnce, Matching,
                RepliesAgree, ConflictsAreReal
  <2> QED
    BY <2>1, <2>2 DEF Next
<1> QED
  BY <1>1, InitInv, PTL DEF Spec

-----------------------------------------------------------------------------
\* Calls and tickets keep their shape.
THEOREM TypeCorrect == Spec => []TypeOK
<1>1. IInv => TypeOK
  BY DEF IInv
<1> QED
  BY <1>1, SpecInv, PTL

\* No key ever has two tickets.
THEOREM KeysAreUnique == Spec => []OneTicketPerKey
<1>1. IInv => OneTicketPerKey
  BY DEF IInv
<1> QED
  BY <1>1, SpecInv, PTL

\* A key in the hands of a request is not taken, and in no other request's hands.
THEOREM KeysHeldOnce == Spec => []KeyIsHeldOnce
<1>1. IInv => KeyIsHeldOnce
  BY DEF IInv
<1> QED
  BY <1>1, SpecInv, PTL

\* Every 202 whose commit succeeded names the stored ticket of its key.
THEOREM RepliesTrue == Spec => []RepliesAgree
<1>1. IInv => RepliesAgree
  BY DEF IInv
<1> QED
  BY <1>1, SpecInv, PTL

\* Every 409 is due to a stored ticket with another payload.
THEOREM ConflictsTrue == Spec => []ConflictsAreReal
<1>1. IInv => ConflictsAreReal
  BY DEF IInv
<1> QED
  BY <1>1, SpecInv, PTL

=============================================================================
