-------------------------- MODULE IdempotentCreate --------------------------
(* Concurrent POST /tickets with an Idempotency-Key.  A request looks its    *)
(* key up among the committed tickets; finds one and replays it or refuses,  *)
(* or inserts a ticket.  The unique index makes an insert wait for another   *)
(* open insert of the same key, and fail if that one commits.  The 202 is    *)
(* sent before the commit.                                                   *)
EXTENDS FiniteSets

CONSTANTS
  Requests,  \* POSTs, each with its own session; a client's retry is another POST
  Keys,      \* Idempotency-Key values
  Payloads   \* subject and body

VARIABLES
  tickets,   \* the committed tickets
  call       \* call[r]: how far request r is, and what it was answered

vars == <<tickets, call>>

\* A ticket is identified by the request that inserted it.
Ticket == [id : Requests, key : Keys, payload : Payloads]

\* lookup: nothing found, an INSERT follows; inserted: it holds the unique index
\* entry of its key; accepted: 202 for a ticket not yet committed; done: 202 for
\* a committed ticket; conflict: 409; error: 500; lost: no answer, or a 202 for
\* a ticket that was rolled back.
Call == [at : {"lookup", "inserted", "accepted", "done", "conflict", "error", "lost"},
         key : Keys, payload : Payloads, reply : Requests]

NotSent == [at |-> "new"]

Open == {"inserted", "accepted"}

-----------------------------------------------------------------------------
\* Request r comes to "at"; id is the ticket it concerns.
Answer(r, k, p, at, id) ==
  call' = [call EXCEPT ![r] = [at |-> at, key |-> k, payload |-> p, reply |-> id]]

Matching(k) == {x \in tickets : x.key = k}

\* No ticket with the key is visible.
LookupMisses(r, k, p) ==
  /\ call[r] = NotSent
  /\ Matching(k) = {}
  /\ Answer(r, k, p, "lookup", r)
  /\ UNCHANGED tickets

\* Variant: the payload is not compared.
LookupReplaysAny(r, k, p) ==
  /\ call[r] = NotSent
  /\ \E x \in Matching(k) : Answer(r, k, p, "done", x.id)
  /\ UNCHANGED tickets

\* The key is there with the same subject and body: that ticket is returned.
LookupReplays(r, k, p) ==
  /\ call[r] = NotSent
  /\ \E x \in Matching(k) : x.payload = p /\ Answer(r, k, p, "done", x.id)
  /\ UNCHANGED tickets

\* Variant: every repeated key is refused.
LookupConflictsAlways(r, k, p) ==
  /\ call[r] = NotSent
  /\ \E x \in Matching(k) : Answer(r, k, p, "conflict", x.id)
  /\ UNCHANGED tickets

\* The key is there with another subject or body: IdempotencyConflictError.
LookupConflicts(r, k, p) ==
  /\ call[r] = NotSent
  /\ \E x \in Matching(k) : x.payload # p /\ Answer(r, k, p, "conflict", x.id)
  /\ UNCHANGED tickets

\* Another request holds the index entry of key k and has not ended.
Held(k) == \E o \in Requests : call[o].at \in Open /\ call[o].key = k

\* Variant: no unique index.
InsertUnindexed(r) ==
  /\ call[r].at = "lookup"
  /\ call' = [call EXCEPT ![r].at = "inserted"]
  /\ UNCHANGED tickets

\* flush: the INSERT takes the index entry of its key.
Insert(r) ==
  /\ call[r].at = "lookup"
  /\ ~Held(call[r].key)
  /\ Matching(call[r].key) = {}
  /\ call' = [call EXCEPT ![r].at = "inserted"]
  /\ UNCHANGED tickets

\* Variant: a waiting insert is not woken when the key is committed.
InsertFailsNever(r) ==
  /\ call[r].at = "lookup"
  /\ Held(call[r].key)
  /\ Matching(call[r].key) # {}
  /\ call' = [call EXCEPT ![r].at = "error"]
  /\ UNCHANGED tickets

\* The key was committed in the meantime: IntegrityError, which nothing handles.
InsertFails(r) ==
  /\ call[r].at = "lookup"
  /\ ~Held(call[r].key)
  /\ Matching(call[r].key) # {}
  /\ call' = [call EXCEPT ![r].at = "error"]
  /\ UNCHANGED tickets

Accept(r) ==
  /\ call[r].at = "inserted"
  /\ call' = [call EXCEPT ![r].at = "accepted"]
  /\ UNCHANGED tickets

Commit(r) ==
  /\ call[r].at = "accepted"
  /\ tickets' = tickets \cup {[id |-> r, key |-> call[r].key, payload |-> call[r].payload]}
  /\ call' = [call EXCEPT ![r].at = "done"]

\* The request dies, or its commit fails: rolled back, the index entry is free.
Fail(r) ==
  /\ call[r].at \in {"lookup", "inserted", "accepted"}
  /\ call' = [call EXCEPT ![r].at = "lost"]
  /\ UNCHANGED tickets

-----------------------------------------------------------------------------
Init ==
  /\ tickets = {}
  /\ call = [r \in Requests |-> NotSent]

Send(r) ==
  \E k \in Keys, p \in Payloads :
    LookupMisses(r, k, p) \/ LookupReplays(r, k, p) \/ LookupConflicts(r, k, p)

Proceed(r) == Insert(r) \/ InsertFails(r) \/ Accept(r) \/ Commit(r)

Next == \E r \in Requests : Send(r) \/ Proceed(r) \/ Fail(r)

Spec == Init /\ [][Next]_vars

\* A request in flight runs on; PostgreSQL wakes an insert that waits for another.
FairSpec == Spec /\ \A r \in Requests : WF_vars(Proceed(r))

-----------------------------------------------------------------------------
\* The shape of the state.
TypeOK ==
  /\ tickets \subseteq Ticket
  /\ call \in [Requests -> Call \cup {NotSent}]

\* One ticket per key, however many POSTs carry it and however they interleave.
OneTicketPerKey == \A x, y \in tickets : x.key = y.key => x = y

\* At most one request at a time has an uncommitted ticket for a key, and none
\* when the key is taken: what a 202 promised is not refused at the commit.
KeyIsHeldOnce ==
  \A r \in Requests :
    call[r].at \in Open
      => /\ Matching(call[r].key) = {}
         /\ \A o \in Requests \ {r} :
              call[o].at \in Open => call[o].key # call[r].key

\* Whoever was answered 202 with a stored ticket was answered with the ticket of
\* the key, and with the subject and body sent; all replays of it agree.
RepliesAgree ==
  \A r \in Requests :
    call[r].at = "done"
      => [id |-> call[r].reply, key |-> call[r].key, payload |-> call[r].payload] \in tickets

\* A key is refused only when a ticket with another payload has it.
ConflictsAreReal ==
  \A r \in Requests :
    call[r].at = "conflict"
      => \E x \in tickets : x.key = call[r].key /\ x.payload # call[r].payload

\* Every request comes to an end: inserts that wait do not wait for ever.
CallsEnd ==
  \A r \in Requests :
    call[r] # NotSent ~> call[r].at \in {"done", "conflict", "error", "lost"}

=============================================================================
