------------------------------ MODULE KbIndex ------------------------------
(* Knowledge base articles and the rows of kb_chunks that make them          *)
(* searchable.  POST /kb-articles enqueues the indexing before it commits;   *)
(* the task reads the article, deletes its committed chunks and inserts new  *)
(* ones in one transaction at READ COMMITTED, and may be delivered again     *)
(* while it still runs.                                                      *)
EXTENDS TaskQueue, FiniteSets, Chunking

CONSTANTS
  Articles,    \* articles admins may post; a posted body never changes
  Length,      \* Length[a]: words in the body of a
  Workers,     \* task slots
  IndexFaults, \* which of IndexFaultKinds may happen
  MaxFaults    \* bound: faults in one behaviour

\* error: a task raises; crash: a worker dies and its message comes back;
\* redelivered: the broker delivers a message again whose task still runs (the
\* visibility timeout, a lost connection); killed: a task's process dies and
\* the worker acknowledges; broker: enqueuing raises; post: a request dies or
\* its commit fails.
IndexFaultKinds == {"error", "crash", "redelivered", "killed", "broker", "post"}

ASSUME KbAssumption ==
  /\ MaxRetries \in Nat
  /\ MaxFaults \in Nat
  /\ Length \in [Articles -> Nat]
  /\ IndexFaults \subseteq IndexFaultKinds

VARIABLES
  kbPost,     \* kbPost[a]: how far the request that creates a is
  kbQueue,    \* kbQueue[m]: undelivered index_kb_article messages
  kbJob,      \* kbJob[w]: the indexing that runs in slot w
  chunks,     \* the committed rows of kb_chunks
  indexings,  \* number of transactions that inserted chunks: names their rows
  kbFaults    \* kbFaults[k]: faults of kind k so far

kbVars == <<kbPost, kbQueue, kbJob, chunks, indexings, kbFaults>>

KbMessage == [article : Articles, tries : 0..MaxRetries]

\* A chunk is a piece of an article (module Chunking) inserted by one indexing.
Chunk == [article : Articles, piece : Nat, by : Nat]

\* read: the article was read; delete: the DELETE has its snapshot (seen) and
\* waits for the locks on its rows; insert: they are deleted (gone), the new
\* ones not committed; ack: committed, the message not acknowledged.
KbJob == [msg : KbMessage, at : {"read", "delete", "insert", "ack"},
          seen : SUBSET Chunk, gone : SUBSET Chunk]

NoKbJob == [at |-> "none"]

Stored(a) == kbPost[a] = "done"

Of(a) == {c \in chunks : c.article = a}

KbFault(kind) ==
  /\ kind \in IndexFaults
  /\ SumFunction(kbFaults) < MaxFaults
  /\ kbFaults' = [kbFaults EXCEPT ![kind] = @ + 1]

-----------------------------------------------------------------------------
\* POST /kb-articles: the row is flushed, the indexing enqueued, 201 answered.
PostArticle(a) ==
  /\ kbPost[a] = "new"
  /\ kbPost' = [kbPost EXCEPT ![a] = "open"]
  /\ kbQueue' = Plus(kbQueue, [article |-> a, tries |-> 0])
  /\ UNCHANGED <<kbJob, chunks, indexings, kbFaults>>

\* ... but enqueuing raises, which is only logged.
PostUnqueued(a) ==
  /\ kbPost[a] = "new"
  /\ KbFault("broker")
  /\ kbPost' = [kbPost EXCEPT ![a] = "open"]
  /\ UNCHANGED <<kbQueue, kbJob, chunks, indexings>>

\* get_db commits once the response is sent.
CommitArticle(a) ==
  /\ kbPost[a] = "open"
  /\ kbPost' = [kbPost EXCEPT ![a] = "done"]
  /\ UNCHANGED <<kbQueue, kbJob, chunks, indexings, kbFaults>>

LoseArticle(a) ==
  /\ kbPost[a] = "open"
  /\ KbFault("post")
  /\ kbPost' = [kbPost EXCEPT ![a] = "lost"]
  /\ UNCHANGED <<kbQueue, kbJob, chunks, indexings>>

-----------------------------------------------------------------------------
\* Slot w receives m.  An article that is not there (yet) is not indexed, and
\* nothing says so.
Receive(w, m) ==
  /\ kbJob[w] = NoKbJob
  /\ kbQueue[m] > 0
  /\ kbQueue' = Minus(kbQueue, m)
  /\ kbJob' = IF Stored(m.article)
              THEN [kbJob EXCEPT ![w] = [msg |-> m, at |-> "read", seen |-> {}, gone |-> {}]]
              ELSE kbJob
  /\ UNCHANGED <<kbPost, chunks, indexings, kbFaults>>

\* DELETE FROM kb_chunks WHERE article_id = ...: the statement takes its snapshot.
Snapshot(w) ==
  /\ kbJob[w].at = "read"
  /\ kbJob' = [kbJob EXCEPT ![w].at = "delete", ![w].seen = Of(kbJob[w].msg.article)]
  /\ UNCHANGED <<kbPost, kbQueue, chunks, indexings, kbFaults>>

\* Variant: the deletion is committed on its own.
DeleteCommitted(w) ==
  /\ kbJob[w].at = "delete"
  /\ chunks' = chunks \ kbJob[w].seen
  /\ kbJob' = [kbJob EXCEPT ![w].at = "insert", ![w].gone = kbJob[w].seen]
  /\ UNCHANGED <<kbPost, kbQueue, indexings, kbFaults>>

\* It waits for rows another open transaction has deleted, and then deletes
\* those of its snapshot that are still there.
Delete(w) ==
  /\ kbJob[w].at = "delete"
  /\ \A v \in Workers :
       kbJob[v].at = "insert" => kbJob[v].gone \cap kbJob[w].seen = {}
  /\ kbJob' = [kbJob EXCEPT ![w].at = "insert", ![w].gone = kbJob[w].seen \cap chunks]
  /\ UNCHANGED <<kbPost, kbQueue, chunks, indexings, kbFaults>>

\* The rows one indexing inserts for a.
New(a, by) == {[article |-> a, piece |-> k, by |-> by] : k \in Pieces(Length[a])}

\* Variant: the old chunks are not deleted.
CommitIndexingKeeps(w) ==
  /\ kbJob[w].at = "insert"
  /\ indexings' = indexings + 1
  /\ chunks' = chunks \cup New(kbJob[w].msg.article, indexings')
  /\ kbJob' = [kbJob EXCEPT ![w].at = "ack"]
  /\ UNCHANGED <<kbPost, kbQueue, kbFaults>>

\* Variant: a commit after each row; the task may be overtaken after the first.
CommitIndexingPartly(w) ==
  /\ kbJob[w].at = "insert"
  /\ indexings' = indexings + 1
  /\ chunks' = (chunks \ kbJob[w].gone)
                 \cup {c \in New(kbJob[w].msg.article, indexings') : c.piece = 0}
  /\ kbJob' = [kbJob EXCEPT ![w].at = "ack"]
  /\ UNCHANGED <<kbPost, kbQueue, kbFaults>>

\* The new chunks are inserted and the transaction commits.
CommitIndexing(w) ==
  /\ kbJob[w].at = "insert"
  /\ indexings' = indexings + 1
  /\ chunks' = (chunks \ kbJob[w].gone) \cup New(kbJob[w].msg.article, indexings')
  /\ kbJob' = [kbJob EXCEPT ![w].at = "ack"]
  /\ UNCHANGED <<kbPost, kbQueue, kbFaults>>

Acknowledge(w) ==
  /\ kbJob[w].at = "ack"
  /\ kbJob' = [kbJob EXCEPT ![w] = NoKbJob]
  /\ UNCHANGED <<kbPost, kbQueue, chunks, indexings, kbFaults>>

\* The task of slot w ends before it is acknowledged, its transaction is rolled
\* back; then the queue is q.
End(w, kind, q) ==
  /\ kbJob[w] # NoKbJob
  /\ KbFault(kind)
  /\ kbQueue' = q
  /\ kbJob' = [kbJob EXCEPT ![w] = NoKbJob]
  /\ UNCHANGED <<kbPost, chunks, indexings>>

\* autoretry_for=(Exception,), acks_late, no task_reject_on_worker_lost.
IndexingRaises(w) == End(w, "error", Retried(kbQueue, kbJob[w].msg))
WorkerDies(w)     == End(w, "crash", Plus(kbQueue, kbJob[w].msg))
IndexingKilled(w) == End(w, "killed", kbQueue)

Redeliver(w) ==
  /\ kbJob[w] # NoKbJob
  /\ KbFault("redelivered")
  /\ kbQueue' = Plus(kbQueue, kbJob[w].msg)
  /\ UNCHANGED <<kbPost, kbJob, chunks, indexings>>

-----------------------------------------------------------------------------
KbInit ==
  /\ kbPost = [a \in Articles |-> "new"]
  /\ kbQueue = [m \in KbMessage |-> 0]
  /\ kbJob = [w \in Workers |-> NoKbJob]
  /\ chunks = {}
  /\ indexings = 0
  /\ kbFaults = [k \in IndexFaultKinds |-> 0]

Indexing(w) ==
  \/ \E m \in KbMessage : Receive(w, m)
  \/ Snapshot(w) \/ Delete(w) \/ CommitIndexing(w) \/ Acknowledge(w)

IndexingFails(w) ==
  IndexingRaises(w) \/ WorkerDies(w) \/ IndexingKilled(w) \/ Redeliver(w)

KbNext ==
  \/ \E a \in Articles :
       PostArticle(a) \/ PostUnqueued(a) \/ CommitArticle(a) \/ LoseArticle(a)
  \/ \E w \in Workers : Indexing(w) \/ IndexingFails(w)

\* Accepted requests end, free slots take messages, running tasks go on.
KbFairness ==
  /\ \A a \in Articles : WF_kbVars(CommitArticle(a))
  /\ \A w \in Workers : WF_kbVars(Indexing(w))

KbSpec == KbInit /\ [][KbNext]_kbVars /\ KbFairness

-----------------------------------------------------------------------------
KbTypeOK ==
  /\ kbPost \in [Articles -> {"new", "open", "done", "lost"}]
  /\ kbQueue \in [KbMessage -> Nat]
  /\ kbJob \in [Workers -> KbJob \cup {NoKbJob}]
  /\ chunks \subseteq Chunk
  /\ indexings \in Nat
  /\ kbFaults \in [IndexFaultKinds -> Nat]

\* What a search reads of an article are whole indexings of its text, however
\* tasks overlap, fail and are delivered again: every chunk in the table comes
\* with all the others of its indexing, and its article is stored.
WholeIndexings ==
  \A c \in chunks :
    /\ Stored(c.article)
    /\ New(c.article, c.by) \subseteq chunks

\* An article has been indexed and can be found.
Searchable(a) == Of(a) # {}

\* Reindexing never takes an article out of the search, not even for a moment.
StaysSearchable == [][\A a \in Articles : Searchable(a) => Searchable(a)']_kbVars

\* Indexings of a whose chunks are in the table together.
Copies(a) == {c.by : c \in Of(a)}

\* The words of its article that row c holds.
Words(c) == Window(Length[c.article], c.piece)

\* However long an article is, less than a window or several with or without a
\* rest: the rows of each indexing of it hold all its words, and none of them only
\* words that another holds too.
WellChunked ==
  \A a \in Articles : \A by \in Copies(a) :
    LET rows == {c \in Of(a) : c.by = by}
    IN /\ UNION {Words(c) : c \in rows} = 1..Length[a]
       /\ \A c, d \in rows : Words(c) \subseteq Words(d) => c = d

\* Chunks are stored twice only through a delivery while the task still ran: a
\* retry or a redelivery after the end replaces the chunks of the one before.
CopiesAreOverlaps ==
  \A a \in Articles : Cardinality(Copies(a)) <= 1 + kbFaults["redelivered"]

\* No task is killed and acknowledged, and none raises more often than it is
\* retried.
IndexRecoverable == kbFaults["killed"] = 0 /\ kbFaults["error"] <= MaxRetries

\* An article that is stored while its message waits becomes searchable,
\* whatever fails on the way, as long as retries can make up for it.
IndexProgress ==
  \A a \in Articles :
    []IndexRecoverable =>
      ((\E m \in KbMessage : /\ m.article = a /\ kbQueue[m] > 0
                             /\ Stored(a) /\ Length[a] > 0) ~> Searchable(a))

=============================================================================
