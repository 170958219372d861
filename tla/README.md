# PulseDesk in TLA+

PulseDesk is a help desk service: a FastAPI process takes tickets from customers, stores
them in PostgreSQL, and leaves classification, the drafting of replies, the indexing of the
knowledge base and the watch over deadlines to Celery workers behind Redis; people work with
it through Streamlit pages. Little of it computes anything hard. What is hard is that rows
are read and written by API requests, tasks and sweeps that overlap; that the task queue
delivers late, twice or not at all; that a page is made of calls between which the world
moves on; and that a process may fail between any two of the steps in which it touches the
database and the queue. These modules are about that.

Every module is translated from the code under `src/` (the service in `app/`, the pages in
`streamlit_app/`, the revisions in `migrations/`, the start script in `scripts/`);
`PROJECT.json` names, for each definition, the lines it stands for.

## 1. The system

| Component | State it keeps | Operations | Interacts with |
|---|---|---|---|
| Ticket service and repository (`services/ticket_service.py`, `repositories/ticket_repository.py`) | the `tickets` table: status, category, priority, confidence, agent, key, deadline | create, assign, update status, list, view, count | called by the API; shares rows with the tasks and the sweep |
| Classify task (`workers/classify.py`) | none of its own | read a PENDING ticket, ask the LLM or the rules, store the label, chain the suggestion | queue, `tickets` |
| Suggestion task (`workers/rag_suggest.py`, `services/rag_service.py`) | `ai_suggestions`, one row per ticket | retrieve chunks, draft a reply, store it | queue, `tickets`, `kb_chunks` |
| SLA sweep (`workers/sla_sweep.py`) | none | every minute: lock open overdue rows, set them BREACHED | `tickets`; other sweeps |
| Task queue (`workers/celery_app.py`, Redis) | undelivered and unacknowledged messages | deliver at least once, retry, acknowledge late | API, workers |
| Idempotency (`services/ticket_service.py`, unique index) | the key of a ticket | look up, replay, refuse, insert | `POST /tickets` |
| Rate limiter (`core/rate_limit.py`, Redis) | one token bucket per client address | refill and consume, fail open | `POST /tickets` |
| Knowledge base (`services/kb_service.py`, `workers/kb_index.py`, `repositories/kb_repository.py`) | `kb_articles`, `kb_chunks` | post, index, search | queue, suggestion task |
| Chunking, rules, LLM providers (`services/chunking.py`, `services/classification.py`, `services/llm/`) | none | pure functions and calls to a service | the tasks |
| Lists and analytics (`ticket_repository.py`, `api/v1/tickets.py`) | none; a cursor at the client | a page after a cursor, four counts | `tickets` |
| Accounts (`services/auth_service.py`, `core/security.py`, `api/deps.py`) | `users`; signed tokens | register, log in, check the role | every request |
| Views and comments (`services/ticket_service.py`, `api/v1/tickets.py`) | `ticket_comments` | view a ticket, its draft, its conversation; reply, note | accounts, `tickets` |
| Pages (`streamlit_app/`) | the session state of a browser | sign in and out, select, call the API | the API |
| Database sessions (`core/db.py`, `workers/task_runner.py`) | pooled connections | commit after the response, roll back, dispose per task | everything |
| Migrations and start (`migrations/`, `scripts/render_web_start.sh`) | the schema and its version | upgrade, downgrade, serve | the database |

The behaviours that are hard:

* **Read, decide, write later.** No reader but the sweep locks what it reads, at READ
  COMMITTED. A request decides on a status that may be gone when it writes
  (`ticket_service.py:135`, `classify.py:30`). SQLAlchemy writes only the columns that were
  assigned, which saves some of these races and not others.
* **Enqueue, answer, commit - in this order.** `POST /tickets` and `POST /kb-articles`
  enqueue their task and answer before `get_db` commits (`tickets.py:63`,
  `kb_articles.py:38`, `db.py:31`).
* **Commit, then chain.** The classify task commits, then enqueues the suggestion
  (`classify.py:59-61`); the redelivered task is a no-op.
* **At-least-once delivery, bounded retries** (`classify.py:15-22`, `celery_app.py:22-26`);
  two deliveries of one task may run at the same time (`kb_repository.py:40`).
* **A clock read before the script runs** (`rate_limit.py:76`), and buckets that expire.
* **A lookup before an insert** that only a unique index backs up (`ticket_service.py:61`,
  `auth_service.py:24`).
* **Dates older than their visibility.** `created_at` is the start of a transaction; a
  ticket may appear behind a reader who pages by date (`ticket_repository.py:68`).
* **Several statements, several snapshots.** A call reads the user, the ticket and what it
  is about one after the other; a report counts in four statements.
* **Old rights.** Pages offer what the token said when it was issued; the database decides
  what a call may do (`deps.py`).
* **Several containers start at once**, each migrating the schema, and may die in it.
* **A pool that outlives the event loop** its connections belong to (`task_runner.py:15`).

What makes each part correct is stated by its module's properties, section 3; `PROJECT.json`
lists the hazards one by one, each with its line and the properties that cover it.

## 2. Modules

| Module | Models | Used by |
|---|---|---|
| `TicketStates` | statuses and the three tables of transitions | `TicketLifecycle`, `TicketRows`, `TicketPipeline` |
| `TicketLifecycle` | **abstract**: what happens to a row, one atomic step at a time | refined by `TicketRows` (`INSTANCE ... WITH`) |
| `TicketRows` | the rows under concurrent sessions | `MCTicketRows`, `TicketRowsProofs` |
| `TaskQueue` | the bag of messages, the retry | `TicketPipeline`, `KbIndex` |
| `TicketPipeline` | a new ticket's way through request, queue and workers | `MCTicketPipeline`, `TicketPipelineProofs` |
| `IdempotentCreate` | concurrent `POST /tickets` with a key | `MCIdempotentCreate`, `IdempotentCreateProofs` |
| `RateLimit` | the token bucket | `MCRateLimit`, `RateLimitProofs` |
| `Chunking` | a text as overlapping windows of words | `KbIndex` |
| `KbIndex` | articles, indexing tasks, the rows of `kb_chunks` | `Drafting`, `KnowledgeBaseProofs` |
| `Classification` | keyword rules, providers, what a model may answer | `Drafting` |
| `Drafting` | retrieval and drafts, **composed** with the indexing they read from | `MCDrafting`, `KnowledgeBaseProofs` |
| `TicketPages` | lists read page by page, and the report | `MCTicketPages`, `TicketPagesProofs` |
| `Accounts` | registration, roles, tokens | `Desk` |
| `Desk` | pages and the calls behind them, **composed** with the accounts | `MCDesk`, `DeskProofs` |
| `Migrations` | the statements of the revisions and their effect on the schema | `Deployment` |
| `TaskRunner` | tasks, event loops and the pool of a worker process | `Deployment` |
| `Deployment` | containers that migrate, serve and fail, **composed** with their workers | its run, `DeploymentProofs` |

The `MC` modules only add symmetry sets and constants for TLC. A definition whose comment
begins with "Variant" is not part of a specification: it is a plausible bug, put in place of
the definition it stands before to show that a property notices it (`PROJECT.json`,
"mutants").

### TicketRows

`row[t]` is the committed row of ticket `t`; category, priority and confidence are one
`label`, because the classify task writes them together. `tx[s]` is the transaction open in
session `s`. A transaction takes three steps in the code and here:

| Step | Code | Action |
|---|---|---|
| SELECT without a lock, check, assign attributes | `assign_ticket`, `update_status`, `_classify_ticket`, `add_comment` | `BeginAssign`, `BeginUpdateStatus`, `BeginClassify`, `BeginInsert` |
| flush: UPDATE or INSERT waits for the row lock | `save`, `create`, the commit of the task | `Flush` |
| commit | `get_db`, `session.commit()` | `Commit` |
| any exception, cancellation or kill | `get_db`, end of the session | `Rollback` |

The sweep's first step takes its locks at once and passes by rows that are locked
(`SweepClaim`). `Conflict` is PostgreSQL's table of row locks for the three kinds of lock
the code takes: FOR UPDATE (the sweep), FOR NO KEY UPDATE (an UPDATE) and FOR KEY SHARE (a
comment or suggestion with a foreign key to the ticket). `Updated` changes only the columns
the session assigned. `overdue` is the set of tickets whose deadline has passed: deadlines
are set once and never NULL (`ticket_service.py:67`), so a set is all the sweep can see of
the clock.

`TicketLifecycle` has the same rows without sessions: each change is allowed by the row as it
is at that moment. `TicketRows` with overlapping sessions does not implement it (that is what
the run `rows_reopened` shows); with one session at a time it does (`rows_serial`), and so it
does whenever no two open transactions work on one ticket (`SerialImplements`).

### TaskQueue and TicketPipeline

The queue is a bag of messages without order (`Plus`, `Minus`); a task that raises is put
back with one more try behind it or, after `MaxRetries`, given up (`Retried`).

`post[t]` is how far the request that creates `t` is, `status`, `labelled` and `drafted` are
what is committed, `queue[m]` counts undelivered copies of message `m`, `job[w]` is the task
that runs in worker slot `w`. Order is that of the code: `Submit` (flush), `Enqueue` or
`EnqueueFails` (swallowed), `Answer` (202), `CommitPost`. A delivered message either starts a
task or finds nothing to do (`SkipClassify`, `SkipSuggest`); a task stores its result in one
step and, for a label, chains in the next. The status check of the classify task and its
commit are two steps, so a ticket that was taken or breached in between is relabelled, as in
the code; people and the sweep act by the tables of `TicketStates`.

A failure is one of `FaultKinds`, each where the code has to cope with it: a task raises and
is retried up to `MaxRetries` times; the LLM answers with something the columns cannot hold;
a worker dies and the broker redelivers (`acks_late`); the task's process dies and the worker
acknowledges (there is no `task_reject_on_worker_lost`); enqueuing raises; a request dies; a
commit fails. The LLM raising is no fault: the rules label the ticket instead, and
`StoreLabel` stands for both.

### IdempotentCreate

A request looks its key up among committed tickets, replays or refuses, or inserts. The
unique index makes the insert wait for another open insert of the key and fail if that one
commits; nothing handles the IntegrityError. A ticket is identified by the request that
inserted it. A request that dies or whose commit fails is `lost`, at any point.

### RateLimit

The script is one atomic step (`Grant`, `Limit`, `AnswerLost`), but the clock reading it
works with was made in an earlier one (`Call`), so calls overtake one another; a call may be
`MaxDelay` ticks old, the client's socket timeout. When the answer is lost the client library
sends the same call again, which takes another token, or the request passes (`FailOpen`). A
bucket untouched for `Expiry` ticks is gone and the next call finds a full one; it would have
been full anyway (`ExpiryAssumption`: 30 tokens are refilled in a minute, a bucket lives for
an hour). Tokens are counted in fractions, `Unit` to a token. `granted`, `late` and `window`
only observe: what was taken, and how often the script saw a reading behind the bucket's
timestamp, since some moment in the past, which `OpenWindow` chooses at any time.

### Chunking, KbIndex

A text is the number of its words, a chunk the set of the positions of its words. `Pieces`
are the windows the loop of `chunk_text` gets to before its `break`.

`kbPost`, `kbQueue` and `kbJob` are to an article what `post`, `queue` and `job` are to a
ticket. `chunks` are the committed rows of `kb_chunks`, each a piece of an article inserted by
one indexing transaction. `replace_chunks` is three steps: the DELETE takes its snapshot
(`Snapshot`), waits for the row locks of other deletions and removes what is left of the
snapshot (`Delete`), and the transaction commits with the new rows (`CommitIndexing`). A
search, at READ COMMITTED, sees `chunks`. Besides the failures of the pipeline a message may
be delivered again while its task still runs (`Redeliver`): Redis does so when the visibility
timeout passes or the connection is lost.

### Classification, Drafting

`Classification` has no state. A text is what the rules find in it, an answer what its JSON
says: a category that fits the column or not, a confidence that does or not, a priority the
enum has or not. `Label` is the label the task stores: the model's if there is one and it
parses, else the rules'. `RuleCategory` goes through the categories in the order of the dict.

`Drafting` adds to `KbIndex` the tickets that are labelled, searched for and drafted:
`Search` retrieves the `TopK` most similar rows, `Store` keeps those above the threshold and
stores "no grounding", the model's reply or, when it raises or there is none, an extract of
the best chunk. Between the two, chunks come and go. `known[t]` only observes which relevant
articles could be found when `t` was labelled. Similarity is a parameter: it is assumed to be
a number, which is to say that any two can be compared (`DraftingAssumption`). `Triage` and `Store` stand for the tasks whose steps `TicketPipeline` has in detail.

### TicketPages

A ticket gets its date when its transaction begins (`Begin`) and is seen when that commits
(`Commit`). `walk` is a client that reads a list with a fixed filter, one page after the
other: `Fetch` is `list_paginated` and the making of the next cursor, `HasMore` the test for
a full page. `steady` only observes the tickets that were there when the walk began and were
selected by the filter ever since. `report` collects the four counts of the analytics, a
statement each (`Count`).

### Accounts, Desk

`register[r]` is a registration: `Lookup`, `Insert` (the flush, under the unique index),
`CommitAccount` after the response. An operator changes roles (`SetRole`); no code does. A
token names a user and the role of the time.

`session[b]` is the session state of browser `b`, `page[b]` what it shows, `call[b]` the API
call it waits for. `Call` decodes the token, reads the user and checks the role (`Permitted`
is `require_role`); `ReadTicket` reads the ticket and authorizes (`MayView`); `Read`, `Create`,
`Post` and `Assign` do what the call is for. Each is a statement of its own, and roles,
assignments, comments and tickets change between them, by registration and role changes and
by the calls of everyone else (`CreateElsewhere`, `AssignElsewhere`, `PostElsewhere`).
`Offered` is what the page offers: by the role in the token, not that in the database.

### Migrations, TaskRunner, Deployment

A schema is a set of objects: tables, indexes with their kind, extensions. A statement of a
revision (`Upgrade0001` and so on) has what it needs and what it does (`Takes`, `Effect`):
tables need the tables they refer to, an index needs its table and goes with it, a table
others refer to is not dropped. `Run` is one of them in a transaction: a statement PostgreSQL
refuses fails it, and nothing leads out of the failure but the rollback. `Upgrades` are the
revisions after one version up to another.

`container[c]` is how far the start script is: read the version, wait at the first statement
another open migration has issued too (`Lock`), run all revisions in one transaction
(`Migrate`), serve, or exit and be started again. `Downgrade` is the operator's, when all
containers are down. Inside a container that serves, the worker runs tasks: an event loop per
task, a pool that takes connections of that loop (`Connect`), disposed on the way out
(`Dispose`).

## 3. Runs

| Run | Question | Answer |
|---|---|---|
| `rows_race` | two requests and two sweeps contend for a ticket: do claims, breaches, labels and assignments survive; is an overdue ticket flagged, does every request get its lock? | yes; flagged once requests leave the row alone |
| `rows_serial` | with one session at a time, is every change a lifecycle step? | yes |
| `rows_reopened` | is RESOLVED terminal when sessions overlap? | no |
| `pipeline_faults` | with every fault, do a ticket's stages come in order; is enqueued work done while no more fails than is retried; does the queue run empty? | yes |
| `pipeline_early` | without a fault, has every PENDING ticket a message on its way? | no |
| `pipeline_undrafted` | is every labelled ticket drafted when a worker crashes? | no |
| `create_race` | one ticket per key; true replays and conflicts; no insert waits for ever? | yes |
| `limiter_window` | in any window, is no more granted than capacity and refill; is nobody refused before the capacity is spent? | yes |
| `kb_drafts` | do overlapping, failing and repeated indexings leave the search whole; do drafts say what is indexed, no more and no less? | yes; chunks may be doubled |
| `pages` | do pages read while tickets appear and change stay disjoint, in order and complete; do counts agree? | yes |
| `desk` | one account per address; do pages show what the database allowed, and nothing to the next person? | yes |
| `deploy` | do two containers that migrate at once, and fail, end up serving on the declared schema? | yes |

**Properties.** In `TicketRows`: `SweepClaimStable` (what the sweep read stays true until it
commits - the point of FOR UPDATE), `LabelMatchesStatus`, `BreachIsDeserved`,
`AssignmentIsolated` (partial updates: nobody writes back an agent or a status read earlier),
`OverdueIsFlagged`, `RequestEnds`, `ImplementsLifecycle` (which implies the three documented
rules), `ResolvedIsTerminal`. In `TicketPipeline`: `StagesInOrder`, `TriageProgress`,
`DraftProgress`, `QueueDrains`. In `IdempotentCreate`: `OneTicketPerKey`, `RepliesAgree`,
`ConflictsAreReal`, `CallsEnd`. In `RateLimit`: `WindowBound`, `LimitedOnlyWhenSpent` (a
refusal follows requests that took the tokens: no refill is lost).

In `KbIndex`: `WholeIndexings` (a search never finds part of an indexing),
`StaysSearchable` (reindexing never hides an article), `CopiesAreOverlaps` (chunks are doubled
only when a message is delivered again while its task runs: the second DELETE has a snapshot
without the first one's rows), `WellChunked` (the rows of an indexing hold the whole text, none
of them in vain), `IndexProgress`. In `Drafting`: `DraftsAreGrounded`, `KnownIsUsed` (a ticket is not told that nothing is
known when a relevant article could be found before it was labelled), `LabelIsRight`. In
`TicketPages`: `PagesApart`, `NothingMissed`, `WalkEnds`, `ReportAddsUp`. In `Accounts` and
`Desk`: `OneAccountPerEmail`, `TurnedAwayForACause` (nobody is refused for a registration
that is then lost), `ShownWasAllowed`, `NotesAreByStaff`, `NothingLeftBehind`. In `Deployment`:
`SchemaFollowsVersion`, `ServesDeclaredSchema`, `ConnectionsAreLive`, `EveryoneServes`.

The type invariants are theorems (section 4); TLC checks that of `Deployment` besides.

**Disagreements.** The three runs that end in a counterexample each check one sentence of the
repository:

1. `rows_reopened`: request A reads a ticket as IN_PROGRESS or PENDING, request B resolves and
   commits, A writes its status. "RESOLVED is a terminal state (no reopening)",
   `ticket_service.py:24`. The same overlap stores an assignment on a closed ticket and
   replaces a label; `rows_serial` and `SerialImplements` show that overlap is the only cause.
2. `pipeline_early`: a worker takes the message between the enqueue and the commit, finds no
   ticket and drops it. The ticket stays PENDING until the sweep breaches it. "classification
   runs async", `README.md:184`. (`KbIndex` has the same order and the same consequence for
   an article: `IndexProgress` is about articles that are stored while their message waits.)
   `OnlyTheseLosePending` lists the three other ways in which a PENDING ticket is lost.
3. `pipeline_undrafted`: a worker dies between the commit of the label and the enqueue of the
   suggestion. "Suggestion is still being generated", `tickets.py:132`, is then said for ever.
   `OnlyTheseLoseDrafts` lists the others.

Met on the way, and not worth a run of their own, because one look at the code shows them:

* The second of two overlapping duplicates of a POST is answered 500, since nothing handles
  the IntegrityError; only one that comes later is replayed, as `test_ticket_service.py:44`
  has it. The second of two overlapping registrations likewise.
* The limiter's bucket is keyed by address; `docs/security.md:48` says per user.
* `docs/security.md:19-21` says that agents see unassigned tickets and their own; that is so
  for a ticket's page, but the list shows agents every ticket. `ShownWasAllowed` is stated
  accordingly.
* The docstring `anthropic_provider.py:27-28` says that `generate_suggestion` is retried with
  a backoff; `rag_suggest` falls back to the extract instead.

**Bounds.** `MaxFaults`, `MaxReplays` (pipeline, indexing), `MaxClock`, `MaxLate` (limiter,
pages), `MaxRoleChanges` (desk), `MaxCrashes`, `MaxDowngrades`, `MaxLoops` (deployment) bound
counters; everything else is finite by itself.

| Run | Instance | Why it is enough |
|---|---|---|
| `rows_race` | 1 ticket, 2 requests, 2 sweeps | Locks and decisions are pairwise: a third session only waits. The sweep alone has several rows; `rows_serial` has 2 tickets, and liveness with 2 tickets and 1 request holds as well. |
| `pipeline_faults` | 1 ticket, 2 slots, 3 faults, 2 retries | A message that is given up, a crash after a retry, a crash of each of two tasks; tickets do not share anything but slots. Progress is claimed where `Recoverable`: nothing killed, no more tasks raise than are retried. |
| `create_race` | 3 POSTs, 2 keys, 2 payloads | A failed insert frees the key for one that waits while a third replays. |
| `limiter_window` | clock of 7, expiry after 5, capacity 2 tokens | A bucket expires, is refilled and spent again; half a token per tick makes partial refills matter; of two late calls one follows another. |
| `kb_drafts` | 2 articles of 5 and 2 words, windows of 3 overlapping by 1, 2 slots, 2 faults, top 2 | Two pieces and one, two overlapping deliveries of one article, doubled chunks that fill the top 2, a search between any two steps. |
| `pages` | 3 tickets of 2 customers, pages of 2, 2 instants | Ties of dates, a page that is full and last, a ticket that commits behind the cursor. |
| `desk` | 2 registrations on 1 or 2 addresses, 1 agent, 1 browser, 1 ticket, 1 comment, 1 change of role | Two people take turns at one browser; a role or an assignment changes between any two statements of a call. |
| `deploy` | 2 containers, any version to begin with, 2 crashes, 2 downgrades, 2 tasks each | A race for the migration, a crash of the winner, a downgrade and a second race; a pool that would meet the next loop. |

**Fairness.** Sweeps are weakly fair: Beat starts one every minute (`celery_app.py:40`).
`Flush` and `Commit` of a request are strongly fair: PostgreSQL queues the sessions waiting
for a row, so none is passed over for ever, and a transaction that is tried again and again
does not fail every time. The commit of a sweep is strongly fair for every ticket it may have
claimed: otherwise sweeps that hold one ticket could fail for ever while those that hold
another succeed. Requests need not be sent. In the pipeline and the indexing a request that
was accepted runs on, a free slot takes messages while there are any and a running task goes
on; fault steps are bounded, so none of this assumes that faults do not happen. A waiting
insert is woken when the holder of its key ends. A client that walks through pages asks for
the next one (`WalkEnds` only). A container that has exited is started again and goes on. No
fairness is assumed of people. `CHECK_DEADLOCK FALSE` where a run may end: everybody idle, the
queue empty, all calls answered, or a bound reached.

Deliberately weak spots: `OverdueIsFlagged` asks that requests in the end leave the row alone,
since nothing in the code keeps a busy row from being skipped at every sweep; the progress
properties are claimed for tasks that raise and workers that crash, and would fail with a
killed process or a failed enqueue, each of which loses the work; `ShownWasAllowed` holds a
page against the role and the assignment its call read, not against those of the moment.

## 4. Proofs

TLAPS checks eight modules of proofs, for every number of tickets, sessions, worker slots,
agents, labels, keys, payloads, users, browsers, articles and addresses, for every page size,
window and overlap, and every bound on faults and time. Each module of proofs EXTENDS the
module it is about. The assumptions are the ASSUMEs of those modules: NULL is no value
(`NoneAssumption`), nobody is no user (`DeskAssumption`), accounts that are there already
have other names and addresses than those to come (`AccountsAssumption`), a bucket's expiry
is longer than its refill (`ExpiryAssumption`), the overlap is less than the window
(`ChunkingAssumption`), ids are numbers and there are finitely many (`PagesAssumption`), a
search asks for a row at least and similarities are numbers (`DraftingAssumption`; the code
has `_TOP_K = 3`, a threshold of 0.15 and floats, of which only the order matters here), a
database has one of the versions there are (`DeploymentAssumption`), bounds are numbers (the
others). Every safety invariant and action property that a passing run checks is a theorem.

*TicketRows.* `SweepClaimStable`, `LabelMatchesStatus` and the two action properties are not
inductive. The inductive invariant `IInv` adds to them and `TypeOK`:

* `LockExclusion`: two sessions that hold locks on one row hold locks that are compatible.
  Without it another session could write a row under the sweep's claim.
* `TxShape`: what a transaction is about to write is what its operation may write; for instance
  only an assignment has an agent among its columns, and CLASSIFIED always comes with a
  label.

Then `TypeCorrect`, `ClaimsStable` and `LabelsMatch` are projections of `IInv`, and
`BreachesDeserved` and `AssignmentsIsolated` follow from `IInv` for a single step: only `Commit`
changes rows, `TxShape` says what with, and `SweepClaimStable` says that a sweep's rows are
still open.

*TicketRows and TicketLifecycle.* The second half of `TicketRowsProofs` proves what
`rows_serial` checks, under a weaker condition than one session at a time: `NoOverlap`, no
ticket is in the hands of two open transactions. The strengthening is `DecisionsHold`: what a
transaction decided on when it read still holds of the row. Only a commit writes rows, and
under `NoOverlap` those are not another transaction's; so when a transaction commits, the
guard of the lifecycle's action is true of the row it writes, and `TxShape` makes the written
columns those of the action. `SerialImplements` is the refinement; the three documented rules
follow in the same way. With `rows_reopened` this says that overlap on a row, and nothing
else, breaks the rules.

*TicketPipeline.* `StagesInOrder` becomes inductive with `JobsOnTrack`: a task that
asks the LLM works on a committed ticket, one that is to chain a suggestion or drafts one on
a labelled ticket.

Two more theorems say which steps break what the runs `pipeline_early` and
`pipeline_undrafted` refute. `LosesClassify` collects four kinds of step: an enqueue that
fails, a message whose ticket is not committed yet, a killed process, a last retry that
fails. As long as none of them is taken, `OnlyTheseLosePending` proves `PendingIsQueued`,
whatever else happens: crashes, retries, repeated POSTs, lost requests. The strengthening
`AwaitedArePursued` asks for the message already when it is enqueued, before the ticket is
stored. `LosesDraft` and `OnlyTheseLoseDrafts` do the same for suggestions: the fatal steps
are any end of the classify task between its commit and its enqueue, a killed draft and the
last retry of one. The hypotheses exclude no more than that: with any single kind allowed,
TLC finds a ticket that is lost.

*IdempotentCreate.* `KeyIsHeldOnce` makes `OneTicketPerKey` inductive: the request that commits
is the only one with the key and no committed ticket has it. `RepliesTrue` and `ConflictsTrue`
follow because tickets are never removed.

*RateLimit.* The bound on a window says nothing of the bucket, so the inductive invariant
follows the bucket's timestamp, from both sides: `SpentBound` says that tokens taken and tokens
left are together at most the capacity and the refill up to the timestamp, plus the delay of
each late call; `NothingLost` says that they are at least the refill up to the timestamp, or
fill the bucket. `StampBehind` and `ReadingRecent` keep timestamps and readings within
`MaxDelay` of the clock, and with `ExpiryAssumption` make an expired bucket a full one.
`WindowBounded` follows from the first, `RefusedWhenSpent` from the second.

*KbIndex and Chunking.* `KbIInv` adds to the type invariant `RowsSound` (every row is a piece of
a stored article and comes with the rest of its indexing) and `JobSound` (a running task is
about a stored article; what it has seen and what it has deleted are whole indexings of that
article; what it has deleted is in the table until it commits, and no other open transaction
has deleted it too). So a commit removes indexings as a whole and adds one as a whole:
`WholeIndexingsTheorem`, and `StaysSearchableTheorem`, since whoever removes the last rows of an
article inserts new ones in the same step. `ChunksAreSound` proves of texts of any length that
every word is in a window and no window lies within another, which is arithmetic on the number
of the last one; with `RowsSound` it gives `ChunkingTheorem`.

*Copies of chunks.* `CopiesAreOverlaps` counts indexings, so its proof has to bound what every
transaction may still leave behind. `DeliveriesBounded`: of an article no more messages wait
and tasks run, together, than one and those that were delivered again while their task ran.
`SnapshotsSound`: a transaction that deletes has removed all that its snapshot saw and that is
still there. `CopiesBounded`, the invariant proper: take any of the running deletions of an
article; their number and that of the indexings which none of them has seen are together at
most that bound. With none it is the property. A snapshot makes it hold for one deletion more,
since that one has seen everything; a commit adds an indexing and takes away a deletion.

*Articles.* `OnlyTheseLoseArticles` is to the indexing what `OnlyTheseLosePending` is to the
pipeline: an article with words can be found, is enqueued or in hand, unless its enqueue
fails, a worker is faster than the commit (`Receive` of an article that is not stored), its
process is killed or its last retry fails. What makes it inductive is `SearchableStays`: an
article that was found once needs nobody any more.

*Drafting and Classification.* `DraftingImplementsIndexing` shows that the composition's
steps are steps of the indexing or leave it alone, so `KbIInv` holds of it. `DraftsIInv` adds
what survives of a search: its rows were chunks of stored articles (`ResultsWereIndexed`; the
rows may be gone, the pieces of the text are not), and an article that was known keeps a row
as near to the ticket (`KnownStaysKnown`, because an indexing replaces each piece by the same
piece), so that whatever a search takes from the top is above the threshold too
(`KnownIsFound`). `DraftsTheorem` and `KnownTheorem` follow for any similarity, threshold and
number of rows, doubled chunks included. `LabelTheorem` is about all texts and all answers of
a model; it needs no state.

*TicketPages.* `PagesApart` becomes inductive with `ShownBeforeCursor`: no ticket that was
shown is past the cursor, so a page after it is older, and dates never change. `NothingMissed`
needs `SteadyAhead`: a ticket that was there all along and matched has been shown or is past
the cursor; it was visible when the walk began, so no late commit is involved. For the report,
`ReportSound`: a statement would count at least now what it counted then.

*Desk.* `AInv` adds to the types of the accounts `RegistrationsSound` (a registration that is
not done has no account; one that is open holds an address that is neither taken nor held by
another), which gives the two theorems on registration. `DInv` says of every browser
(`BrowserSound`, `CallSound`) that what is shown and selected was shown to the one who is signed
in, that a call acts under the role its reader had in the database, and that a call that has
read its ticket may view it. What others do preserves it because of `Kept`: accounts, the
customer of a ticket and the flag of a comment never change once they are there, and no part
of the invariant speaks of the role or the assignment of the moment.

*Deployment.* The revisions build the schema in stages, in the order of `Place`: everything
comes after what it needs (`NeededFirst`), so a stage has all that the next object needs and
nothing that hangs on its last (`NextStage`). Statement by statement that gives `Revision1` to
`Revision4`, each up and down, and with them `UpgradesToHead` and `DowngradesByOne` for every
version. The inductive invariant has the schema `Proper` for its version (at version 0, with
or without the extensions, which no downgrade drops), and `HeadIsSeen`: a container that
serves, or found nothing to upgrade, has seen the last version, and nobody downgrades while it
is up. `SchemaTheorem` and `ServesTheorem` follow. `MigrationsSucceed` is why containers come
up again: a migration only fails when another one was faster. `PoolIsLive`, the pool is empty
when no task runs, gives `ConnectionsTheorem`.

Only model-checked: liveness under fairness, which is out of the prover's reach
(`OverdueIsFlagged`, `RequestEnds`, `TriageProgress`, `DraftProgress`, `QueueDrains`,
`CallsEnd`, `IndexProgress`, `WalkEnds`, `EveryoneServes`), and the runs that end in a
counterexample.

## 5. Not modelled

* Request schemas, error formatting, middleware, logging, metrics, health and
  configuration: they keep no state and order nothing.
* Seeding and benchmark scripts; they are not part of the running system.
* Of the pages: layout, the dashboard, the knowledge base page and the buttons for a ticket's
  status, whose effect `TicketRows` has.
* Refresh tokens, which change no state and which the pages never use; expired tokens are
  among the failures of a call.
* How words are hashed to vectors, and that the HNSW index is approximate: the search is
  taken for an exact one over a given similarity.
* The limit of the connection pool and its timeout. Malformed cursors. Columns of the schema,
  and migrations in offline mode.
* The contents of tickets, labels and drafts, as far as no property is about them.

Assumed of the surroundings: FastAPI runs the end of `get_db` after the response; PostgreSQL
at READ COMMITTED takes a snapshot per statement, makes an insert wait for another open one of
the same unique key, and a statement of DDL for another of the same object; Redis runs a
script atomically; the platform restarts a container that exits; an operator downgrades only
when all containers are down. One reader walks and one browser is watched at a time, among
others who change what they read: readers change nothing for each other.

## 6. What could be added

1. The limit of the connection pool: requests and tasks that wait for a connection while
   they hold a row.
2. Two tickets and two requests in `rows_race`, with a liveness check that is split by ticket.
3. The composition of `TicketPipeline` with `TicketRows`, where the classify task of the one
   is a session of the other.
