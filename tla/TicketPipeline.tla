--------------------------- MODULE TicketPipeline ---------------------------
(* A new ticket's way through POST /tickets, the task queue and the workers: *)
(* flush, enqueue, answer 202, commit; classify, chain, draft a suggestion.  *)
(* The queue delivers each message at least once and in any order; a task    *)
(* that raises is retried a bounded number of times; requests, workers, the  *)
(* broker and commits may fail where the code has to cope with it.           *)
EXTENDS TaskQueue, TicketStates

CONSTANTS
  Tickets,     \* tickets customers may submit
  Workers,     \* task slots of the Celery workers
  Faults,      \* which of FaultKinds may happen
  MaxFaults,   \* bound: faults in one behaviour
  MaxReplays   \* bound: repeated POSTs of a ticket that is already stored

\* error: a task raises (the database is away, the draft cannot be stored);
\* unstorable: the LLM answers with a label the columns cannot hold;
\* crash: a worker dies and the broker delivers its message again;
\* killed: a task's process dies and the worker acknowledges its message;
\* broker: enqueuing raises; post: a request dies; commit: its COMMIT fails.
FaultKinds == {"error", "unstorable", "crash", "killed", "broker", "post", "commit"}

ASSUME PipelineAssumption ==
  /\ MaxRetries \in Nat
  /\ MaxFaults \in Nat
  /\ MaxReplays \in Nat
  /\ Faults \subseteq FaultKinds

VARIABLES
  post,      \* post[t]: how far the request that creates t is
  status,    \* status[t]: the committed status of t
  labelled,  \* tickets with category, priority and confidence
  drafted,   \* tickets with a row in ai_suggestions
  queue,     \* queue[m]: undelivered messages m
  job,       \* job[w]: the task running in slot w, its message unacknowledged
  replays,   \* repeated POSTs so far
  faults     \* faults[k]: faults of kind k so far

vars == <<post, status, labelled, drafted, queue, job, replays, faults>>

Stages == {"new", "flushed", "enqueued", "unqueued", "answered", "done", "failed", "lost"}

\* ABSENT: no row committed.
StatusNames == Statuses \cup {"ABSENT"}

\* A person has moved the ticket on.
Taken == {"IN_PROGRESS", "RESOLVED"}

Message == [task : {"classify", "suggest"}, ticket : Tickets, tries : 0..MaxRetries]

\* llm: the label is being worked out; chain: it is committed and the suggestion
\* is about to be enqueued; draft: the reply is being written.
Job == [msg : Message, at : {"llm", "chain", "draft"}]

NoJob == [at |-> "none"]

-----------------------------------------------------------------------------
First(task, t) == [task |-> task, ticket |-> t, tries |-> 0]

Fault(kind) ==
  /\ kind \in Faults
  /\ SumFunction(faults) < MaxFaults
  /\ faults' = [faults EXCEPT ![kind] = @ + 1]

-----------------------------------------------------------------------------
\* POST /tickets: the row is inserted in a transaction that stays open.
Submit(t) ==
  /\ post[t] = "new"
  /\ post' = [post EXCEPT ![t] = "flushed"]
  /\ UNCHANGED <<status, labelled, drafted, queue, job, replays, faults>>

\* classify_ticket.delay, before the commit.
Enqueue(t) ==
  /\ post[t] = "flushed"
  /\ post' = [post EXCEPT ![t] = "enqueued"]
  /\ queue' = Plus(queue, First("classify", t))
  /\ UNCHANGED <<status, labelled, drafted, job, replays, faults>>

\* ... which raises; the exception is logged and the request goes on.
EnqueueFails(t) ==
  /\ post[t] = "flushed"
  /\ Fault("broker")
  /\ post' = [post EXCEPT ![t] = "unqueued"]
  /\ UNCHANGED <<status, labelled, drafted, queue, job, replays>>

\* 202 Accepted is sent.
Answer(t) ==
  /\ post[t] \in {"enqueued", "unqueued"}
  /\ post' = [post EXCEPT ![t] = "answered"]
  /\ UNCHANGED <<status, labelled, drafted, queue, job, replays, faults>>

\* get_db commits once the response is sent.
CommitPost(t) ==
  /\ post[t] = "answered"
  /\ post' = [post EXCEPT ![t] = "done"]
  /\ status' = [status EXCEPT ![t] = "PENDING"]
  /\ UNCHANGED <<labelled, drafted, queue, job, replays, faults>>

\* The commit fails: the customer has a 202 for a ticket that does not exist.
CommitFails(t) ==
  /\ post[t] = "answered"
  /\ Fault("commit")
  /\ post' = [post EXCEPT ![t] = "lost"]
  /\ UNCHANGED <<status, labelled, drafted, queue, job, replays>>

\* The request dies before it answers; what it enqueued stays enqueued.
PostFails(t) ==
  /\ post[t] \in {"flushed", "enqueued", "unqueued"}
  /\ Fault("post")
  /\ post' = [post EXCEPT ![t] = "failed"]
  /\ UNCHANGED <<status, labelled, drafted, queue, job, replays>>

\* A repeated POST with the same key finds the row, and enqueues it again.
Replay(t) ==
  /\ status[t] # "ABSENT"
  /\ replays < MaxReplays
  /\ replays' = replays + 1
  /\ queue' = Plus(queue, First("classify", t))
  /\ UNCHANGED <<post, status, labelled, drafted, job, faults>>

\* An agent or admin moves the ticket on (module TicketRows has the details).
MoveOn(t, new) ==
  /\ <<status[t], new>> \in ManualTransitions
  /\ status' = [status EXCEPT ![t] = new]
  /\ UNCHANGED <<post, labelled, drafted, queue, job, replays, faults>>

\* The deadline passes and the SLA sweep flags the ticket.
Breach(t) ==
  /\ status[t] \in OpenStatuses
  /\ status' = [status EXCEPT ![t] = "BREACHED"]
  /\ UNCHANGED <<post, labelled, drafted, queue, job, replays, faults>>

-----------------------------------------------------------------------------
\* Slot w receives m and reads its ticket; the task has something to do.
Start(w, m, at) ==
  /\ job[w] = NoJob
  /\ queue[m] > 0
  /\ queue' = Minus(queue, m)
  /\ job' = [job EXCEPT ![w] = [msg |-> m, at |-> at]]
  /\ UNCHANGED <<post, status, labelled, drafted, replays, faults>>

\* Variant: a message whose task has nothing to do is not acknowledged.
SkipUnacknowledged(w, m) ==
  /\ job[w] = NoJob
  /\ queue[m] > 0
  /\ UNCHANGED vars

\* Slot w receives m and the task returns at once: the message is acknowledged.
Skip(w, m) ==
  /\ job[w] = NoJob
  /\ queue[m] > 0
  /\ queue' = Minus(queue, m)
  /\ UNCHANGED <<post, status, labelled, drafted, job, replays, faults>>

\* Variant: the suggestion is enqueued before the label is committed.
ClassifyChainsFirst(w, m) ==
  /\ m.task = "classify"
  /\ status[m.ticket] = "PENDING"
  /\ job[w] = NoJob
  /\ queue[m] > 0
  /\ queue' = Plus(Minus(queue, m), First("suggest", m.ticket))
  /\ job' = [job EXCEPT ![w] = [msg |-> m, at |-> "llm"]]
  /\ UNCHANGED <<post, status, labelled, drafted, replays, faults>>

Classify(w, m) ==
  /\ m.task = "classify"
  /\ status[m.ticket] = "PENDING"
  /\ Start(w, m, "llm")

\* Not found, or not PENDING any more.
SkipClassify(w, m) ==
  /\ m.task = "classify"
  /\ status[m.ticket] # "PENDING"
  /\ Skip(w, m)

Suggest(w, m) ==
  /\ m.task = "suggest"
  /\ status[m.ticket] # "ABSENT"
  /\ m.ticket \notin drafted
  /\ Start(w, m, "draft")

\* Not found, or drafted already.
SkipSuggest(w, m) ==
  /\ m.task = "suggest"
  /\ status[m.ticket] = "ABSENT" \/ m.ticket \in drafted
  /\ Skip(w, m)

\* The label, from the LLM or from the rules if it raised, is committed.
StoreLabel(w) ==
  /\ job[w].at = "llm"
  /\ LET t == job[w].msg.ticket
     IN /\ status' = [status EXCEPT ![t] = "CLASSIFIED"]
        /\ labelled' = labelled \cup {t}
  /\ job' = [job EXCEPT ![w].at = "chain"]
  /\ UNCHANGED <<post, drafted, queue, replays, faults>>

\* generate_suggestion.delay, after the commit; then the task is done.
Chain(w) ==
  /\ job[w].at = "chain"
  /\ queue' = Plus(queue, First("suggest", job[w].msg.ticket))
  /\ job' = [job EXCEPT ![w] = NoJob]
  /\ UNCHANGED <<post, status, labelled, drafted, replays, faults>>

\* ... which raises; the exception is logged and the task is done.
ChainFails(w) ==
  /\ job[w].at = "chain"
  /\ Fault("broker")
  /\ job' = [job EXCEPT ![w] = NoJob]
  /\ UNCHANGED <<post, status, labelled, drafted, queue, replays>>

\* The draft is inserted and committed: ai_suggestions.ticket_id is unique.
StoreDraft(w) ==
  /\ job[w].at = "draft"
  /\ job[w].msg.ticket \notin drafted
  /\ drafted' = drafted \cup {job[w].msg.ticket}
  /\ job' = [job EXCEPT ![w] = NoJob]
  /\ UNCHANGED <<post, status, labelled, queue, replays, faults>>

\* The task of slot w raises; autoretry_for=(Exception,).
Raise(w) ==
  /\ queue' = Retried(queue, job[w].msg)
  /\ job' = [job EXCEPT ![w] = NoJob]
  /\ UNCHANGED <<post, status, labelled, drafted, replays>>

\* Another delivery stored a draft first: IntegrityError.
DraftExists(w) ==
  /\ job[w].at = "draft"
  /\ job[w].msg.ticket \in drafted
  /\ Raise(w)
  /\ UNCHANGED faults

TaskRaises(w) ==
  /\ job[w].at \in {"llm", "draft"}
  /\ Fault("error")
  /\ Raise(w)

\* The LLM's label is outside the columns: the UPDATE raises, not the LLM call.
LabelUnstorable(w) ==
  /\ job[w].at = "llm"
  /\ Fault("unstorable")
  /\ Raise(w)

\* Variant: the message was acknowledged when it was received.
WorkerCrashesAcked(w) ==
  /\ job[w] # NoJob
  /\ Fault("crash")
  /\ job' = [job EXCEPT ![w] = NoJob]
  /\ UNCHANGED <<post, status, labelled, drafted, queue, replays>>

\* The worker dies: its message was not acknowledged (acks_late) and comes back.
WorkerCrashes(w) ==
  /\ job[w] # NoJob
  /\ Fault("crash")
  /\ queue' = Plus(queue, job[w].msg)
  /\ job' = [job EXCEPT ![w] = NoJob]
  /\ UNCHANGED <<post, status, labelled, drafted, replays>>

\* The task's process dies: the worker acknowledges the message (no
\* task_reject_on_worker_lost).
TaskKilled(w) ==
  /\ job[w] # NoJob
  /\ Fault("killed")
  /\ job' = [job EXCEPT ![w] = NoJob]
  /\ UNCHANGED <<post, status, labelled, drafted, queue, replays>>

-----------------------------------------------------------------------------
Init ==
  /\ post = [t \in Tickets |-> "new"]
  /\ status = [t \in Tickets |-> "ABSENT"]
  /\ labelled = {}
  /\ drafted = {}
  /\ queue = [m \in Message |-> 0]
  /\ job = [w \in Workers |-> NoJob]
  /\ replays = 0
  /\ faults = [k \in FaultKinds |-> 0]

PostStep(t) ==
  Enqueue(t) \/ EnqueueFails(t) \/ Answer(t) \/ CommitPost(t) \/ CommitFails(t) \/ PostFails(t)

Deliver(w) ==
  \E m \in Message :
    Classify(w, m) \/ SkipClassify(w, m) \/ Suggest(w, m) \/ SkipSuggest(w, m)

Work(w) ==
  \/ StoreLabel(w) \/ Chain(w) \/ ChainFails(w) \/ StoreDraft(w) \/ DraftExists(w)
  \/ TaskRaises(w) \/ LabelUnstorable(w) \/ WorkerCrashes(w) \/ TaskKilled(w)

Next ==
  \/ \E t \in Tickets : Submit(t) \/ PostStep(t) \/ Replay(t) \/ Breach(t)
  \/ \E t \in Tickets, new \in Taken : MoveOn(t, new)
  \/ \E w \in Workers : Deliver(w) \/ Work(w)

Spec == Init /\ [][Next]_vars

\* A request that was accepted runs to its end, a running task goes on, and a
\* free slot takes messages as long as there are any.
Fairness ==
  /\ \A t \in Tickets : WF_vars(PostStep(t))
  /\ \A w \in Workers : WF_vars(Deliver(w)) /\ WF_vars(Work(w))

FairSpec == Spec /\ Fairness

-----------------------------------------------------------------------------
\* The shape of the state.
TypeOK ==
  /\ post \in [Tickets -> Stages]
  /\ status \in [Tickets -> StatusNames]
  /\ labelled \subseteq Tickets
  /\ drafted \subseteq Tickets
  /\ queue \in [Message -> Nat]
  /\ job \in [Workers -> Job \cup {NoJob}]
  /\ replays \in 0..MaxReplays
  /\ faults \in [FaultKinds -> Nat]

\* Nothing is done for a ticket that is not stored, and nothing is drafted for
\* one that is not labelled: whatever is lost, duplicated or reordered, the
\* stages of a ticket come in order.
StagesInOrder ==
  /\ \A t \in Tickets : status[t] # "ABSENT" <=> post[t] = "done"
  /\ drafted \subseteq labelled
  /\ \A t \in labelled : status[t] \notin {"ABSENT", "PENDING"}
  /\ \A m \in Message : m.task = "suggest" /\ queue[m] > 0 => m.ticket \in labelled

\* A message that will be delivered now.
Queued(task, t) == \E m \in Message : m.task = task /\ m.ticket = t /\ queue[m] > 0

\* What retries and redelivery are made for: no process is killed whose message
\* the worker then acknowledges, and a task raises no more often than it is retried.
Recoverable ==
  /\ faults["killed"] = 0
  /\ faults["error"] + faults["unstorable"] <= MaxRetries

\* A PENDING ticket with a message waiting for it leaves PENDING, whatever
\* fails on the way, as long as retries and redelivery can make up for it.
TriageProgress ==
  \A t \in Tickets :
    []Recoverable => (status[t] = "PENDING" /\ Queued("classify", t) ~> status[t] # "PENDING")

\* A suggestion that was enqueued is drafted, by this delivery or another.
DraftProgress ==
  \A t \in Tickets : []Recoverable => (Queued("suggest", t) ~> t \in drafted)

\* A labelled ticket is drafted in the end: the 202 of GET ai-suggestion
\* ("Suggestion is still being generated") does not last for ever.
LabelledIsDrafted == \A t \in Tickets : t \in labelled ~> t \in drafted

\* Retries and redeliveries come to an end: the queue runs empty.
QueueDrains == <>[](\A m \in Message : queue[m] = 0)

-----------------------------------------------------------------------------
\* What the README promises, and the code does not keep.

\* "returns 202 immediately, classification runs async": README.md:184.  A
\* stored ticket that is PENDING is on its way: a message for it is queued, or a
\* worker is at it.  (Otherwise it stays PENDING until the sweep breaches it.)
PendingIsQueued ==
  \A t \in Tickets :
    status[t] = "PENDING"
      => \/ Queued("classify", t)
         \/ \E w \in Workers : job[w].at = "llm" /\ job[w].msg.ticket = t

=============================================================================
