------------------------ MODULE TicketPipelineProofs ------------------------
(* The stages of a ticket come in order for any number of tickets, workers,   *)
(* retries and faults.  What makes StagesInOrder inductive is that a running  *)
(* task has not outrun its ticket: whatever the task was started on is still  *)
(* there, because rows are never deleted, labels never removed and nothing    *)
(* becomes PENDING again.                                                     *)
EXTENDS TicketPipeline, TLAPS

\* A running task has the message of its kind, and its ticket is as far as that.
JobsOnTrack ==
  \A w \in Workers :
    /\ job[w].at \in {"llm", "chain"} => job[w].msg.task = "classify"
    /\ job[w].at = "llm" => status[job[w].msg.ticket] # "ABSENT"
    /\ job[w].at = "chain" => job[w].msg.ticket \in labelled
    /\ job[w].at = "draft" => job[w].msg.task = "suggest" /\ job[w].msg.ticket \in labelled

IInv == TypeOK /\ StagesInOrder /\ JobsOnTrack

-----------------------------------------------------------------------------
LEMMA Bounds == MaxRetries \in Nat /\ MaxFaults \in Nat /\ MaxReplays \in Nat
BY PipelineAssumption

LEMMA RunningJob ==
  ASSUME TypeOK, NEW w \in Workers, job[w].at \in {"llm", "chain", "draft"}
  PROVE  /\ job[w] \in Job /\ job[w].msg \in Message
         /\ job[w].msg.ticket \in Tickets
         /\ job[w].msg.task \in {"classify", "suggest"} /\ job[w].msg.tries \in 0..MaxRetries
BY DEF TypeOK, NoJob, Job, Message

\* Adding a message keeps counts; only that message can be new in the queue.
LEMMA PlusQueue ==
  ASSUME NEW q \in [Message -> Nat], NEW m \in Message
  PROVE  /\ Plus(q, m) \in [Message -> Nat]
         /\ \A x \in Message : Plus(q, m)[x] > 0 => q[x] > 0 \/ x = m
BY DEF Plus

\* Taking a message that is there keeps counts, and no message is new.
LEMMA MinusQueue ==
  ASSUME NEW q \in [Message -> Nat], NEW m \in Message, q[m] > 0
  PROVE  /\ Minus(q, m) \in [Message -> Nat]
         /\ \A x \in Message : Minus(q, m)[x] > 0 => q[x] > 0
BY DEF Minus

LEMMA FirstMessage ==
  ASSUME NEW task \in {"classify", "suggest"}, NEW t \in Tickets
  PROVE  First(task, t) \in Message /\ First(task, t).task = task /\ First(task, t).ticket = t
BY Bounds DEF First, Message

\* A retry is a message of the same task and ticket.
LEMMA RetriedQueue ==
  ASSUME NEW q \in [Message -> Nat], NEW m \in Message
  PROVE  /\ Retried(q, m) \in [Message -> Nat]
         /\ \A x \in Message :
              Retried(q, m)[x] > 0 => q[x] > 0 \/ (x.task = m.task /\ x.ticket = m.ticket)
<1>1. CASE m.tries < MaxRetries
  <2> DEFINE n == [m EXCEPT !.tries = @ + 1]
  <2>1. n \in Message /\ n.task = m.task /\ n.ticket = m.ticket
    BY <1>1, Bounds DEF Message
  <2>2. Retried(q, m) = Plus(q, n)
    BY <1>1 DEF Retried
  <2> HIDE DEF n
  <2> QED
    BY <2>1, <2>2, PlusQueue
<1>2. CASE ~(m.tries < MaxRetries)
  BY <1>2 DEF Retried
<1> QED
  BY <1>1, <1>2

-----------------------------------------------------------------------------
LEMMA InitInv == Init => IInv
BY Bounds DEF Init, IInv, TypeOK, StagesInOrder, JobsOnTrack, NoJob, Stages, StatusNames

\* What keeps the invariant: tickets only move forward, new messages concern
\* tickets that are far enough, and running tasks stay on track.
LEMMA StepInv ==
  ASSUME IInv, TypeOK', JobsOnTrack',
         \A t \in Tickets : status'[t] # "ABSENT" <=> post'[t] = "done",
         drafted' \subseteq labelled', labelled \subseteq labelled',
         \A t \in labelled' : status'[t] \notin {"ABSENT", "PENDING"},
         \A m \in Message :
           queue'[m] > 0 => queue[m] > 0 \/ m.task = "classify" \/ m.ticket \in labelled'
  PROVE  IInv'
<1>1. \A m \in Message : m.task = "suggest" /\ queue'[m] > 0 => m.ticket \in labelled'
  BY DEF IInv, StagesInOrder
<1> QED
  BY <1>1 DEF IInv, StagesInOrder

\* A step of a request or of a person: tasks, labels and drafts stay, and at most
\* one classify message is new.
LEMMA OutsideInv ==
  ASSUME IInv, UNCHANGED <<labelled, drafted, job>>,
         NEW t \in Tickets, queue' = queue \/ queue' = Plus(queue, First("classify", t)),
         post' \in [Tickets -> Stages], status' \in [Tickets -> StatusNames],
         replays' \in 0..MaxReplays, faults' \in [FaultKinds -> Nat],
         \A u \in Tickets : status'[u] # "ABSENT" <=> post'[u] = "done",
         \A u \in Tickets : status[u] # "ABSENT" => status'[u] # "ABSENT",
         \A u \in labelled : status'[u] # "PENDING"
  PROVE  IInv'
<1>1. queue' \in [Message -> Nat]
  BY FirstMessage, PlusQueue DEF IInv, TypeOK
<1>2. \A m \in Message : queue'[m] > 0 => queue[m] > 0 \/ m.task = "classify"
  BY FirstMessage, PlusQueue DEF IInv, TypeOK
<1>3. TypeOK'
  BY <1>1 DEF IInv, TypeOK
<1>4. JobsOnTrack'
  <2> SUFFICES ASSUME NEW w \in Workers, job[w].at = "llm"
               PROVE  status'[job[w].msg.ticket] # "ABSENT"
    BY DEF IInv, JobsOnTrack
  <2> QED
    BY RunningJob DEF IInv, JobsOnTrack
<1> QED
  BY <1>2, <1>3, <1>4, StepInv DEF IInv, StagesInOrder, TypeOK

LEMMA FaultCounts ==
  ASSUME TypeOK, NEW kind, Fault(kind)
  PROVE  faults' \in [FaultKinds -> Nat]
BY PipelineAssumption DEF TypeOK, Fault

LEMMA TicketStepInv ==
  ASSUME IInv, NEW t \in Tickets,
         Submit(t) \/ PostStep(t) \/ Replay(t) \/ Breach(t) \/ \E new \in Taken : MoveOn(t, new)
  PROVE  IInv'
<1> USE DEF IInv, TypeOK
<1>1. CASE Submit(t)
  BY <1>1, OutsideInv DEF Submit, StagesInOrder, Stages
<1>2. CASE Enqueue(t)
  BY <1>2, OutsideInv DEF Enqueue, StagesInOrder, Stages
<1>3. CASE EnqueueFails(t)
  BY <1>3, OutsideInv, FaultCounts DEF EnqueueFails, StagesInOrder, Stages
<1>4. CASE Answer(t)
  BY <1>4, OutsideInv DEF Answer, StagesInOrder, Stages
<1>5. CASE CommitPost(t)
  <2>1. t \notin labelled
    BY <1>5 DEF CommitPost, StagesInOrder
  <2> QED
    BY <1>5, <2>1, OutsideInv DEF CommitPost, StagesInOrder, Stages, StatusNames, Statuses
<1>6. CASE CommitFails(t)
  BY <1>6, OutsideInv, FaultCounts DEF CommitFails, StagesInOrder, Stages
<1>7. CASE PostFails(t)
  BY <1>7, OutsideInv, FaultCounts DEF PostFails, StagesInOrder, Stages
<1>8. CASE Replay(t)
  BY <1>8, OutsideInv, Bounds DEF Replay, StagesInOrder
<1>9. CASE Breach(t)
  BY <1>9, OutsideInv DEF Breach, StagesInOrder, OpenStatuses, StatusNames, Statuses
<1>10. ASSUME NEW new \in Taken, MoveOn(t, new)
       PROVE  IInv'
  BY <1>10, OutsideInv DEF MoveOn, StagesInOrder, ManualTransitions, Taken, StatusNames, Statuses
<1> QED
  BY <1>1, <1>2, <1>3, <1>4, <1>5, <1>6, <1>7, <1>8, <1>9, <1>10 DEF PostStep

-----------------------------------------------------------------------------
LEMMA DeliverInv ==
  ASSUME IInv, NEW w \in Workers, Deliver(w)
  PROVE  IInv'
<1> PICK m \in Message : Classify(w, m) \/ SkipClassify(w, m) \/ Suggest(w, m) \/ SkipSuggest(w, m)
  BY DEF Deliver
<1>1. queue[m] > 0 /\ queue' = Minus(queue, m)
  BY DEF Classify, SkipClassify, Suggest, SkipSuggest, Start, Skip
<1>2. queue' \in [Message -> Nat] /\ \A x \in Message : queue'[x] > 0 => queue[x] > 0
  BY <1>1, MinusQueue DEF IInv, TypeOK
<1>3. UNCHANGED <<post, status, labelled, drafted, replays, faults>>
  BY DEF Classify, SkipClassify, Suggest, SkipSuggest, Start, Skip
<1>4. job' \in [Workers -> Job \cup {NoJob}] /\ JobsOnTrack'
  <2>1. CASE Classify(w, m)
    <3>1. job' = [job EXCEPT ![w] = [msg |-> m, at |-> "llm"]]
      BY <2>1 DEF Classify, Start
    <3>2. m.task = "classify" /\ status[m.ticket] = "PENDING"
      BY <2>1 DEF Classify
    <3> QED
      BY <1>3, <3>1, <3>2 DEF IInv, TypeOK, JobsOnTrack, Job
  <2>2. CASE Suggest(w, m)
    <3>1. job' = [job EXCEPT ![w] = [msg |-> m, at |-> "draft"]]
      BY <2>2 DEF Suggest, Start
    <3>2. m.task = "suggest" /\ m.ticket \in labelled
      BY <1>1, <2>2 DEF Suggest, IInv, StagesInOrder
    <3> QED
      BY <1>3, <3>1, <3>2 DEF IInv, TypeOK, JobsOnTrack, Job
  <2>3. CASE SkipClassify(w, m) \/ SkipSuggest(w, m)
    BY <1>3, <2>3 DEF SkipClassify, SkipSuggest, Skip, IInv, TypeOK, JobsOnTrack
  <2> QED
    BY <2>1, <2>2, <2>3
<1>5. TypeOK'
  BY <1>2, <1>3, <1>4 DEF IInv, TypeOK
<1> QED
  BY <1>2, <1>3, <1>4, <1>5, StepInv DEF IInv, StagesInOrder

\* A task of slot w ends, with or without its message coming back.
LEMMA EndInv ==
  ASSUME IInv, NEW w \in Workers, job[w].at \in {"llm", "chain", "draft"},
         job' = [job EXCEPT ![w] = NoJob],
         UNCHANGED <<post, status, labelled, replays>>,
         faults' \in [FaultKinds -> Nat],
         drafted' = drafted
           \/ (job[w].at = "draft" /\ drafted' = drafted \cup {job[w].msg.ticket}),
         \/ queue' = queue
         \/ queue' = Plus(queue, job[w].msg)
         \/ queue' = Retried(queue, job[w].msg)
         \/ job[w].at = "chain" /\ queue' = Plus(queue, First("suggest", job[w].msg.ticket))
  PROVE  IInv'
<1> DEFINE m == job[w].msg
<1>1. m \in Message /\ m.ticket \in Tickets
  BY RunningJob DEF IInv
<1>2. m.task = "classify" \/ m.ticket \in labelled
  BY DEF IInv, JobsOnTrack
<1>3. /\ queue' \in [Message -> Nat]
      /\ \A x \in Message : queue'[x] > 0 => queue[x] > 0 \/ x.task = "classify" \/ x.ticket \in labelled
  <2>1. CASE queue' = queue
    BY <2>1 DEF IInv, TypeOK
  <2>2. CASE queue' = Plus(queue, m)
    BY <1>1, <1>2, <2>2, PlusQueue DEF IInv, TypeOK
  <2>3. CASE queue' = Retried(queue, m)
    BY <1>1, <1>2, <2>3, RetriedQueue DEF IInv, TypeOK
  <2>4. CASE job[w].at = "chain" /\ queue' = Plus(queue, First("suggest", m.ticket))
    <3>1. m.ticket \in labelled
      BY <2>4 DEF IInv, JobsOnTrack
    <3> QED
      BY <1>1, <2>4, <3>1, PlusQueue, FirstMessage DEF IInv, TypeOK
  <2> QED
    BY <2>1, <2>2, <2>3, <2>4
<1>4. drafted' \subseteq labelled
  BY DEF IInv, StagesInOrder, JobsOnTrack
<1>5. JobsOnTrack'
  BY DEF IInv, TypeOK, JobsOnTrack, NoJob
<1>6. TypeOK'
  BY <1>3, <1>4 DEF IInv, TypeOK
<1> QED
  BY <1>3, <1>4, <1>5, <1>6, StepInv DEF IInv, StagesInOrder

LEMMA StoreLabelInv ==
  ASSUME IInv, NEW w \in Workers, StoreLabel(w)
  PROVE  IInv'
<1> DEFINE t == job[w].msg.ticket
<1>1. /\ job[w] \in Job /\ job[w].msg \in Message /\ t \in Tickets /\ status[t] # "ABSENT"
      /\ job[w].msg.task = "classify"
  BY RunningJob DEF StoreLabel, IInv, JobsOnTrack
<1>2. /\ status' = [status EXCEPT ![t] = "CLASSIFIED"] /\ labelled' = labelled \cup {t}
      /\ job' = [job EXCEPT ![w] = [job[w] EXCEPT !.at = "chain"]]
      /\ UNCHANGED <<post, drafted, queue, replays, faults>>
  BY DEF StoreLabel
<1>3. TypeOK'
  BY <1>1, <1>2 DEF IInv, TypeOK, Job, StatusNames, Statuses
<1>4. JobsOnTrack'
  <2> SUFFICES ASSUME NEW v \in Workers
               PROVE  /\ job'[v].at \in {"llm", "chain"} => job'[v].msg.task = "classify"
                      /\ job'[v].at = "llm" => status'[job'[v].msg.ticket] # "ABSENT"
                      /\ job'[v].at = "chain" => job'[v].msg.ticket \in labelled'
                      /\ job'[v].at = "draft" =>
                           job'[v].msg.task = "suggest" /\ job'[v].msg.ticket \in labelled'
    BY DEF JobsOnTrack
  <2>1. CASE v = w
    BY <1>1, <1>2, <2>1 DEF IInv, TypeOK, Job
  <2>2. CASE v # w
    <3>1. job'[v] = job[v]
      BY <1>2, <2>2 DEF IInv, TypeOK
    <3> QED
      BY <1>1, <1>2, <3>1, RunningJob DEF IInv, TypeOK, JobsOnTrack
  <2> QED
    BY <2>1, <2>2
<1>5. \A u \in Tickets : status'[u] # "ABSENT" <=> post'[u] = "done"
  BY <1>1, <1>2 DEF IInv, TypeOK, StagesInOrder
<1>6. \A u \in labelled' : status'[u] \notin {"ABSENT", "PENDING"}
  BY <1>1, <1>2 DEF IInv, TypeOK, StagesInOrder
<1> QED
  BY <1>2, <1>3, <1>4, <1>5, <1>6, StepInv DEF IInv, StagesInOrder

LEMMA WorkInv ==
  ASSUME IInv, NEW w \in Workers, Work(w)
  PROVE  IInv'
<1>1. CASE StoreLabel(w)
  BY <1>1, StoreLabelInv
<1>2. CASE Chain(w)
  BY <1>2, EndInv DEF Chain, IInv, TypeOK
<1>3. CASE ChainFails(w)
  BY <1>3, EndInv, FaultCounts DEF ChainFails, IInv
<1>4. CASE StoreDraft(w)
  BY <1>4, EndInv DEF StoreDraft, IInv, TypeOK
<1>5. CASE DraftExists(w)
  BY <1>5, EndInv DEF DraftExists, Raise, IInv, TypeOK
<1>6. CASE TaskRaises(w)
  BY <1>6, EndInv, FaultCounts DEF TaskRaises, Raise, IInv
<1>7. CASE LabelUnstorable(w)
  BY <1>7, EndInv, FaultCounts DEF LabelUnstorable, Raise, IInv
<1>8. ASSUME job[w] # NoJob
      PROVE  job[w].at \in {"llm", "chain", "draft"}
  BY <1>8 DEF IInv, TypeOK, Job
<1>9. CASE WorkerCrashes(w)
  BY <1>8, <1>9, EndInv, FaultCounts DEF WorkerCrashes, IInv
<1>10. CASE TaskKilled(w)
  BY <1>8, <1>10, EndInv, FaultCounts DEF TaskKilled, IInv
<1> QED
  BY <1>1, <1>2, <1>3, <1>4, <1>5, <1>6, <1>7, <1>9, <1>10 DEF Work

LEMMA NextInv == IInv /\ [Next]_vars => IInv'
<1> SUFFICES ASSUME IInv, [Next]_vars
             PROVE  IInv'
  OBVIOUS
<1>1. CASE UNCHANGED vars
  BY <1>1 DEF vars, IInv, TypeOK, StagesInOrder, JobsOnTrack
<1> QED
  BY <1>1, TicketStepInv, DeliverInv, WorkInv DEF Next

LEMMA InductiveInv == Spec => []IInv
BY InitInv, NextInv, PTL DEF Spec

-----------------------------------------------------------------------------
\* Messages, jobs and counters keep their shape; no message is taken twice.
THEOREM TypeCorrect == Spec => []TypeOK
<1>1. IInv => TypeOK
  BY DEF IInv
<1> QED
  BY <1>1, InductiveInv, PTL

\* Whatever is lost, delivered twice or out of order, nothing is labelled before
\* it is stored and nothing drafted before it is labelled.
THEOREM StagesOrdered == Spec => []StagesInOrder
<1>1. IInv => StagesInOrder
  BY DEF IInv
<1> QED
  BY <1>1, InductiveInv, PTL

-----------------------------------------------------------------------------
\* A worker has ticket t in its hands, at one of the stages.
AtWork(t, stages) == \E w \in Workers : job[w].at \in stages /\ job[w].msg.ticket = t

\* The task is still to be done for ticket t, or is being done.
Pursued(task, stages, t) == Queued(task, t) \/ AtWork(t, stages)

\* The request for t is past its enqueue and not over, or t is stored and PENDING.
Awaited(t) == post[t] \in {"enqueued", "unqueued", "answered"} \/ status[t] = "PENDING"

\* The steps after which nobody is left to classify a ticket: the broker is away,
\* a worker finds no row, a task's process is killed, the last retry fails.
LosesClassify ==
  \/ \E t \in Tickets : EnqueueFails(t)
  \/ \E w \in Workers, m \in Message : SkipClassify(w, m) /\ status[m.ticket] = "ABSENT"
  \/ \E w \in Workers :
       /\ job[w].at = "llm"
       /\ \/ TaskKilled(w)
          \/ job[w].msg.tries = MaxRetries /\ (TaskRaises(w) \/ LabelUnstorable(w))

\* The steps after which nobody is left to draft a suggestion for a labelled
\* ticket: whatever ends the task between its commit and its enqueue, a killed
\* process, the last retry.
LosesDraft ==
  \E w \in Workers :
    \/ job[w].at = "chain" /\ (ChainFails(w) \/ WorkerCrashes(w) \/ TaskKilled(w))
    \/ job[w].at = "draft" /\ TaskKilled(w)
    \/ job[w].at = "draft" /\ job[w].msg.tries = MaxRetries /\ TaskRaises(w)

AwaitedArePursued == \A t \in Tickets : Awaited(t) => Pursued("classify", {"llm"}, t)

\* A labelled ticket is drafted, or its suggestion is enqueued, about to be or
\* being written.
LabelledArePursued ==
  \A t \in labelled \ drafted : Pursued("suggest", {"chain", "draft"}, t)

-----------------------------------------------------------------------------
\* A message that is added takes no other away.
LEMMA PlusKeeps ==
  ASSUME TypeOK, NEW m \in Message, queue' = Plus(queue, m)
  PROVE  /\ \A task, t : Queued(task, t) => Queued(task, t)'
         /\ Queued(m.task, m.ticket)'
<1>1. \A x \in Message : queue[x] > 0 => queue'[x] > 0
  BY DEF TypeOK, Plus
<1>2. queue'[m] > 0
  BY DEF TypeOK, Plus
<1> QED
  BY <1>1, <1>2 DEF Queued

\* A message that is taken leaves those of other tasks and tickets.
LEMMA MinusKeeps ==
  ASSUME TypeOK, NEW m \in Message, queue' = Minus(queue, m),
         NEW task, NEW t, task # m.task \/ t # m.ticket, Queued(task, t)
  PROVE  Queued(task, t)'
<1>1. PICK x \in Message : x.task = task /\ x.ticket = t /\ queue[x] > 0
  BY DEF Queued
<1>2. queue'[x] = queue[x]
  BY <1>1 DEF Minus, TypeOK
<1> QED
  BY <1>1, <1>2 DEF Queued

\* A retry adds a message of the same task and ticket, unless it was the last.
LEMMA RetriedKeeps ==
  ASSUME TypeOK, NEW m \in Message, queue' = Retried(queue, m)
  PROVE  /\ \A task, t : Queued(task, t) => Queued(task, t)'
         /\ m.tries # MaxRetries => Queued(m.task, m.ticket)'
<1>1. CASE m.tries < MaxRetries
  <2> DEFINE n == [m EXCEPT !.tries = @ + 1]
  <2>1. n \in Message /\ n.task = m.task /\ n.ticket = m.ticket
    BY <1>1, Bounds DEF Message
  <2>2. queue' = Plus(queue, n)
    BY <1>1 DEF Retried
  <2> HIDE DEF n
  <2> QED
    BY <2>1, <2>2, PlusKeeps
<1>2. CASE ~(m.tries < MaxRetries)
  <2>1. m.tries = MaxRetries /\ queue' = queue
    BY <1>2, Bounds DEF Retried, Message
  <2> QED
    BY <2>1 DEF Queued
<1> QED
  BY <1>1, <1>2

\* What slot w turns to takes no ticket out of the hands of the others.
LEMMA HandsKeep ==
  ASSUME TypeOK, NEW w \in Workers, NEW x, job' = [job EXCEPT ![w] = x],
         NEW t, NEW stages, ~(job[w].at \in stages /\ job[w].msg.ticket = t), AtWork(t, stages)
  PROVE  AtWork(t, stages)'
<1>1. PICK v \in Workers : job[v].at \in stages /\ job[v].msg.ticket = t
  BY DEF AtWork
<1>2. job'[v] = job[v]
  BY <1>1 DEF TypeOK
<1> QED
  BY <1>1, <1>2 DEF AtWork

\* The task of slot w ends: what it was about is pursued further, unless it was
\* this task and its message does not come back.
LEMMA EndKeeps ==
  ASSUME TypeOK, NEW w \in Workers, job[w].at \in {"llm", "chain", "draft"},
         job' = [job EXCEPT ![w] = NoJob],
         NEW task, NEW stages, NEW t, Pursued(task, stages, t),
         \/ queue' = queue
         \/ \E m \in Message : queue' = Plus(queue, m)
         \/ queue' = Retried(queue, job[w].msg),
         job[w].at \in stages /\ job[w].msg.ticket = t => Queued(task, t)'
  PROVE  Pursued(task, stages, t)'
<1>1. Queued(task, t) => Queued(task, t)'
  <2>1. CASE queue' = queue
    BY <2>1 DEF Queued
  <2>2. CASE queue' # queue
    BY <2>2, RunningJob, PlusKeeps, RetriedKeeps
  <2> QED
    BY <2>1, <2>2
<1>2. AtWork(t, stages) => Queued(task, t)' \/ AtWork(t, stages)'
  BY HandsKeep
<1> QED
  BY <1>1, <1>2 DEF Pursued

\* A step of a request or a person enqueues at most, and touches no task.
LEMMA OutsideKeeps ==
  ASSUME TypeOK, NEW u \in Tickets, job' = job,
         queue' = queue \/ queue' = Plus(queue, First("classify", u)),
         NEW task, NEW stages, NEW t, Pursued(task, stages, t)
  PROVE  Pursued(task, stages, t)'
<1>1. Queued(task, t) => Queued(task, t)'
  BY FirstMessage, PlusKeeps DEF Queued
<1>2. AtWork(t, stages) => AtWork(t, stages)'
  BY DEF AtWork
<1> QED
  BY <1>1, <1>2 DEF Pursued

-----------------------------------------------------------------------------
LEMMA TicketStepPursues ==
  ASSUME IInv, AwaitedArePursued, NEW u \in Tickets, ~LosesClassify,
         Submit(u) \/ PostStep(u) \/ Replay(u) \/ Breach(u) \/ \E new \in Taken : MoveOn(u, new)
  PROVE  AwaitedArePursued'
<1> SUFFICES ASSUME NEW t \in Tickets, Awaited(t)'
             PROVE  Pursued("classify", {"llm"}, t)'
  BY DEF AwaitedArePursued
<1>1. /\ TypeOK /\ job' = job
      /\ queue' = queue \/ queue' = Plus(queue, First("classify", u))
  BY DEF IInv, Submit, PostStep, Enqueue, EnqueueFails, Answer, CommitPost, CommitFails,
         PostFails, Replay, Breach, MoveOn
<1>2. CASE Awaited(t)
  BY <1>1, <1>2, OutsideKeeps DEF AwaitedArePursued
<1>3. CASE ~Awaited(t)
  <2>1. Enqueue(u) /\ u = t
    BY <1>1, <1>3 DEF TypeOK, Awaited, LosesClassify, Submit, PostStep, Enqueue, EnqueueFails,
       Answer, CommitPost, CommitFails, PostFails, Replay, Breach, MoveOn, Taken, Stages
  <2>2. Queued("classify", t)'
    BY <1>1, <2>1, FirstMessage, PlusKeeps DEF Enqueue
  <2> QED
    BY <2>2 DEF Pursued
<1> QED
  BY <1>2, <1>3

LEMMA DeliverPursues ==
  ASSUME IInv, AwaitedArePursued, NEW w \in Workers, Deliver(w), ~LosesClassify
  PROVE  AwaitedArePursued'
<1> PICK m \in Message : Classify(w, m) \/ SkipClassify(w, m) \/ Suggest(w, m) \/ SkipSuggest(w, m)
  BY DEF Deliver
<1> SUFFICES ASSUME NEW t \in Tickets, Awaited(t)'
             PROVE  Pursued("classify", {"llm"}, t)'
  BY DEF AwaitedArePursued
<1>1. /\ TypeOK /\ queue' = Minus(queue, m) /\ job[w] = NoJob
      /\ post' = post /\ status' = status
  BY DEF IInv, Classify, SkipClassify, Suggest, SkipSuggest, Start, Skip
<1>2. Pursued("classify", {"llm"}, t)
  BY <1>1 DEF AwaitedArePursued, Awaited
<1>3. AtWork(t, {"llm"}) => AtWork(t, {"llm"})'
  <2>1. ~(job[w].at \in {"llm"} /\ job[w].msg.ticket = t)
    BY <1>1 DEF NoJob
  <2>2. CASE SkipClassify(w, m) \/ SkipSuggest(w, m)
    BY <2>2 DEF SkipClassify, SkipSuggest, Skip, AtWork
  <2>3. CASE Classify(w, m)
    BY <1>1, <2>1, <2>3, HandsKeep DEF Classify, Start
  <2>4. CASE Suggest(w, m)
    BY <1>1, <2>1, <2>4, HandsKeep DEF Suggest, Start
  <2> QED
    BY <2>2, <2>3, <2>4
<1>4. CASE m.task = "classify" /\ m.ticket = t
  <2>1. Classify(w, m)
    <3> SUFFICES ASSUME SkipClassify(w, m) PROVE FALSE
      BY <1>4 DEF Suggest, SkipSuggest
    <3>1. status[t] \notin {"PENDING", "ABSENT"}
      BY <1>4 DEF SkipClassify, LosesClassify
    <3>2. post[t] = "done"
      BY <3>1 DEF IInv, StagesInOrder
    <3> QED
      BY <1>1, <3>1, <3>2 DEF Awaited
  <2>2. job'[w] = [msg |-> m, at |-> "llm"]
    BY <1>1, <2>1 DEF Classify, Start, TypeOK
  <2>3. AtWork(t, {"llm"})'
    BY <1>4, <2>2 DEF AtWork
  <2> QED
    BY <2>3 DEF Pursued
<1>5. CASE ~(m.task = "classify" /\ m.ticket = t)
  BY <1>1, <1>2, <1>3, <1>5, MinusKeeps DEF Pursued
<1> QED
  BY <1>4, <1>5

LEMMA WorkPursues ==
  ASSUME IInv, AwaitedArePursued, NEW w \in Workers, Work(w), ~LosesClassify
  PROVE  AwaitedArePursued'
<1> SUFFICES ASSUME NEW t \in Tickets, Awaited(t)'
             PROVE  Pursued("classify", {"llm"}, t)'
  BY DEF AwaitedArePursued
<1> DEFINE m == job[w].msg
<1>1. job[w].at \in {"llm", "chain", "draft"}
  BY DEF Work, StoreLabel, Chain, ChainFails, StoreDraft, DraftExists, TaskRaises,
         LabelUnstorable, WorkerCrashes, TaskKilled, IInv, TypeOK, Job
<1>2. /\ TypeOK /\ m \in Message /\ m.ticket \in Tickets
      /\ job[w].at = "llm" => m.task = "classify"
  BY <1>1, RunningJob DEF IInv, JobsOnTrack
<1>3. CASE StoreLabel(w)
  <2>1. status'[m.ticket] = "CLASSIFIED" /\ post' = post /\ post[m.ticket] = "done"
    BY <1>2, <1>3 DEF StoreLabel, TypeOK, IInv, JobsOnTrack, StagesInOrder
  <2>2. m.ticket # t
    BY <2>1 DEF Awaited
  <2>3. status'[t] = status[t] /\ queue' = queue
    BY <1>3, <2>2 DEF StoreLabel, TypeOK
  <2>4. job' = [job EXCEPT ![w] = [job[w] EXCEPT !.at = "chain"]]
    BY <1>3 DEF StoreLabel
  <2>5. Pursued("classify", {"llm"}, t)
    BY <2>1, <2>3 DEF AwaitedArePursued, Awaited
  <2>6. AtWork(t, {"llm"}) => AtWork(t, {"llm"})'
    BY <1>2, <2>2, <2>4, HandsKeep
  <2> QED
    BY <2>3, <2>5, <2>6 DEF Pursued, Queued
<1>4. CASE ~StoreLabel(w)
  <2>1. /\ post' = post /\ status' = status /\ job' = [job EXCEPT ![w] = NoJob]
        /\ \/ queue' = queue
           \/ \E x \in Message : queue' = Plus(queue, x)
           \/ queue' = Retried(queue, m)
    BY <1>2, <1>4, FirstMessage DEF Work, Chain, ChainFails, StoreDraft, DraftExists, TaskRaises,
       LabelUnstorable, WorkerCrashes, TaskKilled, Raise
  <2>2. Pursued("classify", {"llm"}, t)
    BY <2>1 DEF AwaitedArePursued, Awaited
  <2>3. ASSUME job[w].at = "llm", m.ticket = t
        PROVE  Queued("classify", t)'
    <3>1. \/ queue' = Plus(queue, m)
          \/ queue' = Retried(queue, m) /\ m.tries # MaxRetries
      BY <1>4, <2>3 DEF Work, Chain, ChainFails, StoreDraft, DraftExists, TaskRaises,
         LabelUnstorable, WorkerCrashes, TaskKilled, Raise, LosesClassify
    <3> HIDE DEF m
    <3> QED
      BY <1>2, <2>3, <3>1, PlusKeeps, RetriedKeeps
  <2> HIDE DEF m
  <2>4. job[w].at \in {"llm"} /\ job[w].msg.ticket = t => Queued("classify", t)'
    BY <2>3 DEF m
  <2> QED
    BY <1>1, <1>2, <2>1, <2>2, <2>4, EndKeeps DEF m
<1> QED
  BY <1>3, <1>4

\* Broker failures, a worker that is too early, killed processes and exhausted
\* retries are the only ways out of the promise of README.md:184: as long as none
\* of them happens, every ticket that is PENDING has its message in the queue or
\* is being classified, whatever else fails, crashes, comes twice or out of order.
THEOREM OnlyTheseLosePending == Spec /\ [][~LosesClassify]_vars => []PendingIsQueued
<1>1. Init => AwaitedArePursued
  BY DEF Init, AwaitedArePursued, Awaited
<1>2. IInv /\ AwaitedArePursued /\ [Next]_vars /\ [~LosesClassify]_vars => AwaitedArePursued'
  <2>1. CASE UNCHANGED vars
    BY <2>1 DEF vars, AwaitedArePursued, Awaited, Pursued, Queued, AtWork
  <2>2. CASE ~UNCHANGED vars
    BY <2>2, TicketStepPursues, DeliverPursues, WorkPursues DEF Next
  <2> QED
    BY <2>1, <2>2
<1>3. AwaitedArePursued => PendingIsQueued
  BY DEF AwaitedArePursued, Awaited, Pursued, AtWork, PendingIsQueued
<1> QED
  BY <1>1, <1>2, <1>3, InductiveInv, PTL DEF Spec

-----------------------------------------------------------------------------
LEMMA DeliverPursuesDraft ==
  ASSUME IInv, LabelledArePursued, NEW w \in Workers, Deliver(w)
  PROVE  LabelledArePursued'
<1> PICK m \in Message : Classify(w, m) \/ SkipClassify(w, m) \/ Suggest(w, m) \/ SkipSuggest(w, m)
  BY DEF Deliver
<1> DEFINE stages == {"chain", "draft"}
<1>1. /\ TypeOK /\ queue' = Minus(queue, m) /\ job[w] = NoJob
      /\ labelled' = labelled /\ drafted' = drafted /\ labelled \subseteq Tickets
  BY DEF IInv, TypeOK, Classify, SkipClassify, Suggest, SkipSuggest, Start, Skip
<1> SUFFICES ASSUME NEW t \in labelled \ drafted
             PROVE  Pursued("suggest", stages, t)'
  BY <1>1 DEF LabelledArePursued
<1>2. Pursued("suggest", stages, t)
  BY DEF LabelledArePursued
<1>3. AtWork(t, stages) => AtWork(t, stages)'
  <2>1. ~(job[w].at \in stages /\ job[w].msg.ticket = t)
    BY <1>1 DEF NoJob
  <2> HIDE DEF stages
  <2>2. CASE SkipClassify(w, m) \/ SkipSuggest(w, m)
    BY <2>2 DEF SkipClassify, SkipSuggest, Skip, AtWork
  <2>3. CASE Classify(w, m)
    BY <1>1, <2>1, <2>3, HandsKeep DEF Classify, Start
  <2>4. CASE Suggest(w, m)
    BY <1>1, <2>1, <2>4, HandsKeep DEF Suggest, Start
  <2> QED
    BY <2>2, <2>3, <2>4
<1>4. CASE m.task = "suggest" /\ m.ticket = t
  <2>1. status[t] # "ABSENT"
    BY DEF IInv, StagesInOrder
  <2>2. Suggest(w, m)
    BY <1>4, <2>1 DEF Classify, SkipClassify, SkipSuggest
  <2>3. job'[w] = [msg |-> m, at |-> "draft"]
    BY <1>1, <2>2 DEF Suggest, Start, TypeOK
  <2>4. AtWork(t, stages)'
    BY <1>4, <2>3 DEF AtWork
  <2> QED
    BY <2>4 DEF Pursued
<1>5. CASE ~(m.task = "suggest" /\ m.ticket = t)
  <2> HIDE DEF stages
  <2> QED
    BY <1>1, <1>2, <1>3, <1>5, MinusKeeps DEF Pursued
<1> QED
  BY <1>4, <1>5

LEMMA StoreLabelPursuesDraft ==
  ASSUME IInv, LabelledArePursued, NEW w \in Workers, StoreLabel(w)
  PROVE  LabelledArePursued'
<1> DEFINE m == job[w].msg
           stages == {"chain", "draft"}
<1>1. /\ TypeOK /\ job[w].at = "llm" /\ queue' = queue /\ drafted' = drafted
      /\ labelled' = labelled \cup {m.ticket}
      /\ job' = [job EXCEPT ![w] = [job[w] EXCEPT !.at = "chain"]]
  BY DEF StoreLabel, IInv
<1>2. job[w] \in Job
  BY <1>1, RunningJob
<1> SUFFICES ASSUME NEW t \in labelled' \ drafted'
             PROVE  Pursued("suggest", stages, t)'
  BY DEF LabelledArePursued
<1>3. CASE t = m.ticket
  <2>1. job'[w].at = "chain" /\ job'[w].msg = m
    BY <1>1, <1>2 DEF TypeOK, Job
  <2> QED
    BY <1>3, <2>1 DEF Pursued, AtWork
<1>4. CASE t # m.ticket
  <2>1. Pursued("suggest", stages, t)
    BY <1>1, <1>4 DEF LabelledArePursued
  <2>2. AtWork(t, stages) => AtWork(t, stages)'
    BY <1>1, <1>4, HandsKeep
  <2> QED
    BY <1>1, <2>1, <2>2 DEF Pursued, Queued
<1> QED
  BY <1>3, <1>4

LEMMA WorkPursuesDraft ==
  ASSUME IInv, LabelledArePursued, NEW w \in Workers, Work(w), ~StoreLabel(w), ~LosesDraft
  PROVE  LabelledArePursued'
<1> DEFINE m == job[w].msg
           stages == {"chain", "draft"}
<1>1. job[w].at \in {"llm", "chain", "draft"}
  BY DEF Work, Chain, ChainFails, StoreDraft, DraftExists, TaskRaises,
         LabelUnstorable, WorkerCrashes, TaskKilled, IInv, TypeOK, Job
<1>2. /\ TypeOK /\ m \in Message /\ m.ticket \in Tickets
      /\ job[w].at = "draft" => m.task = "suggest"
  BY <1>1, RunningJob DEF IInv, JobsOnTrack
<1>3. /\ labelled' = labelled /\ drafted \subseteq drafted' /\ job' = [job EXCEPT ![w] = NoJob]
      /\ \/ queue' = queue
         \/ \E x \in Message : queue' = Plus(queue, x)
         \/ queue' = Retried(queue, m)
  BY <1>2, FirstMessage DEF Work, Chain, ChainFails, StoreDraft, DraftExists, TaskRaises,
     LabelUnstorable, WorkerCrashes, TaskKilled, Raise
<1> SUFFICES ASSUME NEW t \in labelled \ drafted'
             PROVE  Pursued("suggest", stages, t)'
  BY <1>3 DEF LabelledArePursued
<1>4. Pursued("suggest", stages, t)
  BY <1>3 DEF LabelledArePursued
<1>5. ASSUME job[w].at = "chain", m.ticket = t
      PROVE  Queued("suggest", t)'
  <2>1. queue' = Plus(queue, First("suggest", t))
    BY <1>5 DEF Work, Chain, ChainFails, StoreDraft, DraftExists, TaskRaises,
       LabelUnstorable, WorkerCrashes, TaskKilled, LosesDraft
  <2>2. First("suggest", t) \in Message /\ First("suggest", t).task = "suggest"
        /\ First("suggest", t).ticket = t
    BY <1>2, <1>5, FirstMessage
  <2>3. Queued(First("suggest", t).task, First("suggest", t).ticket)'
    BY <1>2, <2>1, <2>2, PlusKeeps
  <2> QED
    BY <2>2, <2>3
<1>6. ASSUME job[w].at = "draft", m.ticket = t
      PROVE  Queued("suggest", t)'
  <2>1. \/ queue' = Plus(queue, m)
        \/ queue' = Retried(queue, m) /\ m.tries # MaxRetries
    BY <1>6 DEF Work, Chain, ChainFails, StoreDraft, DraftExists, TaskRaises,
       LabelUnstorable, WorkerCrashes, TaskKilled, Raise, LosesDraft
  <2> HIDE DEF m
  <2> QED
    BY <1>2, <1>6, <2>1, PlusKeeps, RetriedKeeps
<1>7. job[w].at \in stages /\ job[w].msg.ticket = t => Queued("suggest", t)'
  BY <1>5, <1>6
<1> HIDE DEF stages, m
<1> QED
  BY <1>1, <1>2, <1>3, <1>4, <1>7, EndKeeps DEF m

\* What the crash between the commit of the label and the chained enqueue, a
\* failing or killed one, and the last retry of a draft leave behind is the only
\* reason why a labelled ticket may never be drafted: as long as none of them
\* happens, its suggestion is enqueued, about to be, or being written.
THEOREM OnlyTheseLoseDrafts == Spec /\ [][~LosesDraft]_vars => []LabelledArePursued
<1>1. Init => LabelledArePursued
  BY DEF Init, LabelledArePursued
<1>2. IInv /\ LabelledArePursued /\ [Next]_vars /\ [~LosesDraft]_vars => LabelledArePursued'
  <2> SUFFICES ASSUME IInv, LabelledArePursued, [Next]_vars, [~LosesDraft]_vars
               PROVE  LabelledArePursued'
    OBVIOUS
  <2>1. CASE UNCHANGED vars
    BY <2>1 DEF vars, LabelledArePursued, Pursued, Queued, AtWork
  <2>2. ASSUME NEW u \in Tickets,
               Submit(u) \/ PostStep(u) \/ Replay(u) \/ Breach(u) \/ \E new \in Taken : MoveOn(u, new)
        PROVE  LabelledArePursued'
    <3>1. /\ job' = job /\ labelled' = labelled /\ drafted' = drafted
          /\ queue' = queue \/ queue' = Plus(queue, First("classify", u))
      BY <2>2 DEF Submit, PostStep, Enqueue, EnqueueFails, Answer, CommitPost, CommitFails,
         PostFails, Replay, Breach, MoveOn
    <3> QED
      BY <3>1, OutsideKeeps DEF LabelledArePursued, IInv
  <2>3. CASE ~UNCHANGED vars
    BY <2>2, <2>3, DeliverPursuesDraft, StoreLabelPursuesDraft, WorkPursuesDraft DEF Next
  <2> QED
    BY <2>1, <2>3
<1> QED
  BY <1>1, <1>2, InductiveInv, PTL DEF Spec

=============================================================================
