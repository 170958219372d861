----------------------------- MODULE TaskRunner -----------------------------
(* How a Celery process runs the coroutines of its tasks: each on an event   *)
(* loop of its own, with a connection pool that outlives the loop.           *)
EXTENDS Naturals

CONSTANTS
  Processes,
  MaxLoops    \* bound: tasks a process runs

VARIABLES
  loop,   \* loop[p]: the number of the last loop of p
  task,   \* task[p]: idle, running, or ended with the loop not closed yet
  pool    \* pool[p]: the loops that the pooled connections belong to

taskVars == <<loop, task, pool>>

NewProcess(p) ==
  /\ loop' = [loop EXCEPT ![p] = 0]
  /\ task' = [task EXCEPT ![p] = "idle"]
  /\ pool' = [pool EXCEPT ![p] = {}]

\* asyncio.run
StartTask(p) ==
  /\ task[p] = "idle"
  /\ loop[p] < MaxLoops
  /\ loop' = [loop EXCEPT ![p] = @ + 1]
  /\ task' = [task EXCEPT ![p] = "running"]
  /\ UNCHANGED pool

\* A session takes a connection: one of the pool, if there is one, and gives it
\* back.
Connect(p) ==
  /\ task[p] = "running"
  /\ pool' = [pool EXCEPT ![p] = IF @ = {} THEN {loop[p]} ELSE @]
  /\ UNCHANGED <<loop, task>>

\* The coroutine returns or raises.
Leave(p) ==
  /\ task[p] = "running"
  /\ \E end \in {"returned", "raised"} : task' = [task EXCEPT ![p] = end]
  /\ UNCHANGED <<loop, pool>>

\* Variant: the pool is disposed after the await, not in a finally.
DisposeOnReturn(p) ==
  /\ task[p] \in {"returned", "raised"}
  /\ pool' = [pool EXCEPT ![p] = IF task[p] = "returned" THEN {} ELSE @]
  /\ task' = [task EXCEPT ![p] = "idle"]
  /\ UNCHANGED loop

\* finally: engine.dispose(); then the loop is closed.
Dispose(p) ==
  /\ task[p] \in {"returned", "raised"}
  /\ pool' = [pool EXCEPT ![p] = {}]
  /\ task' = [task EXCEPT ![p] = "idle"]
  /\ UNCHANGED loop

TasksInit ==
  /\ loop = [p \in Processes |-> 0]
  /\ task = [p \in Processes |-> "idle"]
  /\ pool = [p \in Processes |-> {}]

RunTask(p) == StartTask(p) \/ Connect(p) \/ Leave(p) \/ Dispose(p)

\* No task meets a connection of a loop that is closed, whatever became of the
\* tasks before it.
ConnectionsAreLive ==
  \A p \in Processes : task[p] # "idle" => pool[p] \subseteq {loop[p]}

=============================================================================
