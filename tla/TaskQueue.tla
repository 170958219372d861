----------------------------- MODULE TaskQueue -----------------------------
(* The Celery queue as the tasks use it: a bag of undelivered messages,      *)
(* without order, and the automatic retry of a task that raises.  A message  *)
(* is a record whose field tries counts the retries it has behind it.        *)
EXTENDS Naturals, Functions

CONSTANT MaxRetries  \* max_retries of the tasks

Plus(q, m) == [q EXCEPT ![m] = @ + 1]

Minus(q, m) == [q EXCEPT ![m] = @ - 1]

\* Variant: one retry too few.
RetriedOneLess(q, m) ==
  IF m.tries + 1 < MaxRetries THEN Plus(q, [m EXCEPT !.tries = @ + 1]) ELSE q

\* The queue after the task of message m raised: autoretry, or given up.
Retried(q, m) ==
  IF m.tries < MaxRetries THEN Plus(q, [m EXCEPT !.tries = @ + 1]) ELSE q

=============================================================================
