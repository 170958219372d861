------------------------------ MODULE RateLimit ------------------------------
(* The token bucket in Redis that guards POST /tickets.  An API process reads *)
(* its clock, then Redis runs the script with that reading: refill, consume,  *)
(* store, expire.  Calls may overtake one another in between.  Tokens are     *)
(* counted in fractions: Unit of them make one request.                       *)
EXTENDS Integers

CONSTANTS
  Users,      \* authenticated users
  Addresses,  \* client addresses, which the buckets are keyed by
  Address,    \* Address[u]: where u's requests come from
  Unit,       \* fractions in a token
  Capacity,   \* capacity of a bucket, in fractions
  Rate,       \* fractions refilled in a tick of the clock
  Expiry,     \* ticks after which Redis drops an untouched bucket
  MaxDelay,   \* ticks between reading the clock and the last run of the script
  MaxClock,   \* bound: ticks in a behaviour
  MaxLate     \* bound: late calls to one bucket

ASSUME RateLimitAssumption ==
  /\ Address \in [Users -> Addresses]
  /\ {Unit, Capacity, Rate, Expiry, MaxDelay, MaxClock, MaxLate} \subseteq Nat
  /\ Unit > 0

\* An untouched bucket is full again before it expires, whatever the delay: 30
\* tokens are refilled in a minute, and a bucket expires after an hour.
ASSUME ExpiryAssumption ==
  /\ Expiry >= MaxDelay
  /\ Rate * (Expiry - MaxDelay) >= Capacity

VARIABLES
  clock,    \* the time
  bucket,   \* bucket[a]: tokens, timestamp and the time of the last EXPIRE
  call,     \* call[u]: the clock reading u's request carries to Redis
  answer,   \* answer[u]: what u's last request met with
  granted,  \* granted[a]: tokens requests took from the bucket of a
  late,     \* late[a]: script runs with a reading behind the bucket's timestamp
  window    \* a moment of the past, with granted and late as they were then

vars == <<clock, bucket, call, answer, granted, late, window>>

Bucket == [tokens : 0..Capacity, timestamp : 0..MaxClock, touched : 0..MaxClock]

NoBucket == [touched |-> -1]

NoCall == -1

Max0(n) == IF n > 0 THEN n ELSE 0
Least(m, n) == IF m < n THEN m ELSE n

-----------------------------------------------------------------------------
\* Redis still has the bucket of a.
Live(a) == bucket[a] # NoBucket /\ clock < bucket[a].touched + Expiry

\* The tokens of a for a caller whose clock reads now: a new bucket is full, and
\* a reading behind the bucket's timestamp refills nothing.
Refilled(a, now) ==
  IF Live(a)
  THEN Least(Capacity, bucket[a].tokens + Rate * Max0(now - bucket[a].timestamp))
  ELSE Capacity

Allows(a, now) == Refilled(a, now) >= Unit

Left(a, now) == IF Allows(a, now) THEN Refilled(a, now) - Unit ELSE Refilled(a, now)

\* Room for one more late call, and its count.
CountLate(a, now) ==
  IF Live(a) /\ now < bucket[a].timestamp
  THEN late[a] < MaxLate /\ late' = [late EXCEPT ![a] = @ + 1]
  ELSE UNCHANGED late

\* Variant: the timestamp of an existing bucket is not updated.
RunUnstamped(a, now) ==
  /\ bucket' = [bucket EXCEPT ![a] =
       [tokens    |-> Left(a, now),
        timestamp |-> IF Live(a) THEN bucket[a].timestamp ELSE now,
        touched   |-> clock]]
  /\ CountLate(a, now)

\* Variant: whole tokens are stored.
RunFloored(a, now) ==
  /\ bucket' = [bucket EXCEPT ![a] =
       [tokens    |-> (Left(a, now) \div Unit) * Unit,
        timestamp |-> now,
        touched   |-> clock]]
  /\ CountLate(a, now)

\* The script's writes.
Run(a, now) ==
  /\ bucket' = [bucket EXCEPT ![a] =
       [tokens |-> Left(a, now), timestamp |-> now, touched |-> clock]]
  /\ CountLate(a, now)

\* A token is taken for a request of u.
Take(u) ==
  granted' = [granted EXCEPT ![Address[u]] = @ + 1]

\* A request of u comes in: time.time() is read and the call sent.
Call(u) ==
  /\ call[u] = NoCall
  /\ call' = [call EXCEPT ![u] = clock]
  /\ answer' = [answer EXCEPT ![u] = "pending"]
  /\ UNCHANGED <<clock, bucket, granted, late, window>>

\* The script runs and grants the request.
Grant(u) ==
  /\ call[u] # NoCall
  /\ Allows(Address[u], call[u])
  /\ Run(Address[u], call[u])
  /\ Take(u)
  /\ call' = [call EXCEPT ![u] = NoCall]
  /\ answer' = [answer EXCEPT ![u] = "allowed"]
  /\ UNCHANGED <<clock, window>>

\* The script runs and refuses it: 429.
Limit(u) ==
  /\ call[u] # NoCall
  /\ ~Allows(Address[u], call[u])
  /\ Run(Address[u], call[u])
  /\ call' = [call EXCEPT ![u] = NoCall]
  /\ answer' = [answer EXCEPT ![u] = "limited"]
  /\ UNCHANGED <<clock, granted, window>>

\* The script runs, but its answer is lost.  The client library sends the call
\* again, reading and all, or raises RedisError (FailOpen).
AnswerLost(u) ==
  /\ call[u] # NoCall
  /\ Run(Address[u], call[u])
  /\ IF Allows(Address[u], call[u]) THEN Take(u) ELSE UNCHANGED granted
  /\ UNCHANGED <<clock, call, answer, window>>

\* RedisError: the request passes, whatever the bucket says (fail open).
FailOpen(u) ==
  /\ call[u] # NoCall
  /\ call' = [call EXCEPT ![u] = NoCall]
  /\ answer' = [answer EXCEPT ![u] = "allowed"]
  /\ UNCHANGED <<clock, bucket, granted, late, window>>

\* Time passes; a call does not take longer than MaxDelay.
Tick ==
  /\ clock < MaxClock
  /\ \A u \in Users : call[u] # NoCall => clock < call[u] + MaxDelay
  /\ clock' = clock + 1
  /\ UNCHANGED <<bucket, call, answer, granted, late, window>>

\* Nothing in the code: any moment may be the start of the window we count from.
OpenWindow ==
  /\ window' = [start |-> clock, granted |-> granted, late |-> late]
  /\ UNCHANGED <<clock, bucket, call, answer, granted, late>>

-----------------------------------------------------------------------------
Init ==
  /\ clock = 0
  /\ bucket = [a \in Addresses |-> NoBucket]
  /\ call = [u \in Users |-> NoCall]
  /\ answer = [u \in Users |-> "none"]
  /\ granted = [a \in Addresses |-> 0]
  /\ late = [a \in Addresses |-> 0]
  /\ window = [start |-> 0, granted |-> granted, late |-> late]

Next ==
  \/ \E u \in Users : Call(u) \/ Grant(u) \/ Limit(u) \/ AnswerLost(u) \/ FailOpen(u)
  \/ Tick
  \/ OpenWindow

Spec == Init /\ [][Next]_vars

-----------------------------------------------------------------------------
\* Tokens taken from a, and late calls to it, since the window was opened.
Taken(a) == granted[a] - window.granted[a]
LateIn(a) == late[a] - window.late[a]

\* The shape of the state; a bucket holds no less than nothing and no more than
\* its capacity, whatever the order of the readings.
TypeOK ==
  /\ clock \in 0..MaxClock
  /\ bucket \in [Addresses -> Bucket \cup {NoBucket}]
  /\ call \in [Users -> 0..MaxClock \cup {NoCall}]
  /\ answer \in [Users -> {"none", "pending", "allowed", "limited"}]
  /\ granted \in [Addresses -> Nat]
  /\ late \in [Addresses -> 0..MaxLate]
  /\ window \in [start : 0..MaxClock, granted : [Addresses -> Nat],
                 late : [Addresses -> 0..MaxLate]]

\* In any window of time a bucket lets through its capacity plus what is refilled
\* in that time, and no more; each late call may have its delay refilled twice.
\* Expiry, lost answers and repeated calls do not add to that.
WindowBound ==
  \A a \in Addresses :
    Taken(a) * Unit <= Capacity + Rate * (clock - window.start + MaxDelay * (LateIn(a) + 1))

\* A request is refused only if so much was taken since any earlier moment that
\* the refill since then, up to the capacity, leaves less than a token: no
\* refill is lost to refused requests or to calls out of order.
LimitedOnlyWhenSpent ==
  [][\A u \in Users :
       answer[u] # "limited" /\ answer'[u] = "limited"
         => (Taken(Address[u]) + 1) * Unit
              > Least(Capacity, Rate * (call[u] - window.start))]_vars

=============================================================================
