--------------------------- MODULE RateLimitProofs ---------------------------
(* What the token bucket lets through and what it refuses, for any capacity,  *)
(* rate, delay and expiry.  The invariant follows the bucket's own timestamp: *)
(* what was taken since the window was opened, and what is left, are bounded  *)
(* on both sides by the refill up to that timestamp.                          *)
EXTENDS RateLimit, TLAPS

\* A bucket is stamped with a reading made before it was touched.
StampBehind ==
  \A a \in Addresses :
    bucket[a] # NoBucket => bucket[a].timestamp <= bucket[a].touched /\ bucket[a].touched <= clock

\* A call in flight carries a reading at most MaxDelay old.
ReadingRecent ==
  \A u \in Users : call[u] # NoCall => call[u] <= clock /\ clock <= call[u] + MaxDelay

WindowPast ==
  /\ window.start <= clock
  /\ \A a \in Addresses : window.granted[a] <= granted[a] /\ window.late[a] <= late[a]

\* Nothing was taken, or what was taken and what is left come from the capacity
\* and the refill up to the timestamp.
SpentBound ==
  \A a \in Addresses :
    \/ Taken(a) = 0
    \/ /\ bucket[a] # NoBucket
       /\ Taken(a) * Unit + bucket[a].tokens
            <= Capacity + Rate * (bucket[a].timestamp - window.start + MaxDelay * (LateIn(a) + 1))

\* What was taken and what is left account for the refill up to the timestamp.
NothingLost ==
  \A a \in Addresses :
    bucket[a] # NoBucket
      => bucket[a].tokens + Taken(a) * Unit
           >= Least(Capacity, Rate * (bucket[a].timestamp - window.start))

IInv ==
  /\ TypeOK
  /\ StampBehind
  /\ ReadingRecent
  /\ WindowPast
  /\ SpentBound
  /\ NothingLost

-----------------------------------------------------------------------------
LEMMA Distribute ==
  ASSUME NEW r \in Int, NEW m \in Int, NEW n \in Int
  PROVE  r * (m + n) = r * m + r * n /\ r * (m - n) = r * m - r * n /\ r * m \in Int
OBVIOUS

LEMMA Monotone ==
  ASSUME NEW r \in Nat, NEW m \in Int, NEW n \in Int, m <= n
  PROVE  r * m <= r * n
<1>1. r * (n - m) = r * n - r * m /\ r * n \in Int /\ r * m \in Int
  BY Distribute
<1>2. r * (n - m) >= 0
  <2>1. n - m \in Nat
    OBVIOUS
  <2> QED
    BY <2>1
<1> QED
  BY <1>1, <1>2

\* The constants are numbers.
LEMMA Numbers ==
  /\ Unit \in Nat /\ Capacity \in Nat /\ Rate \in Nat /\ Expiry \in Nat
  /\ MaxDelay \in Nat /\ MaxClock \in Nat /\ MaxLate \in Nat /\ Unit > 0
BY RateLimitAssumption

LEMMA LiveBucket ==
  ASSUME TypeOK, NEW a \in Addresses, Live(a)
  PROVE  /\ bucket[a] \in Bucket /\ bucket[a] # NoBucket
         /\ bucket[a].tokens \in 0..Capacity
         /\ bucket[a].timestamp \in Nat /\ bucket[a].touched \in Nat
BY Numbers DEF TypeOK, Live, Bucket

\* A caller with a late reading finds the tokens as they are,
LEMMA RefilledLate ==
  ASSUME TypeOK, NEW a \in Addresses, NEW now \in Nat, Live(a), now < bucket[a].timestamp
  PROVE  Refilled(a, now) = bucket[a].tokens
<1> DEFINE d == Max0(now - bucket[a].timestamp)
<1>1. d = 0
  BY LiveBucket DEF Max0
<1>2. Rate * d = 0
  BY <1>1, Numbers
<1>3. Refilled(a, now) = Least(Capacity, bucket[a].tokens + Rate * d)
  BY DEF Refilled
<1> HIDE DEF d
<1> QED
  BY <1>2, <1>3, LiveBucket, Numbers DEF Least

\* one with a current reading the tokens and their refill, up to the capacity,
LEMMA RefilledCurrent ==
  ASSUME TypeOK, NEW a \in Addresses, NEW now \in Nat, Live(a), now >= bucket[a].timestamp
  PROVE  /\ Refilled(a, now)
              = Least(Capacity, bucket[a].tokens + Rate * (now - bucket[a].timestamp))
         /\ Rate * (now - bucket[a].timestamp) \in Nat
<1> DEFINE d == now - bucket[a].timestamp
<1>1. d \in Nat /\ Max0(d) = d
  BY LiveBucket DEF Max0
<1>2. Rate * d \in Nat
  BY <1>1, Numbers
<1>3. Refilled(a, now) = Least(Capacity, bucket[a].tokens + Rate * Max0(d))
  BY DEF Refilled
<1> HIDE DEF d
<1>4. Refilled(a, now) = Least(Capacity, bucket[a].tokens + Rate * d)
  BY <1>1, <1>3
<1> QED
  BY <1>2, <1>4 DEF d

\* and everyone something between nothing and the capacity.
LEMMA RefilledRange ==
  ASSUME TypeOK, NEW a \in Addresses, NEW now \in Nat
  PROVE  /\ Refilled(a, now) \in 0..Capacity
         /\ Left(a, now) \in 0..Capacity
<1>1. Refilled(a, now) \in 0..Capacity
  <2>1. CASE ~Live(a)
    BY <2>1, Numbers DEF Refilled
  <2>2. CASE Live(a)
    <3>1. now < bucket[a].timestamp \/ now >= bucket[a].timestamp
      BY <2>2, LiveBucket
    <3>2. CASE now < bucket[a].timestamp
      BY <2>2, <3>2, RefilledLate, LiveBucket
    <3>3. CASE now >= bucket[a].timestamp
      <4> DEFINE m == Rate * (now - bucket[a].timestamp)
      <4>1. m \in Nat /\ Refilled(a, now) = Least(Capacity, bucket[a].tokens + m)
        BY <2>2, <3>3, RefilledCurrent
      <4> HIDE DEF m
      <4> QED
        BY <2>2, <4>1, LiveBucket, Numbers DEF Least
    <3> QED
      BY <3>1, <3>2, <3>3
  <2> QED
    BY <2>1, <2>2
<1>2. Left(a, now) \in 0..Capacity
  BY <1>1, Numbers DEF Left, Allows
<1> QED
  BY <1>1, <1>2

-----------------------------------------------------------------------------
\* One run of the script for a call with reading "now", which takes a token if it
\* finds one.
RunTakes(a, now) ==
  /\ Run(a, now)
  /\ granted' = IF Allows(a, now) THEN [granted EXCEPT ![a] = @ + 1] ELSE granted
  /\ UNCHANGED <<clock, window>>

\* What will have been taken, and how many calls will have been late, after it.
TakenAfter(a, now) == IF Allows(a, now) THEN Taken(a) + 1 ELSE Taken(a)
LateAfter(a, now) == IF Live(a) /\ now < bucket[a].timestamp THEN LateIn(a) + 1 ELSE LateIn(a)

LEMMA Counts ==
  ASSUME IInv, NEW a \in Addresses
  PROVE  /\ granted[a] \in Nat /\ window.granted[a] \in Nat /\ window.granted[a] <= granted[a]
         /\ late[a] \in Nat /\ window.late[a] \in Nat /\ window.late[a] <= late[a]
         /\ Taken(a) \in Nat /\ LateIn(a) \in Nat
         /\ clock \in Nat /\ window.start \in Nat /\ window.start <= clock
<1>1. /\ granted[a] \in Nat /\ window.granted[a] \in Nat /\ late[a] \in Nat
      /\ window.late[a] \in Nat /\ clock \in Nat /\ window.start \in Nat
  BY Numbers DEF IInv, TypeOK
<1> QED
  BY <1>1 DEF IInv, WindowPast, Taken, LateIn

\* What the run leaves, and what was taken, is what it found.
LEMMA RunAccounts ==
  ASSUME IInv, NEW a \in Addresses, NEW now \in Nat
  PROVE  /\ Taken(a) * Unit \in Nat
         /\ TakenAfter(a, now) * Unit \in Nat
         /\ TakenAfter(a, now) * Unit + Left(a, now) = Taken(a) * Unit + Refilled(a, now)
<1>1. Taken(a) \in Nat
  BY Counts
<1>2. (Taken(a) + 1) * Unit = Taken(a) * Unit + Unit /\ Taken(a) * Unit \in Nat
  BY <1>1, Numbers
<1>3. TakenAfter(a, now) * Unit
        = IF Allows(a, now) THEN Taken(a) * Unit + Unit ELSE Taken(a) * Unit
  BY <1>2 DEF TakenAfter
<1>4. Refilled(a, now) \in Int
  BY RefilledRange DEF IInv
<1> QED
  BY <1>2, <1>3, <1>4, Numbers DEF Left

\* The run's effect on the bucket and on the counts.
LEMMA RunEffect ==
  ASSUME IInv, NEW a \in Addresses, NEW now \in Nat, RunTakes(a, now)
  PROVE  /\ clock' = clock /\ window' = window
         /\ bucket' = [bucket EXCEPT ![a] =
                [tokens |-> Left(a, now), timestamp |-> now, touched |-> clock]]
         /\ \A b \in Addresses :
              /\ bucket'[b] = IF b = a
                   THEN [tokens |-> Left(a, now), timestamp |-> now, touched |-> clock]
                   ELSE bucket[b]
              /\ granted'[b] - window'.granted[b] = IF b = a THEN TakenAfter(a, now) ELSE Taken(b)
              /\ late'[b] - window'.late[b] = IF b = a THEN LateAfter(a, now) ELSE LateIn(b)
<1>1. \A b \in Addresses :
        /\ granted[b] \in Nat /\ window.granted[b] \in Nat
        /\ late[b] \in Nat /\ window.late[b] \in Nat
  BY Counts
<1>2. /\ clock' = clock /\ window' = window
      /\ bucket' = [bucket EXCEPT ![a] =
             [tokens |-> Left(a, now), timestamp |-> now, touched |-> clock]]
  BY DEF RunTakes, Run
<1>3. \A b \in Addresses :
        bucket'[b] = IF b = a
                     THEN [tokens |-> Left(a, now), timestamp |-> now, touched |-> clock]
                     ELSE bucket[b]
  BY <1>2 DEF IInv, TypeOK
<1>4. \A b \in Addresses :
        granted'[b] - window'.granted[b] = IF b = a THEN TakenAfter(a, now) ELSE Taken(b)
  BY <1>1, <1>2 DEF RunTakes, TakenAfter, Taken, IInv, TypeOK
<1>5. \A b \in Addresses :
        late'[b] - window'.late[b] = IF b = a THEN LateAfter(a, now) ELSE LateIn(b)
  BY <1>1, <1>2 DEF RunTakes, Run, CountLate, LateAfter, LateIn, IInv, TypeOK
<1> QED
  BY <1>2, <1>3, <1>4, <1>5

-----------------------------------------------------------------------------
\* What was spent grows no faster than the refill, and so stays within it.
LEMMA Within ==
  ASSUME NEW r \in Nat, NEW c \in Int, NEW x \in Int, NEW y \in Int,
         NEW before \in Int, NEW after \in Int,
         before <= c + r * x, after <= before + r * (y - x)
  PROVE  after <= c + r * y
<1>1. r * (y - x) = r * y - r * x /\ r * y \in Int /\ r * x \in Int
  BY Distribute
<1> QED
  BY <1>1

\* A late call adds its delay to the slack.
LEMMA Slack ==
  ASSUME IInv, NEW a \in Addresses, NEW now \in Nat
  PROVE  /\ MaxDelay * (LateIn(a) + 1) \in Nat
         /\ MaxDelay * (LateAfter(a, now) + 1) \in Nat
         /\ MaxDelay * (LateAfter(a, now) + 1) >= MaxDelay
         /\ MaxDelay * (LateAfter(a, now) + 1)
              = IF Live(a) /\ now < bucket[a].timestamp THEN MaxDelay * (LateIn(a) + 1) + MaxDelay
                                                       ELSE MaxDelay * (LateIn(a) + 1)
<1>1. LateIn(a) \in Nat
  BY Counts
<1>2. \A n \in Nat : MaxDelay * (n + 1) = MaxDelay * n + MaxDelay /\ MaxDelay * n \in Nat
  BY Numbers
<1> DEFINE m == MaxDelay * (LateIn(a) + 1)
<1>3. m \in Nat /\ m >= MaxDelay
  BY <1>1, <1>2, Numbers
<1>4. MaxDelay * ((LateIn(a) + 1) + 1) = m + MaxDelay
  BY <1>1, <1>2
<1>5. CASE Live(a) /\ now < bucket[a].timestamp
  <2>1. MaxDelay * (LateAfter(a, now) + 1) = m + MaxDelay
    BY <1>4, <1>5 DEF LateAfter
  <2> HIDE DEF m
  <2>2. m + MaxDelay \in Nat /\ m + MaxDelay >= MaxDelay
    BY <1>3, Numbers
  <2> QED
    BY <1>3, <1>5, <2>1, <2>2 DEF m
<1>6. CASE ~(Live(a) /\ now < bucket[a].timestamp)
  <2>1. LateAfter(a, now) = LateIn(a)
    BY <1>6 DEF LateAfter
  <2> QED
    BY <1>3, <1>6, <2>1
<1> QED
  BY <1>5, <1>6

LEMMA RunSpent ==
  ASSUME IInv, NEW a \in Addresses, NEW now \in Nat, now <= clock, clock <= now + MaxDelay
  PROVE  TakenAfter(a, now) * Unit + Left(a, now)
           <= Capacity + Rate * (now - window.start + MaxDelay * (LateAfter(a, now) + 1))
<1> DEFINE before == Taken(a) * Unit + bucket[a].tokens
           after  == TakenAfter(a, now) * Unit + Left(a, now)
           slack  == MaxDelay * (LateIn(a) + 1)
           slack2 == MaxDelay * (LateAfter(a, now) + 1)
           y      == now - window.start + slack2
<1>1. clock \in Nat /\ window.start \in Nat /\ window.start <= clock
  BY Counts
<1>2. /\ slack \in Nat /\ slack2 \in Nat /\ slack2 >= MaxDelay
      /\ slack2 = IF Live(a) /\ now < bucket[a].timestamp THEN slack + MaxDelay ELSE slack
  BY Slack
<1>3. after \in Int /\ after = Taken(a) * Unit + Refilled(a, now) /\ Taken(a) * Unit \in Nat
  BY RunAccounts, RefilledRange DEF IInv
<1>4. y \in Nat
  <2> HIDE DEF slack, slack2
  <2> QED
    BY <1>1, <1>2, Numbers
<1>5. after <= Capacity + Rate * y
  <2>1. CASE Taken(a) = 0
    <3>1. Rate * y \in Nat
      BY <1>4, Numbers
    <3>2. after <= Capacity
      BY <1>3, <2>1, RefilledRange, Numbers DEF IInv
    <3> HIDE DEF after, y
    <3> QED
      BY <3>1, <3>2, <1>3, Numbers
  <2>2. CASE Taken(a) # 0
    <3> DEFINE x == bucket[a].timestamp - window.start + slack
    <3>1. /\ bucket[a] \in Bucket /\ bucket[a] # NoBucket
          /\ bucket[a].tokens \in 0..Capacity /\ bucket[a].timestamp \in Nat
          /\ bucket[a].touched \in Nat
          /\ bucket[a].timestamp <= bucket[a].touched /\ bucket[a].touched <= clock
      BY <2>2, Numbers DEF IInv, SpentBound, TypeOK, Bucket, StampBehind
    <3>2. before <= Capacity + Rate * x
      BY <2>2 DEF IInv, SpentBound
    <3>3. x \in Int /\ before \in Int
      <4> HIDE DEF slack
      <4> QED
        BY <1>1, <1>2, <1>3, <3>1
    <3>4. after <= before + Rate * (y - x)
      <4>1. CASE Live(a) /\ now < bucket[a].timestamp
        <5>1. y - x \in Nat
          <6>1. y - x = now - bucket[a].timestamp + MaxDelay
            <7> HIDE DEF slack, slack2
            <7> QED
              BY <4>1, <1>1, <1>2, <3>1, Numbers
          <6> QED
            BY <6>1, <3>1, <1>1, Numbers
        <5>2. Rate * (y - x) \in Nat
          BY <5>1, Numbers
        <5>3. after = before
          BY <4>1, <1>3, RefilledLate DEF IInv
        <5> HIDE DEF x, y, before, after
        <5> QED
          BY <5>2, <5>3, <3>3
      <4>2. CASE Live(a) /\ now >= bucket[a].timestamp
        <5> DEFINE m == Rate * (now - bucket[a].timestamp)
        <5>1. y - x = now - bucket[a].timestamp
          <6> HIDE DEF slack, slack2
          <6> QED
            BY <4>2, <1>1, <1>2, <3>1, Numbers
        <5>2. m \in Nat /\ Refilled(a, now) = Least(Capacity, bucket[a].tokens + m)
          BY <4>2, RefilledCurrent DEF IInv
        <5>3. Rate * (y - x) = m
          BY <5>1
        <5>4. after <= before + m
          <6> HIDE DEF m
          <6>1. Refilled(a, now) <= bucket[a].tokens + m
            BY <5>2, <3>1, Numbers DEF Least
          <6>2. Refilled(a, now) \in Int
            BY <5>2, <3>1, Numbers DEF Least
          <6> QED
            BY <6>1, <6>2, <5>2, <1>3, <3>1
        <5> HIDE DEF m, x, y, before, after
        <5> QED
          BY <5>3, <5>4
      <4>3. CASE ~Live(a)
        <5>1. y - x = now - bucket[a].timestamp
          <6> HIDE DEF slack, slack2
          <6> QED
            BY <4>3, <1>1, <1>2, <3>1, Numbers
        <5>2. Expiry - MaxDelay <= now - bucket[a].timestamp
          BY <4>3, <3>1, <1>1, Numbers DEF Live
        <5>3. Rate * (Expiry - MaxDelay) <= Rate * (y - x)
          BY <5>1, <5>2, <3>1, Numbers, Monotone
        <5>4. Rate * (Expiry - MaxDelay) \in Int /\ Rate * (y - x) \in Int
          BY <5>1, <3>1, Numbers, Distribute
        <5>5. after = Taken(a) * Unit + Capacity
          BY <4>3, <1>3 DEF Refilled
        <5>6. before >= Taken(a) * Unit
          BY <1>3, <3>1
        <5> HIDE DEF x, y, before, after
        <5> QED
          BY <5>3, <5>4, <5>5, <5>6, <3>3, <1>3, ExpiryAssumption, Numbers
      <4> QED
        BY <4>1, <4>2, <4>3, <3>1
    <3> HIDE DEF x, y, before, after
    <3> QED
      BY <1>3, <1>4, <3>2, <3>3, <3>4, Within, Numbers
  <2> QED
    BY <2>1, <2>2
<1> QED
  BY <1>5

\* A run loses no refill.
LEMMA RunLosesNothing ==
  ASSUME IInv, NEW a \in Addresses, NEW now \in Nat, now <= clock
  PROVE  /\ Refilled(a, now) + Taken(a) * Unit >= Least(Capacity, Rate * (now - window.start))
         /\ Left(a, now) + TakenAfter(a, now) * Unit
              >= Least(Capacity, Rate * (now - window.start))
<1> DEFINE n == Taken(a) * Unit
           q == Rate * (now - window.start)
<1>1. clock \in Nat /\ window.start \in Nat
  BY Counts
<1>2. n \in Nat
  BY RunAccounts
<1>3. q \in Int
  BY <1>1, Distribute, Numbers
<1>4. Refilled(a, now) \in 0..Capacity
  BY RefilledRange DEF IInv
<1>5. Refilled(a, now) + n >= Least(Capacity, q)
  <2>1. CASE ~Live(a)
    <3>1. Refilled(a, now) = Capacity
      BY <2>1 DEF Refilled
    <3> HIDE DEF n, q
    <3> QED
      BY <3>1, <1>2, <1>3, Numbers DEF Least
  <2>2. CASE Live(a)
    <3> DEFINE old == Rate * (bucket[a].timestamp - window.start)
    <3>1. /\ bucket[a] # NoBucket /\ bucket[a].tokens \in 0..Capacity
          /\ bucket[a].timestamp \in Nat
      BY <2>2, LiveBucket DEF IInv
    <3>2. bucket[a].tokens + n >= Least(Capacity, old) /\ old \in Int
      BY <3>1, <1>1, Distribute, Numbers DEF IInv, NothingLost
    <3>3. CASE now < bucket[a].timestamp
      <4>1. now - window.start <= bucket[a].timestamp - window.start
        BY <3>3, <3>1, <1>1
      <4>2. q <= old
        BY <4>1, <3>1, <1>1, Monotone, Numbers
      <4>3. Refilled(a, now) = bucket[a].tokens
        BY <2>2, <3>3, RefilledLate DEF IInv
      <4> HIDE DEF n, q, old
      <4> QED
        BY <4>2, <4>3, <3>2, <3>1, <1>2, <1>3, Numbers DEF Least
    <3>4. CASE now >= bucket[a].timestamp
      <4> DEFINE m == Rate * (now - bucket[a].timestamp)
      <4>1. m \in Nat /\ Refilled(a, now) = Least(Capacity, bucket[a].tokens + m)
        BY <2>2, <3>4, RefilledCurrent DEF IInv
      <4>2. q = old + m
        <5>1. now - window.start
                = (bucket[a].timestamp - window.start) + (now - bucket[a].timestamp)
          BY <3>1, <1>1
        <5> QED
          BY <5>1, <3>1, <1>1, Distribute, Numbers
      <4> HIDE DEF n, q, old, m
      <4> QED
        BY <4>1, <4>2, <3>2, <3>1, <1>2, <1>3, Numbers DEF Least
    <3> QED
      BY <3>1, <3>3, <3>4
  <2> QED
    BY <2>1, <2>2
<1>6. Left(a, now) \in 0..Capacity /\ TakenAfter(a, now) * Unit \in Nat
      /\ TakenAfter(a, now) * Unit + Left(a, now) = n + Refilled(a, now)
  BY RunAccounts, RefilledRange DEF IInv
<1> HIDE DEF q
<1>7. Left(a, now) + TakenAfter(a, now) * Unit = Refilled(a, now) + n
  <2> DEFINE k == TakenAfter(a, now) * Unit
  <2> HIDE DEF k, n
  <2> QED
    BY <1>2, <1>4, <1>6, Numbers DEF k
<1> QED
  BY <1>5, <1>7 DEF q

-----------------------------------------------------------------------------
\* A run keeps the part of the invariant that is about buckets.
LEMMA RunInv ==
  ASSUME IInv, NEW a \in Addresses, NEW now \in 0..MaxClock,
         now <= clock, clock <= now + MaxDelay, RunTakes(a, now)
  PROVE  /\ bucket' \in [Addresses -> Bucket \cup {NoBucket}]
         /\ granted' \in [Addresses -> Nat]
         /\ late' \in [Addresses -> 0..MaxLate]
         /\ clock' = clock /\ window' = window
         /\ StampBehind' /\ WindowPast' /\ SpentBound' /\ NothingLost'
<1> USE Numbers
<1>1. now \in Nat /\ clock \in 0..MaxClock
  BY DEF IInv, TypeOK
<1> DEFINE new == [tokens |-> Left(a, now), timestamp |-> now, touched |-> clock]
<1>2. /\ clock' = clock /\ window' = window
      /\ bucket' = [bucket EXCEPT ![a] = new]
      /\ \A b \in Addresses :
           /\ bucket'[b] = IF b = a THEN new ELSE bucket[b]
           /\ granted'[b] - window'.granted[b] = IF b = a THEN TakenAfter(a, now) ELSE Taken(b)
           /\ late'[b] - window'.late[b] = IF b = a THEN LateAfter(a, now) ELSE LateIn(b)
  BY <1>1, RunEffect
<1>3. new \in Bucket /\ new # NoBucket
  BY <1>1, RefilledRange DEF IInv, Bucket, NoBucket
<1>4. bucket' \in [Addresses -> Bucket \cup {NoBucket}]
  BY <1>2, <1>3 DEF IInv, TypeOK
<1>5. granted' \in [Addresses -> Nat]
  BY DEF IInv, TypeOK, RunTakes
<1>6. late' \in [Addresses -> 0..MaxLate]
  BY DEF IInv, TypeOK, RunTakes, Run, CountLate
<1>7. StampBehind'
  BY <1>1, <1>2 DEF IInv, StampBehind
<1>8. WindowPast'
  BY <1>2 DEF IInv, TypeOK, WindowPast, RunTakes, Run, CountLate
<1>9. SpentBound'
  <2> SUFFICES ASSUME NEW b \in Addresses
               PROVE  \/ granted'[b] - window'.granted[b] = 0
                      \/ /\ bucket'[b] # NoBucket
                         /\ (granted'[b] - window'.granted[b]) * Unit + bucket'[b].tokens
                              <= Capacity + Rate * (bucket'[b].timestamp - window'.start
                                   + MaxDelay * (late'[b] - window'.late[b] + 1))
    BY DEF SpentBound, Taken, LateIn
  <2>1. CASE b = a
    <3>1. TakenAfter(a, now) * Unit + Left(a, now)
            <= Capacity + Rate * (now - window.start + MaxDelay * (LateAfter(a, now) + 1))
      BY <1>1, RunSpent
    <3> QED
      BY <1>2, <1>3, <2>1, <3>1
  <2>2. CASE b # a
    <3>1. /\ bucket'[b] = bucket[b] /\ window' = window
          /\ granted'[b] - window'.granted[b] = Taken(b)
          /\ late'[b] - window'.late[b] = LateIn(b)
      BY <1>2, <2>2
    <3> QED
      BY <3>1 DEF IInv, SpentBound
  <2> QED
    BY <2>1, <2>2
<1>10. NothingLost'
  <2> SUFFICES ASSUME NEW b \in Addresses, bucket'[b] # NoBucket
               PROVE  bucket'[b].tokens + (granted'[b] - window'.granted[b]) * Unit
                        >= Least(Capacity, Rate * (bucket'[b].timestamp - window'.start))
    BY DEF NothingLost, Taken, Least
  <2>1. CASE b = a
    <3>1. Left(a, now) + TakenAfter(a, now) * Unit
            >= Least(Capacity, Rate * (now - window.start))
      BY <1>1, RunLosesNothing
    <3> QED
      BY <1>2, <2>1, <3>1
  <2>2. CASE b # a
    <3>1. /\ bucket'[b] = bucket[b] /\ window' = window
          /\ granted'[b] - window'.granted[b] = Taken(b)
      BY <1>2, <2>2
    <3> QED
      BY <3>1 DEF IInv, NothingLost
  <2> QED
    BY <2>1, <2>2
<1> QED
  BY <1>2, <1>4, <1>5, <1>6, <1>7, <1>8, <1>9, <1>10

-----------------------------------------------------------------------------
LEMMA InitInv == Init => IInv
BY Numbers DEF Init, IInv, TypeOK, StampBehind, ReadingRecent, WindowPast, SpentBound, NothingLost,
   Taken, NoBucket, NoCall

\* The reading of a call in flight can be trusted as RunInv asks.
LEMMA Reading ==
  ASSUME IInv, NEW u \in Users, call[u] # NoCall
  PROVE  /\ Address[u] \in Addresses /\ call[u] \in 0..MaxClock
         /\ call[u] <= clock /\ clock <= call[u] + MaxDelay
BY RateLimitAssumption DEF IInv, TypeOK, ReadingRecent

\* After a run for u, its call is over or goes on unchanged.
LEMMA CallRunInv ==
  ASSUME IInv, NEW u \in Users, call[u] # NoCall, RunTakes(Address[u], call[u]),
         call' = call \/ call' = [call EXCEPT ![u] = NoCall],
         answer' \in [Users -> {"none", "pending", "allowed", "limited"}]
  PROVE  IInv'
<1> DEFINE a == Address[u]
<1>1. /\ a \in Addresses /\ call[u] \in 0..MaxClock
      /\ call[u] <= clock /\ clock <= call[u] + MaxDelay
  BY Reading
<1>2. /\ bucket' \in [Addresses -> Bucket \cup {NoBucket}]
      /\ granted' \in [Addresses -> Nat]
      /\ late' \in [Addresses -> 0..MaxLate]
      /\ clock' = clock /\ window' = window
      /\ StampBehind' /\ WindowPast' /\ SpentBound' /\ NothingLost'
  <2> HIDE DEF a
  <2> QED
    BY <1>1, RunInv DEF a
<1>3. TypeOK'
  BY <1>2, Numbers DEF IInv, TypeOK
<1>4. ReadingRecent'
  BY <1>2, Numbers DEF IInv, TypeOK, ReadingRecent, NoCall
<1> QED
  BY <1>2, <1>3, <1>4 DEF IInv

\* A step that leaves buckets, counts and the window alone.
LEMMA QuietInv ==
  ASSUME IInv, UNCHANGED <<bucket, granted, late, window>>,
         clock' \in 0..MaxClock, clock <= clock',
         call' \in [Users -> 0..MaxClock \cup {NoCall}], ReadingRecent',
         answer' \in [Users -> {"none", "pending", "allowed", "limited"}]
  PROVE  IInv'
<1>1. TypeOK'
  BY DEF IInv, TypeOK
<1>2. StampBehind'
  BY Numbers DEF IInv, TypeOK, StampBehind, Bucket
<1>3. WindowPast'
  BY Numbers DEF IInv, TypeOK, WindowPast
<1>4. SpentBound' /\ NothingLost'
  BY DEF IInv, SpentBound, NothingLost, Taken, LateIn, Least
<1> QED
  BY <1>1, <1>2, <1>3, <1>4 DEF IInv

LEMMA NextInv == IInv /\ [Next]_vars => IInv'
<1> SUFFICES ASSUME IInv, [Next]_vars
             PROVE  IInv'
  OBVIOUS
<1>1. ASSUME NEW u \in Users, Call(u)
      PROVE  IInv'
  <2>1. ReadingRecent'
    BY <1>1, Numbers DEF Call, IInv, TypeOK, ReadingRecent, NoCall
  <2> QED
    BY <1>1, <2>1, QuietInv, Numbers DEF Call, IInv, TypeOK
<1>2. ASSUME NEW u \in Users, Grant(u)
      PROVE  IInv'
  <2>1. call[u] # NoCall /\ RunTakes(Address[u], call[u])
    BY <1>2 DEF Grant, RunTakes, Take
  <2>2. /\ call' = [call EXCEPT ![u] = NoCall]
        /\ answer' \in [Users -> {"none", "pending", "allowed", "limited"}]
    BY <1>2 DEF Grant, Take, IInv, TypeOK
  <2> QED
    BY <2>1, <2>2, CallRunInv
<1>3. ASSUME NEW u \in Users, Limit(u)
      PROVE  IInv'
  BY <1>3, CallRunInv DEF Limit, RunTakes, IInv, TypeOK
<1>4. ASSUME NEW u \in Users, AnswerLost(u)
      PROVE  IInv'
  BY <1>4, CallRunInv DEF AnswerLost, RunTakes, Take, IInv, TypeOK
<1>5. ASSUME NEW u \in Users, FailOpen(u)
      PROVE  IInv'
  <2>1. ReadingRecent'
    BY <1>5 DEF FailOpen, IInv, TypeOK, ReadingRecent
  <2> QED
    BY <1>5, <2>1, QuietInv, Numbers DEF FailOpen, IInv, TypeOK
<1>6. CASE Tick
  <2>1. ReadingRecent'
    BY <1>6, Numbers DEF Tick, IInv, TypeOK, ReadingRecent, NoCall
  <2> QED
    BY <1>6, <2>1, QuietInv, Numbers DEF Tick, IInv, TypeOK
<1>7. CASE OpenWindow
  <2>1. TypeOK' /\ StampBehind' /\ ReadingRecent' /\ WindowPast'
    BY <1>7, Numbers DEF OpenWindow, IInv, TypeOK, StampBehind, ReadingRecent, WindowPast
  <2>2. \A a \in Addresses : granted'[a] - window'.granted[a] = 0
    BY <1>7 DEF OpenWindow, IInv, TypeOK
  <2>3. SpentBound'
    BY <2>2 DEF SpentBound, Taken
  <2>4. NothingLost'
    <3> SUFFICES ASSUME NEW a \in Addresses, bucket[a] # NoBucket
                 PROVE  bucket[a].tokens + (granted'[a] - window'.granted[a]) * Unit
                          >= Least(Capacity, Rate * (bucket[a].timestamp - window'.start))
      BY <1>7 DEF OpenWindow, NothingLost, Taken, Least
    <3>1. window'.start = clock /\ clock \in Nat
      BY <1>7, Numbers DEF OpenWindow, IInv, TypeOK
    <3>2. bucket[a].tokens \in Nat /\ bucket[a].timestamp \in Nat /\ bucket[a].touched \in Nat
      BY Numbers DEF IInv, TypeOK, Bucket
    <3>3. bucket[a].timestamp - window'.start <= 0
      BY <3>1, <3>2 DEF IInv, StampBehind
    <3> DEFINE q == Rate * (bucket[a].timestamp - window'.start)
    <3>4. q <= Rate * 0 /\ q \in Int
      BY <3>1, <3>2, <3>3, Monotone, Distribute, Numbers
    <3> HIDE DEF q
    <3>5. Least(Capacity, q) <= 0
      BY <3>4, Numbers DEF Least
    <3>6. (granted'[a] - window'.granted[a]) * Unit = 0
      BY <2>2, Numbers
    <3> QED
      BY <3>2, <3>4, <3>5, <3>6, Numbers DEF q, Least
  <2> QED
    BY <2>1, <2>3, <2>4 DEF IInv
<1>8. CASE UNCHANGED vars
  <2>1. ReadingRecent'
    BY <1>8 DEF vars, IInv, ReadingRecent
  <2> QED
    BY <1>8, <2>1, QuietInv, Numbers DEF vars, IInv, TypeOK
<1> QED
  BY <1>1, <1>2, <1>3, <1>4, <1>5, <1>6, <1>7, <1>8 DEF Next

LEMMA InductiveInv == Spec => []IInv
BY InitInv, NextInv, PTL DEF Spec

-----------------------------------------------------------------------------
\* A bucket never holds less than nothing or more than its capacity, whatever the
\* order in which clock readings reach it.
THEOREM TypeCorrect == Spec => []TypeOK
<1>1. IInv => TypeOK
  BY DEF IInv
<1> QED
  BY <1>1, InductiveInv, PTL

\* No window of time sees more than the capacity and the refill go through.
THEOREM WindowBounded == Spec => []WindowBound
<1>1. IInv => WindowBound
  <2> SUFFICES ASSUME IInv, NEW a \in Addresses
               PROVE  Taken(a) * Unit
                        <= Capacity + Rate * (clock - window.start + MaxDelay * (LateIn(a) + 1))
    BY DEF WindowBound
  <2> DEFINE slack == MaxDelay * (LateIn(a) + 1)
             y     == clock - window.start + slack
  <2>1. /\ clock \in Nat /\ window.start \in Nat /\ window.start <= clock
        /\ Taken(a) \in Nat /\ LateIn(a) \in Nat
    BY Counts
  <2>2. slack \in Nat
    BY <2>1, Numbers
  <2>3. y \in Nat
    <3> HIDE DEF slack
    <3> QED
      BY <2>1, <2>2
  <2>4. Rate * y \in Nat /\ Taken(a) * Unit \in Nat
    BY <2>1, <2>3, Numbers
  <2>5. Taken(a) * Unit <= Capacity + Rate * y
    <3>1. CASE Taken(a) = 0
      <4>1. Taken(a) * Unit = 0
        BY <3>1, Numbers
      <4> HIDE DEF y
      <4> QED
        BY <4>1, <2>4, Numbers
    <3>2. CASE Taken(a) # 0
      <4> DEFINE x == bucket[a].timestamp - window.start + slack
      <4>1. /\ bucket[a].tokens \in Nat /\ bucket[a].timestamp \in Nat
            /\ bucket[a].touched \in Nat
            /\ bucket[a].timestamp <= bucket[a].touched /\ bucket[a].touched <= clock
        BY <3>2, Numbers DEF IInv, SpentBound, TypeOK, Bucket, StampBehind
      <4>2. Taken(a) * Unit + bucket[a].tokens <= Capacity + Rate * x
        BY <3>2 DEF IInv, SpentBound
      <4>3. x \in Int /\ x <= y
        <5> HIDE DEF slack
        <5> QED
          BY <4>1, <2>1, <2>2
      <4>4. Rate * x <= Rate * y /\ Rate * x \in Int
        <5> HIDE DEF x, y
        <5> QED
          BY <4>3, <2>3, Monotone, Distribute, Numbers
      <4> HIDE DEF x, y
      <4> QED
        BY <4>1, <4>2, <4>4, <2>4, Numbers
    <3> QED
      BY <3>1, <3>2
  <2> QED
    BY <2>5
<1> QED
  BY <1>1, InductiveInv, PTL

\* A request is refused only when the refill of any window up to it is spent.
THEOREM RefusedWhenSpent == Spec => LimitedOnlyWhenSpent
<1> DEFINE Refusal ==
      \A u \in Users :
        answer[u] # "limited" /\ answer'[u] = "limited"
          => (Taken(Address[u]) + 1) * Unit > Least(Capacity, Rate * (call[u] - window.start))
<1>1. IInv /\ [Next]_vars => [Refusal]_vars
  <2> SUFFICES ASSUME IInv, [Next]_vars, NEW u \in Users,
                      answer[u] # "limited", answer'[u] = "limited"
               PROVE  (Taken(Address[u]) + 1) * Unit
                        > Least(Capacity, Rate * (call[u] - window.start))
    OBVIOUS
  <2>1. Limit(u)
    BY DEF Next, vars, IInv, TypeOK, Call, Grant, Limit, AnswerLost, FailOpen, Tick, OpenWindow
  <2> DEFINE a == Address[u]
             n == Taken(a) * Unit
             q == Rate * (call[u] - window.start)
  <2>2. /\ a \in Addresses /\ call[u] \in 0..MaxClock
        /\ call[u] <= clock /\ call[u] \in Nat
    BY <2>1, Reading, Numbers DEF Limit
  <2>3. Refilled(a, call[u]) < Unit
    BY <2>1, <2>2, RefilledRange, Numbers DEF Limit, Allows, IInv
  <2>4. Refilled(a, call[u]) + n >= Least(Capacity, q) /\ Refilled(a, call[u]) \in Int
    BY <2>2, RunLosesNothing, RefilledRange DEF IInv
  <2>5. n \in Nat /\ (Taken(a) + 1) * Unit = n + Unit
    BY <2>2, Counts, Numbers
  <2>6. Least(Capacity, q) \in Int
    BY <2>2, Counts, Distribute, Numbers DEF Least
  <2> HIDE DEF n, q
  <2> QED
    BY <2>3, <2>4, <2>5, <2>6, Numbers DEF q
<1> QED
  BY <1>1, InductiveInv, PTL DEF Spec, LimitedOnlyWhenSpent

=============================================================================
