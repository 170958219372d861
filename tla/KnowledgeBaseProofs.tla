------------------------- MODULE KnowledgeBaseProofs -------------------------
(* For any text, window and overlap the chunks lose no word and none is       *)
(* redundant.  For any number of articles, workers, retries and faults the    *)
(* table holds whole indexings only, an article once searchable stays so, and *)
(* its chunks are there twice only through a delivery while its task ran.     *)
(* What makes that inductive is that what a transaction has deleted, or is    *)
(* about to delete, are whole indexings of its own article, which no other    *)
(* transaction is deleting; and that any running deletions of an article,     *)
(* with the indexings none of them will remove, are no more than the article  *)
(* has deliveries.  Drafts stand on that: what a search retrieved were rows   *)
(* of stored articles, and a piece is replaced by the same piece only.        *)
EXTENDS Drafting, FiniteSetTheorems, TLAPS

-----------------------------------------------------------------------------
LEMMA StepFacts == Step \in Nat /\ Step >= 1 /\ Step <= ChunkSize /\ ChunkSize \in Nat
BY ChunkingAssumption DEF Step

\* The starts of the windows grow with their numbers.
LEMMA StartsGrow ==
  ASSUME NEW j \in Nat, NEW k \in Nat, j <= k
  PROVE  Step * j \in Nat /\ Step * k \in Nat /\ Step * j <= Step * k
<1>1. PICK s \in Nat : s = Step /\ s >= 1
  BY StepFacts
<1>2. k - j \in Nat /\ s * (k - j) >= 0
  BY <1>1
<1>3. s * k = s * j + s * (k - j)
  BY <1>1
<1>4. s * j \in Nat /\ s * k \in Nat
  BY <1>1
<1> QED
  BY <1>1, <1>2, <1>3, <1>4

\* The next start is a step further on.
LEMMA NextStart == ASSUME NEW k \in Nat PROVE Step * (k + 1) = Step * k + Step
<1>1. PICK s \in Nat : s = Step
  BY StepFacts
<1>2. s * (k + 1) = s * k + s
  BY <1>1
<1> QED
  BY <1>1, <1>2

\* A start is not before its number.
LEMMA StartsAhead == ASSUME NEW k \in Nat PROVE k <= Step * k
<1>1. PICK s \in Nat : s = Step /\ s >= 1
  BY StepFacts
<1>2. s * k = k + (s - 1) * k /\ (s - 1) * k >= 0
  BY <1>1
<1> QED
  BY <1>1, <1>2

LEMMA Quotient ==
  ASSUME NEW a \in Nat, NEW b \in Nat, b > 0
  PROVE  \E q \in Nat : b * q <= a /\ a < b * q + b
<1>1. a \div b \in Nat /\ b * (a \div b) <= a /\ a < b * (a \div b) + b
  OBVIOUS
<1> QED
  BY <1>1

\* The window that ends at word w, or the one before it, is a piece.
LEMMA CoversText == ASSUME NEW n \in Nat PROVE Covers(n)
<1> SUFFICES ASSUME NEW w \in 1..n
             PROVE  \E k \in Pieces(n) : w \in Window(n, k)
  BY DEF Covers
<1> USE StepFacts
<1>1. CASE w <= ChunkSize
  <2>1. Step * 0 = 0
    OBVIOUS
  <2>2. 0 \in Pieces(n)
    BY <2>1 DEF Pieces
  <2>3. w \in Window(n, 0)
    BY <1>1, <2>1 DEF Window
  <2> QED
    BY <2>2, <2>3
<1>2. CASE w > ChunkSize
  <2>1. w - ChunkSize - 1 \in Nat
    BY <1>2
  <2>1a. Step \in Nat /\ Step > 0
    OBVIOUS
  <2>2. PICK q \in Nat : /\ Step * q <= w - ChunkSize - 1
                         /\ w - ChunkSize - 1 < Step * q + Step
    BY <2>1, <2>1a, Quotient
  <2> DEFINE k == q + 1
  <2>3. k \in Nat /\ Step * k = Step * q + Step /\ Step * q \in Nat
    BY <2>2, NextStart, StartsGrow
  <2>4. Step * k < w /\ w <= Step * k + ChunkSize
    BY <2>2, <2>3, ChunkingAssumption DEF Step
  <2>5. k <= Step * k
    BY <2>3, StartsAhead
  <2>6. \A j \in 0..(k - 1) : ~EndsText(n, j)
    <3> SUFFICES ASSUME NEW j \in 0..(k - 1) PROVE ~(Step * j + ChunkSize >= n)
      BY DEF EndsText
    <3>1. j \in Nat /\ j <= q
      OBVIOUS
    <3>2. Step * j \in Nat /\ Step * j <= Step * q
      BY <3>1, StartsGrow
    <3> QED
      BY <2>2, <2>3, <3>2
  <2>7. k \in 0..n /\ Step * k < n
    BY <2>3, <2>4, <2>5
  <2>8. k \in Pieces(n)
    BY <2>6, <2>7 DEF Pieces
  <2>9. w \in Window(n, k)
    BY <2>4 DEF Window
  <2> QED
    BY <2>8, <2>9
<1> QED
  BY <1>1, <1>2

LEMMA IrredundantText == ASSUME NEW n \in Nat PROVE Irredundant(n)
<1> SUFFICES ASSUME NEW j \in Pieces(n), NEW k \in Pieces(n), j # k
             PROVE  \E w \in Window(n, j) : w \notin Window(n, k)
  BY DEF Irredundant
<1> USE StepFacts
<1>1. /\ j \in Nat /\ k \in Nat /\ Step * j \in Nat /\ Step * k \in Nat
      /\ Step * j < n /\ Step * k < n
  BY StartsGrow DEF Pieces
<1>2. CASE j < k
  <2>1. Step * (j + 1) <= Step * k /\ Step * (j + 1) = Step * j + Step
    BY <1>1, <1>2, StartsGrow, NextStart
  <2>2. Step * j + 1 \in Window(n, j)
    BY <1>1 DEF Window
  <2>3. Step * j + 1 \notin Window(n, k)
    BY <1>1, <2>1 DEF Window
  <2> QED
    BY <2>2, <2>3
<1>3. CASE k < j
  <2>1. Step * (k + 1) <= Step * j /\ Step * (k + 1) = Step * k + Step
    BY <1>1, <1>3, StartsGrow, NextStart
  <2>2. ~EndsText(n, k)
    BY <1>1, <1>3 DEF Pieces
  <2>3. Step * k + ChunkSize < n
    BY <1>1, <2>2 DEF EndsText
  <2> DEFINE w == IF n <= Step * j + ChunkSize THEN n ELSE Step * j + ChunkSize
  <2>4. w \in Window(n, j)
    BY <1>1 DEF Window
  <2>5. w \notin Window(n, k)
    BY <1>1, <2>1, <2>3 DEF Window
  <2> QED
    BY <2>4, <2>5
<1> QED
  BY <1>1, <1>2, <1>3

\* Whatever the length of a text, the size of the chunks and their overlap, the
\* chunks of chunk_text lose no word and none lies within another.
THEOREM ChunksAreSound == \A n \in Nat : Covers(n) /\ Irredundant(n)
BY CoversText, IrredundantText

-----------------------------------------------------------------------------
\* S are whole indexings of article a.
Whole(S, a) == \A c \in S : c.article = a /\ New(a, c.by) \subseteq S

\* Every row is a piece of the text of a stored article and comes with the others
\* of its indexing.
RowsSound ==
  \A c \in chunks : /\ Stored(c.article)
                    /\ c.piece \in Pieces(Length[c.article])
                    /\ New(c.article, c.by) \subseteq chunks

\* What the task of slot w will delete, or has deleted, are whole indexings of its
\* article, and the rows it has deleted are its own until it commits.
JobSound(w) ==
  /\ kbJob[w] # NoKbJob => Stored(kbJob[w].msg.article)
  /\ kbJob[w].at = "delete" => Whole(kbJob[w].seen, kbJob[w].msg.article)
  /\ kbJob[w].at = "insert" =>
       /\ Whole(kbJob[w].gone, kbJob[w].msg.article)
       /\ kbJob[w].gone \subseteq chunks
       /\ \A v \in Workers \ {w} :
            kbJob[v].at = "insert" => kbJob[v].gone \cap kbJob[w].gone = {}

KbIInv == KbTypeOK /\ RowsSound /\ \A w \in Workers : JobSound(w)

-----------------------------------------------------------------------------
LEMMA KbBounds == MaxRetries \in Nat /\ Length \in [Articles -> Nat]
BY KbAssumption

LEMMA RunningIndexing ==
  ASSUME KbTypeOK, NEW w \in Workers,
         kbJob[w] # NoKbJob \/ kbJob[w].at \in {"read", "delete", "insert", "ack"}
  PROVE  /\ kbJob[w] \in KbJob /\ kbJob[w] # NoKbJob /\ kbJob[w].msg \in KbMessage
         /\ kbJob[w].msg.article \in Articles
         /\ kbJob[w].seen \subseteq Chunk /\ kbJob[w].gone \subseteq Chunk
BY DEF KbTypeOK, NoKbJob, KbJob, KbMessage

LEMMA NewRows ==
  ASSUME NEW a \in Articles, NEW by \in Nat
  PROVE  /\ New(a, by) \subseteq Chunk
         /\ \A c \in New(a, by) :
              /\ c.article = a /\ c.by = by /\ c.piece \in Pieces(Length[a])
         /\ \A c \in Chunk : c.article = a /\ c.by = by /\ c.piece \in Pieces(Length[a])
              => c \in New(a, by)
<1>1. Length[a] \in Nat
  BY KbBounds
<1>2. Pieces(Length[a]) \subseteq Nat
  BY <1>1 DEF Pieces
<1> QED
  BY <1>2 DEF New, Chunk

LEMMA KbFaultCounts ==
  ASSUME KbTypeOK, NEW kind, KbFault(kind)
  PROVE  kbFaults' \in [IndexFaultKinds -> Nat]
BY KbAssumption DEF KbTypeOK, KbFault

LEMMA PlusKbQueue ==
  ASSUME NEW q \in [KbMessage -> Nat], NEW m \in KbMessage
  PROVE  Plus(q, m) \in [KbMessage -> Nat]
BY DEF Plus

LEMMA RetriedKbQueue ==
  ASSUME NEW q \in [KbMessage -> Nat], NEW m \in KbMessage
  PROVE  Retried(q, m) \in [KbMessage -> Nat]
<1>1. CASE m.tries < MaxRetries
  <2> DEFINE n == [m EXCEPT !.tries = @ + 1]
  <2>1. n \in KbMessage
    BY <1>1, KbBounds DEF KbMessage
  <2>2. Retried(q, m) = Plus(q, n)
    BY <1>1 DEF Retried
  <2> HIDE DEF n
  <2> QED
    BY <2>1, <2>2, PlusKbQueue
<1>2. CASE ~(m.tries < MaxRetries)
  BY <1>2 DEF Retried
<1> QED
  BY <1>1, <1>2

-----------------------------------------------------------------------------
LEMMA KbInitInv == KbInit => KbIInv
BY KbBounds DEF KbInit, KbIInv, KbTypeOK, RowsSound, JobSound, NoKbJob

\* A step that touches no row and at most the job of one slot.
LEMMA JobStep ==
  ASSUME KbIInv, KbTypeOK', chunks' = chunks,
         \A a \in Articles : Stored(a) => Stored(a)',
         NEW w \in Workers, \A v \in Workers \ {w} : kbJob'[v] = kbJob[v],
         JobSound(w)'
  PROVE  KbIInv'
<1>1. RowsSound'
  BY DEF KbIInv, RowsSound, KbTypeOK, Chunk
<1>2. ASSUME NEW v \in Workers \ {w} PROVE JobSound(v)'
  <2>1. kbJob[v] # NoKbJob => Stored(kbJob[v].msg.article)'
    BY RunningIndexing DEF KbIInv, JobSound
  <2>2. kbJob[v].at = "delete" => Whole(kbJob[v].seen, kbJob[v].msg.article)
    BY DEF KbIInv, JobSound
  <2>3. kbJob[v].at = "insert" =>
          /\ Whole(kbJob[v].gone, kbJob[v].msg.article)
          /\ kbJob[v].gone \subseteq chunks
    BY DEF KbIInv, JobSound
  <2>4. ASSUME NEW u \in Workers \ {v}, kbJob[v].at = "insert", kbJob'[u].at = "insert"
        PROVE  kbJob'[u].gone \cap kbJob[v].gone = {}
    <3>1. CASE u = w
      BY <2>4, <3>1 DEF JobSound
    <3>2. CASE u # w
      BY <2>4, <3>2 DEF JobSound, KbIInv
    <3> QED
      BY <3>1, <3>2
  <2> QED
    BY <2>1, <2>2, <2>3, <2>4 DEF JobSound, Stored, Whole
<1> QED
  BY <1>1, <1>2 DEF KbIInv

\* A step of a request leaves rows and tasks alone, and stored articles stored.
LEMMA PostInv ==
  ASSUME KbIInv, NEW a \in Articles,
         PostArticle(a) \/ PostUnqueued(a) \/ CommitArticle(a) \/ LoseArticle(a)
  PROVE  KbIInv'
<1> USE DEF PostArticle, PostUnqueued, CommitArticle, LoseArticle
<1>1. chunks' = chunks /\ kbJob' = kbJob /\ indexings' = indexings
  OBVIOUS
<1>2. /\ kbPost' \in [Articles -> {"new", "open", "done", "lost"}]
      /\ \A b \in Articles : Stored(b) => Stored(b)'
  BY DEF KbIInv, KbTypeOK, Stored
<1>3. kbQueue' \in [KbMessage -> Nat]
  <2>1. [article |-> a, tries |-> 0] \in KbMessage
    BY KbBounds DEF KbMessage
  <2> QED
    BY <2>1, PlusKbQueue DEF KbIInv, KbTypeOK
<1>4. kbFaults' \in [IndexFaultKinds -> Nat]
  BY KbFaultCounts DEF KbIInv, KbTypeOK
<1>5. KbTypeOK'
  BY <1>1, <1>2, <1>3, <1>4 DEF KbIInv, KbTypeOK
<1>6. RowsSound'
  BY <1>1, <1>2 DEF KbIInv, RowsSound, KbTypeOK, Chunk
<1>7. ASSUME NEW w \in Workers PROVE JobSound(w)'
  <2>1. kbJob[w] # NoKbJob => Stored(kbJob[w].msg.article)'
    BY <1>2, RunningIndexing DEF KbIInv, JobSound
  <2> QED
    BY <1>1, <2>1 DEF KbIInv, JobSound, Whole, Stored
<1> QED
  BY <1>5, <1>6, <1>7 DEF KbIInv

\* A step of the task in slot w that touches no row.
LEMMA TaskInv ==
  ASSUME KbIInv, NEW w \in Workers,
         \/ \E m \in KbMessage : Receive(w, m)
         \/ Snapshot(w) \/ Delete(w) \/ Acknowledge(w)
         \/ IndexingFails(w)
  PROVE  KbIInv'
<1> USE DEF KbIInv, KbTypeOK
<1>1. ASSUME NEW m \in KbMessage, Receive(w, m) PROVE KbIInv'
  <2>1. kbQueue' \in [KbMessage -> Nat]
    BY <1>1 DEF Receive, Minus
  <2> DEFINE j == [msg |-> m, at |-> "read", seen |-> {}, gone |-> {}]
  <2>2. j \in KbJob /\ j.msg = m /\ j.at = "read"
    BY DEF KbJob
  <2> HIDE DEF j
  <2>3. CASE Stored(m.article)
    <3>1. /\ \A v \in Workers : kbJob'[v] = IF v = w THEN j ELSE kbJob[v]
          /\ kbJob' \in [Workers -> KbJob \cup {NoKbJob}]
      BY <1>1, <2>2, <2>3 DEF Receive, j
    <3>2. KbTypeOK'
      BY <1>1, <2>1, <3>1 DEF Receive
    <3>3. JobSound(w)'
      BY <1>1, <2>2, <2>3, <3>1 DEF Receive, JobSound, Stored
    <3> QED
      BY <1>1, <3>1, <3>2, <3>3, JobStep DEF Receive, Stored
  <2>4. CASE ~Stored(m.article)
    <3>1. kbJob' = kbJob /\ chunks' = chunks /\ kbPost' = kbPost
      BY <1>1, <2>4 DEF Receive
    <3>2. KbTypeOK'
      BY <1>1, <2>1, <3>1 DEF Receive
    <3>3. JobSound(w)'
      BY <3>1 DEF JobSound, Stored, Whole
    <3> QED
      BY <3>1, <3>2, <3>3, JobStep DEF Stored
  <2> QED
    BY <2>3, <2>4
<1>2. CASE Snapshot(w)
  <2>1. /\ kbJob[w] \in KbJob /\ kbJob[w] # NoKbJob /\ kbJob[w].msg.article \in Articles
    BY <1>2, RunningIndexing DEF Snapshot
  <2> DEFINE a == kbJob[w].msg.article
  <2> DEFINE j == [kbJob[w] EXCEPT !.at = "delete", !.seen = Of(a)]
  <2>2. j \in KbJob /\ j.msg = kbJob[w].msg /\ j.at = "delete" /\ j.seen = Of(a)
    <3>1. Of(a) \subseteq Chunk
      BY DEF Of
    <3> QED
      BY <2>1, <3>1 DEF KbJob
  <2>3. \A v \in Workers : kbJob'[v] = IF v = w THEN j ELSE kbJob[v]
    BY <1>2 DEF Snapshot
  <2>4. kbJob' \in [Workers -> KbJob \cup {NoKbJob}]
    <3>1. kbJob' = [kbJob EXCEPT ![w] = j]
      BY <1>2 DEF Snapshot
    <3> HIDE DEF j
    <3> QED
      BY <2>2, <3>1
  <2>5. Whole(Of(a), a)
    <3>1. ASSUME NEW c \in Of(a) PROVE New(a, c.by) \subseteq Of(a)
      <4>1. c \in chunks /\ c.article = a /\ c.by \in Nat
        BY DEF Of, Chunk
      <4>2. New(a, c.by) \subseteq chunks
        BY <4>1 DEF RowsSound
      <4>3. \A d \in New(a, c.by) : d.article = a
        BY <2>1, <4>1, NewRows
      <4> QED
        BY <4>2, <4>3 DEF Of
    <3> QED
      BY <3>1 DEF Whole, Of
  <2>6. KbTypeOK'
    BY <1>2, <2>4 DEF Snapshot
  <2>7. kbPost' = kbPost /\ chunks' = chunks
    BY <1>2 DEF Snapshot
  <2>8. Stored(a)
    BY <2>1 DEF JobSound
  <2>9. JobSound(w)'
    <3>1. kbJob'[w].msg.article = a /\ kbJob'[w].at = "delete" /\ kbJob'[w].seen = Of(a)
      BY <2>2, <2>3
    <3> HIDE DEF a
    <3> QED
      BY <2>5, <2>7, <2>8, <3>1 DEF JobSound, Stored, Whole
  <2> HIDE DEF j, a
  <2> QED
    BY <2>3, <2>6, <2>7, <2>9, JobStep DEF Stored
<1>3. CASE Delete(w)
  <2>1. /\ kbJob[w] \in KbJob /\ kbJob[w] # NoKbJob /\ kbJob[w].msg.article \in Articles
        /\ kbJob[w].seen \subseteq Chunk
    BY <1>3, RunningIndexing DEF Delete
  <2> DEFINE a == kbJob[w].msg.article
  <2> DEFINE g == kbJob[w].seen \cap chunks
  <2> DEFINE j == [kbJob[w] EXCEPT !.at = "insert", !.gone = g]
  <2>2. j \in KbJob /\ j.msg = kbJob[w].msg /\ j.at = "insert" /\ j.gone = g
    BY <2>1 DEF KbJob
  <2>3. \A v \in Workers : kbJob'[v] = IF v = w THEN j ELSE kbJob[v]
    BY <1>3 DEF Delete
  <2>4. kbJob' \in [Workers -> KbJob \cup {NoKbJob}]
    <3>1. kbJob' = [kbJob EXCEPT ![w] = j]
      BY <1>3 DEF Delete
    <3> HIDE DEF j
    <3> QED
      BY <2>2, <3>1
  <2>5. Whole(g, a)
    <3>1. Whole(kbJob[w].seen, a)
      BY <1>3 DEF Delete, JobSound
    <3>2. ASSUME NEW c \in g PROVE c.article = a /\ New(a, c.by) \subseteq g
      BY <3>1 DEF Whole, RowsSound
    <3> QED
      BY <3>2 DEF Whole
  <2>6. KbTypeOK'
    BY <1>3, <2>4 DEF Delete
  <2>7. kbPost' = kbPost /\ chunks' = chunks
    BY <1>3 DEF Delete
  <2>8. Stored(a)
    BY <2>1 DEF JobSound
  <2>9. \A v \in Workers \ {w} : kbJob[v].at = "insert" => kbJob[v].gone \cap g = {}
    BY <1>3 DEF Delete
  <2>10. JobSound(w)'
    <3>1. kbJob'[w].msg.article = a /\ kbJob'[w].at = "insert" /\ kbJob'[w].gone = g
      BY <2>2, <2>3
    <3>2. g \subseteq chunks /\ \A v \in Workers \ {w} : kbJob'[v] = kbJob[v]
      BY <2>3
    <3> HIDE DEF a, g
    <3> QED
      BY <2>5, <2>7, <2>8, <2>9, <3>1, <3>2 DEF JobSound, Stored, Whole
  <2> HIDE DEF j, a, g
  <2> QED
    BY <2>3, <2>6, <2>7, <2>10, JobStep DEF Stored
<1>4. CASE Acknowledge(w) \/ IndexingFails(w)
  <2>1. kbJob[w] # NoKbJob /\ kbJob[w].msg \in KbMessage
    BY <1>4, RunningIndexing
       DEF Acknowledge, IndexingFails, IndexingRaises, WorkerDies, IndexingKilled, End, Redeliver
  <2>2. /\ \A v \in Workers \ {w} : kbJob'[v] = kbJob[v]
        /\ kbJob'[w] = NoKbJob \/ kbJob' = kbJob
        /\ kbJob' \in [Workers -> KbJob \cup {NoKbJob}]
    BY <1>4
       DEF Acknowledge, IndexingFails, IndexingRaises, WorkerDies, IndexingKilled, End, Redeliver
  <2>3. chunks' = chunks /\ kbPost' = kbPost /\ indexings' = indexings
    BY <1>4
       DEF Acknowledge, IndexingFails, IndexingRaises, WorkerDies, IndexingKilled, End, Redeliver
  <2>4. kbQueue' \in [KbMessage -> Nat]
    BY <1>4, <2>1, PlusKbQueue, RetriedKbQueue
       DEF Acknowledge, IndexingFails, IndexingRaises, WorkerDies, IndexingKilled, End, Redeliver
  <2>5. kbFaults' \in [IndexFaultKinds -> Nat]
    BY <1>4, KbFaultCounts
       DEF Acknowledge, IndexingFails, IndexingRaises, WorkerDies, IndexingKilled, End, Redeliver
  <2>6. KbTypeOK'
    BY <2>2, <2>3, <2>4, <2>5
  <2>7. JobSound(w)'
    BY <2>2, <2>3 DEF JobSound, NoKbJob, Stored, Whole
  <2> QED
    BY <2>2, <2>3, <2>6, <2>7, JobStep DEF Stored
<1> QED
  BY <1>1, <1>2, <1>3, <1>4

\* The commit takes whole indexings out of the table and puts a whole one in.
LEMMA CommitInv ==
  ASSUME KbIInv, NEW w \in Workers, CommitIndexing(w)
  PROVE  KbIInv'
<1> USE DEF KbIInv, KbTypeOK
<1>1. /\ kbJob[w] \in KbJob /\ kbJob[w] # NoKbJob /\ kbJob[w].msg.article \in Articles
  BY RunningIndexing DEF CommitIndexing
<1> DEFINE a == kbJob[w].msg.article
<1> DEFINE n == indexings + 1
<1> DEFINE g == kbJob[w].gone
<1>2. /\ chunks' = (chunks \ g) \cup New(a, n) /\ n \in Nat
      /\ kbPost' = kbPost /\ indexings' = n
  BY DEF CommitIndexing
<1>3. Stored(a) /\ Whole(g, a) /\ g \subseteq chunks
  BY <1>1 DEF CommitIndexing, JobSound
<1>4. /\ New(a, n) \subseteq Chunk
      /\ \A c \in New(a, n) : c.article = a /\ c.by = n /\ c.piece \in Pieces(Length[a])
  BY <1>1, <1>2, NewRows
<1>5. RowsSound'
  <2>1. ASSUME NEW c \in New(a, n)
        PROVE  /\ Stored(c.article)' /\ c.piece \in Pieces(Length[c.article])
               /\ New(c.article, c.by) \subseteq chunks'
    BY <1>2, <1>3, <1>4 DEF Stored
  <2>2. ASSUME NEW c \in chunks \ g
        PROVE  /\ Stored(c.article)' /\ c.piece \in Pieces(Length[c.article])
               /\ New(c.article, c.by) \subseteq chunks'
    <3>1. /\ c \in Chunk /\ c.article \in Articles /\ c.by \in Nat
          /\ c.piece \in Pieces(Length[c.article])
          /\ Stored(c.article) /\ New(c.article, c.by) \subseteq chunks
      BY DEF RowsSound, Chunk
    <3>2. ASSUME NEW d \in New(c.article, c.by), d \in g PROVE FALSE
      <4>1. d.article = c.article /\ d.by = c.by
        BY <3>1, NewRows
      <4>2. c.article = a /\ New(a, c.by) \subseteq g
        BY <1>3, <3>2, <4>1 DEF Whole
      <4>3. c \in New(a, c.by)
        BY <3>1, <4>2, NewRows
      <4> QED
        BY <4>2, <4>3
    <3> QED
      BY <1>2, <3>1, <3>2 DEF Stored
  <2> QED
    BY <1>2, <2>1, <2>2 DEF RowsSound
<1>6. /\ \A v \in Workers \ {w} : kbJob'[v] = kbJob[v]
      /\ kbJob'[w] = [kbJob[w] EXCEPT !.at = "ack"]
      /\ kbJob' \in [Workers -> KbJob \cup {NoKbJob}]
  <2>1. [kbJob[w] EXCEPT !.at = "ack"] \in KbJob
    BY <1>1 DEF KbJob
  <2>2. kbJob' = [kbJob EXCEPT ![w] = [kbJob[w] EXCEPT !.at = "ack"]]
    BY DEF CommitIndexing
  <2> QED
    BY <2>1, <2>2
<1>7. KbTypeOK'
  BY <1>2, <1>4, <1>6 DEF CommitIndexing
<1>8. JobSound(w)'
  <2>1. kbJob'[w].at = "ack" /\ kbJob'[w].msg.article = a
    BY <1>1, <1>6 DEF KbJob
  <2> QED
    BY <1>2, <1>3, <2>1 DEF JobSound, Stored
<1>9. ASSUME NEW v \in Workers \ {w} PROVE JobSound(v)'
  <2>1. kbJob'[v] = kbJob[v] /\ JobSound(v)
    BY <1>6
  <2>2. kbJob[v].at = "insert" => kbJob[v].gone \subseteq chunks'
    <3>1. kbJob[v].at = "insert" => kbJob[v].gone \cap g = {} /\ kbJob[v].gone \subseteq chunks
      BY <2>1 DEF JobSound, CommitIndexing
    <3> QED
      BY <1>2, <3>1
  <2>3. \A u \in Workers \ {v} :
          kbJob'[u].at = "insert" => kbJob[u].at = "insert" /\ kbJob'[u].gone = kbJob[u].gone
    BY <1>1, <1>6 DEF KbJob
  <2> QED
    BY <1>2, <2>1, <2>2, <2>3 DEF JobSound, Stored, Whole
<1> QED
  BY <1>5, <1>7, <1>8, <1>9

LEMMA KbStepInv == KbIInv /\ [KbNext]_kbVars => KbIInv'
<1> SUFFICES ASSUME KbIInv, [KbNext]_kbVars PROVE KbIInv'
  OBVIOUS
<1>1. ASSUME NEW a \in Articles,
             PostArticle(a) \/ PostUnqueued(a) \/ CommitArticle(a) \/ LoseArticle(a)
      PROVE  KbIInv'
  BY <1>1, PostInv
<1>2. ASSUME NEW w \in Workers, Indexing(w) \/ IndexingFails(w) PROVE KbIInv'
  BY <1>2, TaskInv, CommitInv DEF Indexing
<1>3. CASE UNCHANGED kbVars
  BY <1>3 DEF kbVars, KbIInv, KbTypeOK, RowsSound, JobSound, Stored, Whole
<1> QED
  BY <1>1, <1>2, <1>3 DEF KbNext

LEMMA KbInvariant == KbSpec => []KbIInv
BY KbInitInv, KbStepInv, PTL DEF KbSpec

\* Counts in the queue never become negative, and every row, task and post is
\* what its table or handler can hold.
THEOREM KbTypeTheorem == KbSpec => []KbTypeOK
<1>1. KbIInv => KbTypeOK
  BY DEF KbIInv
<1> QED
  BY <1>1, KbInvariant, PTL

\* replace_chunks runs in one transaction and deletes what other transactions
\* have not: searches read whole indexings of stored articles only, for any number
\* of articles, workers, deliveries and faults.
THEOREM WholeIndexingsTheorem == KbSpec => []WholeIndexings
<1>1. KbIInv => WholeIndexings
  BY DEF KbIInv, RowsSound, WholeIndexings
<1> QED
  BY <1>1, KbInvariant, PTL

\* The rows of an indexing hold the whole text and none of them is redundant.
THEOREM ChunkingTheorem == KbSpec => []WellChunked
<1>1. ASSUME KbIInv, NEW a \in Articles, NEW by \in Copies(a)
      PROVE  LET rows == {c \in Of(a) : c.by = by}
             IN /\ UNION {Words(c) : c \in rows} = 1..Length[a]
                /\ \A c, d \in rows : Words(c) \subseteq Words(d) => c = d
  <2> DEFINE n == Length[a]
             rows == {c \in Of(a) : c.by = by}
  <2>1. n \in Nat
    BY KbBounds
  <2>2. Covers(n) /\ Irredundant(n)
    BY <2>1, ChunksAreSound
  <2>3. \A c \in rows : /\ c \in Chunk /\ c.article = a /\ c.by = by
                        /\ c.piece \in Pieces(n)
                        /\ Words(c) = Window(n, c.piece)
    BY <1>1 DEF KbIInv, KbTypeOK, RowsSound, Of, Words
  <2>4. New(a, by) \subseteq rows
    <3>1. PICK c \in Of(a) : c.by = by
      BY <1>1 DEF Copies
    <3>2. New(a, by) \subseteq chunks
      BY <1>1, <3>1 DEF KbIInv, RowsSound, Of
    <3> QED
      BY <3>2 DEF New, Of
  <2>5. ASSUME NEW w \in 1..n
        PROVE  \E c \in rows : w \in Words(c)
    <3>1. PICK k \in Pieces(n) : w \in Window(n, k)
      BY <2>2 DEF Covers
    <3>2. [article |-> a, piece |-> k, by |-> by] \in rows
      BY <2>4 DEF New
    <3> QED
      BY <2>3, <3>1, <3>2
  <2>6. \A c \in rows : Words(c) \subseteq 1..n
    BY <2>3 DEF Window
  <2>7. UNION {Words(c) : c \in rows} = 1..n
    BY <2>5, <2>6
  <2>8. ASSUME NEW c \in rows, NEW d \in rows, Words(c) \subseteq Words(d)
        PROVE  c = d
    <3>1. c.piece = d.piece
      BY <2>2, <2>3, <2>8 DEF Irredundant
    <3> QED
      BY <2>3, <3>1 DEF Chunk
  <2> QED
    BY <2>7, <2>8
<1>2. KbIInv => WellChunked
  BY <1>1 DEF WellChunked
<1> QED
  BY <1>2, KbInvariant, PTL

\* The transaction that deletes chunks of an article inserts others of it.
LEMMA SearchableStays ==
  ASSUME KbIInv, [KbNext]_kbVars, NEW a \in Articles, Searchable(a)
  PROVE  Searchable(a)'
<1>1. PICK c \in chunks : c.article = a
  BY DEF Searchable, Of
<1>2. CASE chunks' = chunks
  BY <1>2 DEF Searchable, Of
<1>3. ASSUME NEW w \in Workers, CommitIndexing(w) PROVE Searchable(a)'
  <2>1. chunks' = (chunks \ kbJob[w].gone) \cup New(kbJob[w].msg.article, indexings + 1)
    BY <1>3 DEF CommitIndexing
  <2>2. CASE c \notin kbJob[w].gone
    BY <1>1, <2>1, <2>2 DEF Searchable, Of
  <2>3. CASE c \in kbJob[w].gone
    <3>1. kbJob[w].msg.article = a
      BY <1>1, <1>3, <2>3 DEF CommitIndexing, KbIInv, JobSound, Whole
    <3> DEFINE d == [article |-> a, piece |-> c.piece, by |-> indexings + 1]
    <3>2. d \in New(a, indexings + 1) /\ d.article = a
      BY <1>1 DEF KbIInv, RowsSound, New
    <3> HIDE DEF d
    <3> QED
      BY <2>1, <3>1, <3>2 DEF Searchable, Of
  <2> QED
    BY <2>2, <2>3
<1> QED
  BY <1>2, <1>3
     DEF KbNext, kbVars, Indexing, IndexingFails, PostArticle, PostUnqueued, CommitArticle,
         LoseArticle, Receive, Snapshot, Delete, Acknowledge, IndexingRaises, WorkerDies,
         IndexingKilled, End, Redeliver

\* An article that can be found stays findable: the transaction that deletes its
\* chunks inserts as many kinds of them again.
THEOREM StaysSearchableTheorem == KbSpec => StaysSearchable
<1>1. KbIInv /\ [KbNext]_kbVars
        => [\A a \in Articles : Searchable(a) => Searchable(a)']_kbVars
  BY SearchableStays
<1> QED
  BY <1>1, KbInvariant, PTL DEF KbSpec, StaysSearchable

-----------------------------------------------------------------------------
\* The messages of q about article a, numbered where there are several alike.
Waiting(q, a) == {x \in KbMessage \X Nat : x[1].article = a /\ 1 <= x[2] /\ x[2] <= q[x[1]]}

Running(a) == {w \in Workers : kbJob[w] # NoKbJob /\ kbJob[w].msg.article = a}

MaxCopies == 1 + kbFaults["redelivered"]

\* Of an article there are never more deliveries, waiting or running, than were
\* enqueued or delivered again; it is enqueued once, when it is posted.
DeliveriesBounded ==
  \A a \in Articles :
    /\ IsFiniteSet(Waiting(kbQueue, a)) /\ IsFiniteSet(Running(a))
    /\ Cardinality(Waiting(kbQueue, a)) + Cardinality(Running(a)) <= MaxCopies
    /\ kbPost[a] = "new" => Waiting(kbQueue, a) = {} /\ Running(a) = {}

-----------------------------------------------------------------------------
LEMMA MaxCopiesType == ASSUME KbTypeOK PROVE MaxCopies \in Nat /\ MaxCopies >= 1
<1>1. kbFaults["redelivered"] \in Nat
  BY DEF KbTypeOK, IndexFaultKinds
<1> QED
  BY <1>1 DEF MaxCopies

\* A fault never takes copies away, and a redelivery allows for one more.
LEMMA MaxCopiesGrows ==
  ASSUME KbTypeOK, NEW kind, KbFault(kind)
  PROVE  /\ MaxCopies' \in Nat /\ MaxCopies <= MaxCopies'
         /\ kind = "redelivered" => MaxCopies' = MaxCopies + 1
<1>1. kind \in IndexFaultKinds /\ kbFaults' = [kbFaults EXCEPT ![kind] = @ + 1]
  BY KbAssumption DEF KbFault
<1>2. kbFaults \in [IndexFaultKinds -> Nat] /\ "redelivered" \in IndexFaultKinds
  BY DEF KbTypeOK, IndexFaultKinds
<1> QED
  BY <1>1, <1>2 DEF MaxCopies

LEMMA WaitingPlus ==
  ASSUME NEW q \in [KbMessage -> Nat], NEW m \in KbMessage, NEW a,
         IsFiniteSet(Waiting(q, a))
  PROVE  /\ IsFiniteSet(Waiting(Plus(q, m), a))
         /\ Cardinality(Waiting(Plus(q, m), a))
              = Cardinality(Waiting(q, a)) + (IF m.article = a THEN 1 ELSE 0)
<1> DEFINE n == q[m] + 1
<1>1. n \in Nat /\ n >= 1 /\ \A x \in KbMessage : Plus(q, m)[x] = IF x = m THEN n ELSE q[x]
  BY DEF Plus
<1>2. CASE m.article = a
  <2>1. Waiting(Plus(q, m), a) = Waiting(q, a) \cup {<<m, n>>}
    <3>1. ASSUME NEW x \in KbMessage \X Nat
          PROVE  x \in Waiting(Plus(q, m), a) <=> x \in Waiting(q, a) \/ x = <<m, n>>
      <4>1. x[1] \in KbMessage /\ x[2] \in Nat /\ x = <<x[1], x[2]>>
        OBVIOUS
      <4>2. CASE x[1] = m
        BY <1>1, <1>2, <4>1, <4>2 DEF Waiting
      <4>3. CASE x[1] # m
        BY <1>1, <4>1, <4>3 DEF Waiting
      <4> QED
        BY <4>2, <4>3
    <3>2. <<m, n>> \in KbMessage \X Nat
      BY <1>1
    <3> HIDE DEF n
    <3> QED
      BY <3>1, <3>2 DEF Waiting
  <2>2. <<m, n>> \notin Waiting(q, a)
    BY <1>1 DEF Waiting
  <2> HIDE DEF n
  <2>3. /\ IsFiniteSet(Waiting(q, a) \cup {<<m, n>>})
        /\ Cardinality(Waiting(q, a) \cup {<<m, n>>}) = Cardinality(Waiting(q, a)) + 1
    BY <2>2, FS_AddElement
  <2> QED
    BY <1>2, <2>1, <2>3
<1>3. CASE m.article # a
  <2>1. Waiting(Plus(q, m), a) = Waiting(q, a)
    <3>1. ASSUME NEW x \in KbMessage \X Nat, x[1].article = a
          PROVE  Plus(q, m)[x[1]] = q[x[1]]
      BY <1>1, <1>3, <3>1
    <3> QED
      BY <3>1 DEF Waiting
  <2> QED
    BY <1>3, <2>1, FS_CardinalityType
<1> QED
  BY <1>2, <1>3

LEMMA WaitingMinus ==
  ASSUME NEW q \in [KbMessage -> Nat], NEW m \in KbMessage, NEW a, q[m] > 0,
         IsFiniteSet(Waiting(q, a))
  PROVE  /\ IsFiniteSet(Waiting(Minus(q, m), a))
         /\ Cardinality(Waiting(Minus(q, m), a))
              = Cardinality(Waiting(q, a)) - (IF m.article = a THEN 1 ELSE 0)
         /\ Waiting(q, a) = {} => m.article # a
<1> DEFINE n == q[m] - 1
<1>1. n \in Nat /\ \A x \in KbMessage : Minus(q, m)[x] = IF x = m THEN n ELSE q[x]
  BY DEF Minus
<1>2. CASE m.article = a
  <2>1. Waiting(Minus(q, m), a) = Waiting(q, a) \ {<<m, q[m]>>}
    <3>1. ASSUME NEW x \in KbMessage \X Nat
          PROVE  x \in Waiting(Minus(q, m), a) <=> x \in Waiting(q, a) /\ x # <<m, q[m]>>
      <4>1. x[1] \in KbMessage /\ x[2] \in Nat /\ x = <<x[1], x[2]>>
        OBVIOUS
      <4>2. CASE x[1] = m
        BY <1>1, <4>1, <4>2 DEF Waiting
      <4>3. CASE x[1] # m
        BY <1>1, <4>1, <4>3 DEF Waiting
      <4> QED
        BY <4>2, <4>3
    <3> QED
      BY <3>1 DEF Waiting
  <2>2. <<m, q[m]>> \in Waiting(q, a)
    BY <1>1, <1>2 DEF Waiting
  <2> HIDE DEF n
  <2> QED
    BY <1>2, <2>1, <2>2, FS_RemoveElement
<1>3. CASE m.article # a
  <2>1. Waiting(Minus(q, m), a) = Waiting(q, a)
    <3>1. ASSUME NEW x \in KbMessage \X Nat, x[1].article = a
          PROVE  Minus(q, m)[x[1]] = q[x[1]]
      BY <1>1, <1>3, <3>1
    <3> QED
      BY <3>1 DEF Waiting
  <2> QED
    BY <1>3, <2>1, FS_CardinalityType
<1> QED
  BY <1>2, <1>3

\* A retry is at most one message more.
LEMMA WaitingRetried ==
  ASSUME NEW q \in [KbMessage -> Nat], NEW m \in KbMessage, NEW a,
         IsFiniteSet(Waiting(q, a))
  PROVE  /\ IsFiniteSet(Waiting(Retried(q, m), a))
         /\ Cardinality(Waiting(Retried(q, m), a))
              <= Cardinality(Waiting(q, a)) + (IF m.article = a THEN 1 ELSE 0)
<1>1. CASE m.tries < MaxRetries
  <2> DEFINE n == [m EXCEPT !.tries = @ + 1]
  <2>1. n \in KbMessage /\ n.article = m.article
    BY <1>1, KbBounds DEF KbMessage
  <2>2. Retried(q, m) = Plus(q, n)
    BY <1>1 DEF Retried
  <2> HIDE DEF n
  <2> QED
    BY <2>1, <2>2, WaitingPlus, FS_CardinalityType
<1>2. CASE ~(m.tries < MaxRetries)
  BY <1>2, FS_CardinalityType DEF Retried
<1> QED
  BY <1>1, <1>2

-----------------------------------------------------------------------------
\* The task of slot w ends: nobody else is concerned.
LEMMA RunningEnds ==
  ASSUME KbTypeOK, NEW w \in Workers, kbJob[w] # NoKbJob,
         kbJob' = [kbJob EXCEPT ![w] = NoKbJob],
         NEW a, IsFiniteSet(Running(a))
  PROVE  /\ IsFiniteSet(Running(a)')
         /\ Cardinality(Running(a)')
              = Cardinality(Running(a)) - (IF kbJob[w].msg.article = a THEN 1 ELSE 0)
<1>1. Running(a)' = Running(a) \ {w}
  BY DEF Running, KbTypeOK
<1>2. w \in Running(a) <=> kbJob[w].msg.article = a
  BY DEF Running
<1> QED
  BY <1>1, <1>2, FS_RemoveElement, FS_CardinalityType

LEMMA RunningStarts ==
  ASSUME KbTypeOK, NEW w \in Workers, kbJob[w] = NoKbJob, NEW j \in KbJob,
         kbJob' = [kbJob EXCEPT ![w] = j],
         NEW a, IsFiniteSet(Running(a))
  PROVE  /\ IsFiniteSet(Running(a)')
         /\ Cardinality(Running(a)')
              = Cardinality(Running(a)) + (IF j.msg.article = a THEN 1 ELSE 0)
<1>1. j # NoKbJob
  BY DEF KbJob, NoKbJob
<1>2. Running(a)' = IF j.msg.article = a THEN Running(a) \cup {w} ELSE Running(a)
  BY <1>1 DEF Running, KbTypeOK
<1>3. w \notin Running(a)
  BY DEF Running
<1> QED
  BY <1>2, <1>3, FS_AddElement, FS_CardinalityType

-----------------------------------------------------------------------------
LEMMA InitDeliveries == KbInit => DeliveriesBounded
<1> SUFFICES ASSUME KbInit, NEW a \in Articles
             PROVE  /\ Waiting(kbQueue, a) = {} /\ Running(a) = {}
                    /\ MaxCopies = 1
  BY FS_EmptySet DEF DeliveriesBounded
<1>1. Waiting(kbQueue, a) = {}
  BY DEF KbInit, Waiting
<1>2. Running(a) = {}
  BY DEF KbInit, Running
<1>3. MaxCopies = 1
  BY DEF KbInit, MaxCopies, IndexFaultKinds
<1> QED
  BY <1>1, <1>2, <1>3

\* A request posts its article once, and enqueues one message when it does.
LEMMA PostDeliveries ==
  ASSUME KbTypeOK, DeliveriesBounded, NEW b \in Articles,
         PostArticle(b) \/ PostUnqueued(b) \/ CommitArticle(b) \/ LoseArticle(b)
  PROVE  DeliveriesBounded'
<1> USE DEF KbTypeOK
<1>1. kbJob' = kbJob
  BY DEF PostArticle, PostUnqueued, CommitArticle, LoseArticle
<1>2. MaxCopies' \in Nat /\ MaxCopies <= MaxCopies'
  <2>1. CASE PostArticle(b) \/ CommitArticle(b)
    BY <2>1, MaxCopiesType DEF PostArticle, CommitArticle, MaxCopies
  <2>2. CASE PostUnqueued(b) \/ LoseArticle(b)
    BY <2>2, MaxCopiesGrows DEF PostUnqueued, LoseArticle
  <2> QED
    BY <2>1, <2>2
<1>3. SUFFICES ASSUME NEW a \in Articles
      PROVE  /\ IsFiniteSet(Waiting(kbQueue', a))
             /\ Cardinality(Waiting(kbQueue', a)) + Cardinality(Running(a)) <= MaxCopies'
             /\ kbPost'[a] = "new" => Waiting(kbQueue', a) = {} /\ Running(a) = {}
  <2>1. \A a \in Articles : Running(a)' = Running(a) /\ IsFiniteSet(Running(a))
    BY <1>1 DEF Running, DeliveriesBounded
  <2> QED
    BY <2>1 DEF DeliveriesBounded, Waiting
<1>4. /\ IsFiniteSet(Waiting(kbQueue, a)) /\ IsFiniteSet(Running(a))
      /\ Cardinality(Waiting(kbQueue, a)) \in Nat /\ Cardinality(Running(a)) \in Nat
      /\ Cardinality(Waiting(kbQueue, a)) + Cardinality(Running(a)) <= MaxCopies
      /\ kbPost[a] = "new" => Waiting(kbQueue, a) = {} /\ Running(a) = {}
  BY FS_CardinalityType DEF DeliveriesBounded
<1>5. kbPost'[a] = "new" => kbPost[a] = "new" /\ a # b
  BY DEF PostArticle, PostUnqueued, CommitArticle, LoseArticle
<1>6. CASE kbQueue' = kbQueue
  BY <1>2, <1>4, <1>5, <1>6, MaxCopiesType
<1>7. CASE PostArticle(b)
  <2> DEFINE m == [article |-> b, tries |-> 0]
  <2>1. m \in KbMessage /\ m.article = b
    BY KbBounds DEF KbMessage
  <2>2. kbQueue' = Plus(kbQueue, m) /\ kbPost[b] = "new"
    BY <1>7 DEF PostArticle
  <2> HIDE DEF m
  <2>3. /\ IsFiniteSet(Waiting(kbQueue', a))
        /\ Cardinality(Waiting(kbQueue', a))
             = Cardinality(Waiting(kbQueue, a)) + (IF b = a THEN 1 ELSE 0)
    BY <1>4, <2>1, <2>2, WaitingPlus
  <2>4. CASE a = b
    <3>1. Cardinality(Waiting(kbQueue, a)) = 0 /\ Cardinality(Running(a)) = 0
      BY <1>4, <2>2, <2>4, FS_EmptySet
    <3> QED
      BY <1>2, <1>5, <2>3, <2>4, <3>1, MaxCopiesType
  <2>5. CASE a # b
    <3>1. Cardinality(Waiting(kbQueue', a)) = Cardinality(Waiting(kbQueue, a))
      BY <1>4, <2>3, <2>5
    <3>2. Waiting(kbQueue, a) = {} => Waiting(kbQueue', a) = {}
      BY <1>4, <2>3, <3>1, FS_EmptySet
    <3> QED
      BY <1>2, <1>4, <1>5, <2>3, <3>1, <3>2, MaxCopiesType
  <2> QED
    BY <2>4, <2>5
<1> QED
  BY <1>6, <1>7 DEF PostUnqueued, CommitArticle, LoseArticle

\* A message becomes a task and a task a message again, one for one; what is
\* delivered again is counted.
LEMMA TaskDeliveries ==
  ASSUME KbTypeOK, DeliveriesBounded, NEW w \in Workers, Indexing(w) \/ IndexingFails(w)
  PROVE  DeliveriesBounded'
<1> USE DEF KbTypeOK
<1>1. kbPost' = kbPost
  BY DEF Indexing, IndexingFails, Receive, Snapshot, Delete, CommitIndexing, Acknowledge,
         IndexingRaises, WorkerDies, IndexingKilled, End, Redeliver
<1>2. SUFFICES ASSUME NEW a \in Articles
      PROVE  /\ IsFiniteSet(Waiting(kbQueue', a)) /\ IsFiniteSet(Running(a)')
             /\ Cardinality(Waiting(kbQueue', a)) + Cardinality(Running(a)') <= MaxCopies'
             /\ kbPost[a] = "new" => Waiting(kbQueue', a) = {} /\ Running(a)' = {}
  BY <1>1 DEF DeliveriesBounded, Waiting
<1> DEFINE q == Cardinality(Waiting(kbQueue, a))
           r == Cardinality(Running(a))
           q1 == Cardinality(Waiting(kbQueue', a))
           r1 == Cardinality(Running(a)')
<1>3. /\ IsFiniteSet(Waiting(kbQueue, a)) /\ IsFiniteSet(Running(a))
      /\ q \in Nat /\ r \in Nat /\ q + r <= MaxCopies
      /\ kbPost[a] = "new" => q = 0 /\ r = 0
  BY FS_CardinalityType, FS_EmptySet DEF DeliveriesBounded
\* It is enough to count.
<1>4. SUFFICES /\ IsFiniteSet(Waiting(kbQueue', a)) /\ IsFiniteSet(Running(a)')
               /\ q1 + r1 <= MaxCopies'
               /\ q = 0 /\ r = 0 => q1 = 0 /\ r1 = 0
  BY <1>3, FS_EmptySet
<1>5. ASSUME NEW m \in KbMessage, Receive(w, m)
      PROVE  /\ IsFiniteSet(Waiting(kbQueue', a)) /\ IsFiniteSet(Running(a)')
             /\ q1 + r1 <= MaxCopies'
             /\ q = 0 /\ r = 0 => q1 = 0 /\ r1 = 0
  <2>1. MaxCopies' = MaxCopies /\ MaxCopies \in Nat
    BY <1>5, MaxCopiesType DEF Receive, MaxCopies
  <2>2. kbQueue' = Minus(kbQueue, m) /\ kbQueue[m] > 0 /\ kbJob[w] = NoKbJob
    BY <1>5 DEF Receive
  <2>3. /\ IsFiniteSet(Waiting(kbQueue', a)) /\ q1 \in Nat
        /\ q1 = q - (IF m.article = a THEN 1 ELSE 0)
    BY <1>3, <2>2, WaitingMinus, FS_CardinalityType
  <2>4. CASE Stored(m.article)
    <3> DEFINE j == [msg |-> m, at |-> "read", seen |-> {}, gone |-> {}]
    <3>1. j \in KbJob /\ j.msg = m
      BY DEF KbJob
    <3>2. kbJob' = [kbJob EXCEPT ![w] = j]
      BY <1>5, <2>4 DEF Receive
    <3> HIDE DEF j
    <3>3. /\ IsFiniteSet(Running(a)') /\ r1 \in Nat
          /\ r1 = r + (IF m.article = a THEN 1 ELSE 0)
      BY <1>3, <2>2, <3>1, <3>2, RunningStarts, FS_CardinalityType
    <3> HIDE DEF q, r, q1, r1
    <3> QED
      BY <1>3, <2>1, <2>3, <3>3
  <2>5. CASE ~Stored(m.article)
    <3>1. Running(a)' = Running(a)
      BY <1>5, <2>5 DEF Receive, Running
    <3>2. r1 = r /\ IsFiniteSet(Running(a)')
      BY <1>3, <3>1
    <3> HIDE DEF q, r, q1, r1
    <3> QED
      BY <1>3, <2>1, <2>3, <3>2
  <2> QED
    BY <2>4, <2>5
<1>6. CASE Snapshot(w) \/ Delete(w) \/ CommitIndexing(w)
  <2>1. kbQueue' = kbQueue /\ MaxCopies' = MaxCopies
    BY <1>6 DEF Snapshot, Delete, CommitIndexing, MaxCopies
  <2>2. kbJob[w] \in KbJob
    BY <1>6, RunningIndexing DEF Snapshot, Delete, CommitIndexing
  <2>3. /\ \A v \in Workers \ {w} : kbJob'[v] = kbJob[v]
        /\ kbJob'[w].msg = kbJob[w].msg /\ kbJob'[w] # NoKbJob
    BY <1>6, <2>2 DEF Snapshot, Delete, CommitIndexing, KbJob, NoKbJob
  <2>4. kbJob[w] # NoKbJob
    BY <2>2 DEF KbJob, NoKbJob
  <2>5. Running(a)' = Running(a)
    BY <2>3, <2>4 DEF Running
  <2> QED
    BY <1>3, <2>1, <2>5
<1>7. CASE Acknowledge(w) \/ IndexingRaises(w) \/ WorkerDies(w) \/ IndexingKilled(w)
  <2> DEFINE i == IF kbJob[w].msg.article = a THEN 1 ELSE 0
  <2>1. /\ kbJob[w] # NoKbJob /\ kbJob[w].msg \in KbMessage
        /\ kbJob' = [kbJob EXCEPT ![w] = NoKbJob]
    BY <1>7, RunningIndexing
       DEF Acknowledge, IndexingRaises, WorkerDies, IndexingKilled, End
  <2>2. IsFiniteSet(Running(a)') /\ r1 = r - i /\ r1 \in Nat
    BY <1>3, <2>1, RunningEnds, FS_CardinalityType
  <2>3. IsFiniteSet(Waiting(kbQueue', a)) /\ q1 <= q + i /\ q1 \in Nat
    <3>1. CASE kbQueue' = kbQueue
      BY <1>3, <3>1
    <3>2. CASE kbQueue' = Plus(kbQueue, kbJob[w].msg)
      BY <1>3, <2>1, <3>2, WaitingPlus, FS_CardinalityType
    <3>3. CASE kbQueue' = Retried(kbQueue, kbJob[w].msg)
      BY <1>3, <2>1, <3>3, WaitingRetried, FS_CardinalityType
    <3> QED
      BY <1>7, <3>1, <3>2, <3>3
         DEF Acknowledge, IndexingRaises, WorkerDies, IndexingKilled, End
  <2>4. MaxCopies' \in Nat /\ MaxCopies \in Nat /\ MaxCopies <= MaxCopies'
    <3>1. MaxCopies \in Nat
      BY MaxCopiesType
    <3>2. CASE Acknowledge(w)
      BY <3>1, <3>2 DEF Acknowledge, MaxCopies
    <3>3. CASE IndexingRaises(w) \/ WorkerDies(w) \/ IndexingKilled(w)
      BY <3>1, <3>3, MaxCopiesGrows DEF IndexingRaises, WorkerDies, IndexingKilled, End
    <3> QED
      BY <1>7, <3>1, <3>2, <3>3
  <2>5. i \in {0, 1}
    OBVIOUS
  <2> HIDE DEF i, q, r, q1, r1
  <2> QED
    BY <1>3, <2>2, <2>3, <2>4, <2>5
<1>8. CASE Redeliver(w)
  <2> DEFINE i == IF kbJob[w].msg.article = a THEN 1 ELSE 0
  <2>1. /\ kbJob[w] # NoKbJob /\ kbJob[w].msg \in KbMessage
        /\ kbJob' = kbJob /\ kbQueue' = Plus(kbQueue, kbJob[w].msg)
    BY <1>8, RunningIndexing DEF Redeliver
  <2>2. MaxCopies \in Nat /\ MaxCopies' = MaxCopies + 1
    BY <1>8, MaxCopiesType, MaxCopiesGrows DEF Redeliver
  <2>3. Running(a)' = Running(a)
    BY <2>1 DEF Running
  <2>4. r1 = r /\ IsFiniteSet(Running(a)')
    BY <1>3, <2>3
  <2>5. IsFiniteSet(Waiting(kbQueue', a)) /\ q1 = q + i /\ q1 \in Nat
    BY <1>3, <2>1, WaitingPlus, FS_CardinalityType
  <2>6. i \in {0, 1}
    OBVIOUS
  <2>7. i = 1 => r # 0
    <3>1. i = 1 => w \in Running(a)
      BY <2>1 DEF Running
    <3> QED
      BY <1>3, <3>1, FS_EmptySet
  <2> HIDE DEF i, q, r, q1, r1
  <2> QED
    BY <1>3, <2>2, <2>4, <2>5, <2>6, <2>7
<1> QED
  BY <1>5, <1>6, <1>7, <1>8 DEF Indexing, IndexingFails

-----------------------------------------------------------------------------
\* The tasks that replace the chunks of a and have their snapshot.
Replacing(a) ==
  {w \in Workers : kbJob[w].at \in {"delete", "insert"} /\ kbJob[w].msg.article = a}

SeenBy(W) == UNION {kbJob[w].seen : w \in W}

\* The indexings of a that have rows none of the tasks W will delete.
Spared(a, W) == {c.by : c \in Of(a) \ SeenBy(W)}

\* If any of the tasks that replace the chunks of a commit, each leaves at most one
\* indexing for those it deletes: together with the indexings they spare they
\* are no more than the deliveries.
CopiesBounded ==
  \A a \in Articles : \A W \in SUBSET Replacing(a) :
    /\ IsFiniteSet(Spared(a, W))
    /\ Cardinality(Spared(a, W)) + Cardinality(W) <= MaxCopies

\* Rows are of indexings that were, those in a snapshot as well, and a task has
\* deleted what is left of its snapshot.
SnapshotsSound ==
  /\ \A c \in chunks : c.by <= indexings
  /\ \A w \in Workers :
       /\ kbJob[w].at \in {"delete", "insert"} => \A c \in kbJob[w].seen : c.by <= indexings
       /\ kbJob[w].at = "insert" => kbJob[w].seen \cap chunks \subseteq kbJob[w].gone

CopiesIInv == KbTypeOK /\ DeliveriesBounded /\ SnapshotsSound /\ CopiesBounded

-----------------------------------------------------------------------------
LEMMA RunningFinite ==
  ASSUME KbTypeOK, DeliveriesBounded, NEW a \in Articles, NEW W \in SUBSET Running(a)
  PROVE  /\ IsFiniteSet(W) /\ Cardinality(W) \in Nat
         /\ Cardinality(W) <= MaxCopies
<1>1. /\ IsFiniteSet(Running(a)) /\ IsFiniteSet(Waiting(kbQueue, a))
      /\ Cardinality(Waiting(kbQueue, a)) + Cardinality(Running(a)) <= MaxCopies
  BY DEF DeliveriesBounded
<1>2. IsFiniteSet(W) /\ Cardinality(W) <= Cardinality(Running(a))
  BY <1>1, FS_Subset
<1> QED
  BY <1>1, <1>2, FS_CardinalityType, MaxCopiesType

LEMMA ReplacingRuns == ASSUME NEW a PROVE Replacing(a) \subseteq Running(a)
BY DEF Replacing, Running, NoKbJob

LEMMA InitCopies == KbInit => SnapshotsSound /\ CopiesBounded
<1> SUFFICES ASSUME KbInit PROVE SnapshotsSound /\ CopiesBounded
  OBVIOUS
<1>1. SnapshotsSound
  BY DEF KbInit, SnapshotsSound, NoKbJob
<1>2. ASSUME NEW a \in Articles, NEW W \in SUBSET Replacing(a)
      PROVE  /\ IsFiniteSet(Spared(a, W))
             /\ Cardinality(Spared(a, W)) + Cardinality(W) <= MaxCopies
  <2>1. Spared(a, W) = {}
    BY DEF KbInit, Spared, Of
  <2>2. W = {}
    BY DEF KbInit, Replacing, NoKbJob
  <2>3. MaxCopies = 1
    BY DEF KbInit, MaxCopies, IndexFaultKinds
  <2> QED
    BY <2>1, <2>2, <2>3, FS_EmptySet
<1> QED
  BY <1>1, <1>2 DEF CopiesBounded

\* A step that leaves the rows alone, gives no task a snapshot and takes back no
\* redelivery.
LEMMA CopiesKept ==
  ASSUME SnapshotsSound, CopiesBounded, KbTypeOK, DeliveriesBounded,
         chunks' = chunks, indexings' = indexings,
         MaxCopies' \in Nat, MaxCopies <= MaxCopies',
         NEW a \in Articles, NEW W \in SUBSET Replacing(a),
         \A w \in W : kbJob'[w].seen = kbJob[w].seen
  PROVE  /\ IsFiniteSet(Spared(a, W)')
         /\ Cardinality(Spared(a, W)') + Cardinality(W) <= MaxCopies'
<1>1. Spared(a, W)' = Spared(a, W)
  <2>1. {kbJob'[w].seen : w \in W} = {kbJob[w].seen : w \in W}
    OBVIOUS
  <2> QED
    BY <2>1 DEF Spared, SeenBy, Of
<1>2. /\ IsFiniteSet(Spared(a, W))
      /\ Cardinality(Spared(a, W)) + Cardinality(W) <= MaxCopies
  BY DEF CopiesBounded
<1>3. Cardinality(Spared(a, W)) \in Nat /\ Cardinality(W) \in Nat /\ MaxCopies \in Nat
  BY <1>2, FS_CardinalityType, ReplacingRuns, RunningFinite, MaxCopiesType
<1> QED
  BY <1>1, <1>2, <1>3

\* What becomes of the tasks and the rows in a step that is neither a snapshot nor
\* a commit.
LEMMA QuietStep ==
  ASSUME CopiesIInv, chunks' = chunks, indexings' = indexings,
         MaxCopies' \in Nat, MaxCopies <= MaxCopies',
         \A w \in Workers :
           kbJob'[w].at \in {"delete", "insert"} =>
             /\ kbJob[w].at \in {"delete", "insert"}
             /\ kbJob'[w].msg = kbJob[w].msg /\ kbJob'[w].seen = kbJob[w].seen
             /\ kbJob'[w].at = "insert" => kbJob'[w].seen \cap chunks \subseteq kbJob'[w].gone
  PROVE  SnapshotsSound' /\ CopiesBounded'
<1> USE DEF CopiesIInv
<1>1. SnapshotsSound'
  BY DEF SnapshotsSound
<1>2. ASSUME NEW a \in Articles, NEW W \in SUBSET Replacing(a)'
      PROVE  /\ IsFiniteSet(Spared(a, W)')
             /\ Cardinality(Spared(a, W)') + Cardinality(W) <= MaxCopies'
  <2>1. W \in SUBSET Replacing(a) /\ \A w \in W : kbJob'[w].seen = kbJob[w].seen
    BY DEF Replacing
  <2> QED
    BY <2>1, CopiesKept
<1>3. CopiesBounded'
  BY <1>2 DEF CopiesBounded
<1> QED
  BY <1>1, <1>3

-----------------------------------------------------------------------------
\* A snapshot has every row of the article: the tasks that now replace them spare
\* none, and are no more than the deliveries.
LEMMA SnapshotCopies ==
  ASSUME CopiesIInv, NEW w \in Workers, Snapshot(w)
  PROVE  SnapshotsSound' /\ CopiesBounded'
<1> USE DEF CopiesIInv
<1> DEFINE b == kbJob[w].msg.article
<1>1. /\ kbJob[w] \in KbJob /\ b \in Articles
  BY RunningIndexing DEF Snapshot
<1>2. /\ chunks' = chunks /\ indexings' = indexings /\ MaxCopies' = MaxCopies
      /\ kbQueue' = kbQueue /\ MaxCopies \in Nat
  BY MaxCopiesType DEF Snapshot, MaxCopies
<1>3. /\ \A v \in Workers \ {w} : kbJob'[v] = kbJob[v]
      /\ kbJob'[w].at = "delete" /\ kbJob'[w].seen = Of(b)
      /\ kbJob'[w].msg = kbJob[w].msg
  BY <1>1 DEF Snapshot, KbTypeOK, KbJob
<1>4. SnapshotsSound'
  BY <1>2, <1>3 DEF SnapshotsSound, Of
<1>5. ASSUME NEW a \in Articles, NEW W \in SUBSET Replacing(a)'
      PROVE  /\ IsFiniteSet(Spared(a, W)')
             /\ Cardinality(Spared(a, W)') + Cardinality(W) <= MaxCopies'
  <2>1. CASE w \in W
    <3>1. a = b
      BY <1>3, <2>1 DEF Replacing
    <3>2. Of(a)' = Of(a) /\ Of(a) \subseteq SeenBy(W)'
      BY <1>2, <1>3, <2>1, <3>1 DEF Of, SeenBy
    <3>3. Spared(a, W)' = {}
      BY <3>2 DEF Spared
    <3>4. W \in SUBSET Running(a)
      BY <1>1, <1>3, <3>1 DEF Replacing, Running, NoKbJob, KbJob
    <3>5. Cardinality(W) \in Nat /\ Cardinality(W) <= MaxCopies'
      BY <1>2, <3>4, RunningFinite
    <3> QED
      BY <3>3, <3>5, FS_EmptySet
  <2>2. CASE w \notin W
    <3>1. W \in SUBSET Replacing(a) /\ \A v \in W : kbJob'[v].seen = kbJob[v].seen
      BY <1>3, <2>2 DEF Replacing
    <3> QED
      BY <1>2, <3>1, CopiesKept
  <2> QED
    BY <2>1, <2>2
<1> QED
  BY <1>4, <1>5 DEF CopiesBounded

\* A commit leaves one indexing for what the task has deleted: to those that the
\* others spare comes one, and the task is no longer among the others.
LEMMA CommitCopies ==
  ASSUME CopiesIInv, NEW w \in Workers, CommitIndexing(w)
  PROVE  SnapshotsSound' /\ CopiesBounded'
<1> USE DEF CopiesIInv
<1> DEFINE b == kbJob[w].msg.article
           n == indexings + 1
<1>1. kbJob[w] \in KbJob /\ b \in Articles /\ kbJob[w].at = "insert"
  BY RunningIndexing DEF CommitIndexing
<1>2. /\ chunks' = (chunks \ kbJob[w].gone) \cup New(b, n)
      /\ n \in Nat /\ indexings' = n
      /\ MaxCopies' = MaxCopies /\ MaxCopies \in Nat
  BY MaxCopiesType DEF CommitIndexing, MaxCopies, KbTypeOK
<1>3. /\ \A v \in Workers \ {w} : kbJob'[v] = kbJob[v]
      /\ kbJob'[w].at = "ack"
  BY <1>1 DEF CommitIndexing, KbTypeOK, KbJob
<1>4. \A c \in New(b, n) : c.article = b /\ c.by = n
  BY <1>1, <1>2, NewRows
<1>5. SnapshotsSound'
  <2>1. \A c \in chunks : c.by \in Nat /\ c.by <= indexings /\ c.by <= n
    BY DEF SnapshotsSound, KbTypeOK, Chunk
  <2>2. ASSUME NEW v \in Workers \ {w}, kbJob[v].at \in {"delete", "insert"}
        PROVE  /\ \A c \in kbJob[v].seen : c.by <= n
               /\ kbJob[v].at = "insert" => kbJob[v].seen \cap chunks' \subseteq kbJob[v].gone
    <3>1. kbJob[v].seen \subseteq Chunk
      BY <2>2, RunningIndexing
    <3>2. \A c \in kbJob[v].seen : c.by \in Nat /\ c.by <= indexings
      BY <2>2, <3>1 DEF SnapshotsSound, Chunk
    <3>3. \A c \in kbJob[v].seen : c \notin New(b, n) /\ c.by <= n
      BY <1>2, <1>4, <3>2 DEF KbTypeOK
    <3> QED
      BY <1>2, <3>3 DEF SnapshotsSound
  <2>3. \A c \in chunks' : c.by <= indexings'
    BY <1>2, <1>4, <2>1
  <2> QED
    BY <1>2, <1>3, <2>2, <2>3 DEF SnapshotsSound
<1>6. ASSUME NEW a \in Articles, NEW W \in SUBSET Replacing(a)'
      PROVE  /\ IsFiniteSet(Spared(a, W)')
             /\ Cardinality(Spared(a, W)') + Cardinality(W) <= MaxCopies'
  <2>1. /\ w \notin W /\ W \in SUBSET Replacing(a)
        /\ \A v \in W : kbJob'[v] = kbJob[v]
    BY <1>3 DEF Replacing
  <2>2. SeenBy(W)' = SeenBy(W)
    <3>1. {kbJob'[v].seen : v \in W} = {kbJob[v].seen : v \in W}
      BY <2>1
    <3> QED
      BY <3>1 DEF SeenBy
  <2>3. IsFiniteSet(W) /\ Cardinality(W) \in Nat
    BY <2>1, ReplacingRuns, RunningFinite
  <2>4. CASE a = b
    <3> DEFINE V == W \cup {w}
    <3>1. V \in SUBSET Replacing(a)
      BY <1>1, <2>1, <2>4 DEF Replacing
    <3>2. Cardinality(V) = Cardinality(W) + 1
      BY <2>1, <2>3, FS_AddElement
    <3>3. Spared(a, W)' \subseteq Spared(a, V) \cup {n}
      <4>1. ASSUME NEW c \in Of(a)' \ SeenBy(W)', c.by # n
            PROVE  c \in Of(a) \ SeenBy(V)
        <5>1. c \in chunks /\ c \notin kbJob[w].gone /\ c.article = a
          BY <1>2, <1>4, <4>1 DEF Of
        <5>2. c \notin kbJob[w].seen
          BY <1>1, <5>1 DEF SnapshotsSound
        <5> QED
          BY <2>2, <5>1, <5>2 DEF Of, SeenBy
      <4> HIDE DEF V, n
      <4> QED
        BY <4>1 DEF Spared
    <3>4. /\ IsFiniteSet(Spared(a, V))
          /\ Cardinality(Spared(a, V)) + Cardinality(V) <= MaxCopies
      BY <3>1 DEF CopiesBounded
    <3> HIDE DEF V, n
    <3>5. /\ IsFiniteSet(Spared(a, V) \cup {n})
          /\ Cardinality(Spared(a, V) \cup {n}) <= Cardinality(Spared(a, V)) + 1
          /\ Cardinality(Spared(a, V)) \in Nat
      <4>1. Cardinality(Spared(a, V)) \in Nat
        BY <3>4, FS_CardinalityType
      <4>2. /\ IsFiniteSet(Spared(a, V) \cup {n})
            /\ \/ Cardinality(Spared(a, V) \cup {n}) = Cardinality(Spared(a, V))
               \/ Cardinality(Spared(a, V) \cup {n}) = Cardinality(Spared(a, V)) + 1
        BY <3>4, FS_AddElement
      <4> QED
        BY <4>1, <4>2
    <3>6. /\ IsFiniteSet(Spared(a, W)') /\ Cardinality(Spared(a, W)') \in Nat
          /\ Cardinality(Spared(a, W)') <= Cardinality(Spared(a, V) \cup {n})
          /\ Cardinality(Spared(a, V) \cup {n}) \in Nat
      BY <3>3, <3>5, FS_Subset, FS_CardinalityType
    <3> QED
      BY <1>2, <2>3, <3>2, <3>4, <3>5, <3>6
  <2>5. CASE a # b
    <3>1. Spared(a, W)' \subseteq Spared(a, W)
      BY <1>2, <1>4, <2>2, <2>5 DEF Spared, Of
    <3>2. /\ IsFiniteSet(Spared(a, W))
          /\ Cardinality(Spared(a, W)) + Cardinality(W) <= MaxCopies
      BY <2>1 DEF CopiesBounded
    <3>3. /\ IsFiniteSet(Spared(a, W)') /\ Cardinality(Spared(a, W)') \in Nat
          /\ Cardinality(Spared(a, W)') <= Cardinality(Spared(a, W))
          /\ Cardinality(Spared(a, W)) \in Nat
      BY <3>1, <3>2, FS_Subset, FS_CardinalityType
    <3> QED
      BY <1>2, <2>3, <3>2, <3>3
  <2> QED
    BY <2>4, <2>5
<1> QED
  BY <1>5, <1>6 DEF CopiesBounded

LEMMA CopiesStep == KbIInv /\ KbIInv' /\ CopiesIInv /\ [KbNext]_kbVars => CopiesIInv'
<1> SUFFICES ASSUME KbIInv, KbTypeOK', CopiesIInv, [KbNext]_kbVars
             PROVE  DeliveriesBounded' /\ SnapshotsSound' /\ CopiesBounded'
  BY DEF CopiesIInv, KbIInv
<1> USE DEF CopiesIInv
<1>1. ASSUME NEW a \in Articles,
             PostArticle(a) \/ PostUnqueued(a) \/ CommitArticle(a) \/ LoseArticle(a)
      PROVE  DeliveriesBounded' /\ SnapshotsSound' /\ CopiesBounded'
  <2>1. DeliveriesBounded'
    BY <1>1, PostDeliveries
  <2>2. chunks' = chunks /\ indexings' = indexings /\ kbJob' = kbJob
    BY <1>1 DEF PostArticle, PostUnqueued, CommitArticle, LoseArticle
  <2>3. MaxCopies' \in Nat /\ MaxCopies <= MaxCopies'
    <3>1. CASE PostArticle(a) \/ CommitArticle(a)
      BY <3>1, MaxCopiesType DEF PostArticle, CommitArticle, MaxCopies
    <3>2. CASE PostUnqueued(a) \/ LoseArticle(a)
      BY <3>2, MaxCopiesGrows DEF PostUnqueued, LoseArticle
    <3> QED
      BY <1>1, <3>1, <3>2
  <2>4. \A w \in Workers : kbJob[w].at = "insert" => kbJob[w].seen \cap chunks \subseteq kbJob[w].gone
    BY DEF SnapshotsSound
  <2>5. SnapshotsSound' /\ CopiesBounded'
    BY <2>2, <2>3, <2>4, QuietStep
  <2> QED
    BY <2>1, <2>5
<1>2. ASSUME NEW w \in Workers, Indexing(w) \/ IndexingFails(w)
      PROVE  DeliveriesBounded' /\ SnapshotsSound' /\ CopiesBounded'
  <2>1. DeliveriesBounded'
    BY <1>2, TaskDeliveries
  <2>2. CASE Snapshot(w) \/ CommitIndexing(w)
    BY <2>1, <2>2, SnapshotCopies, CommitCopies
  <2>3. CASE (\E m \in KbMessage : Receive(w, m)) \/ Delete(w) \/ Acknowledge(w)
             \/ IndexingFails(w)
    <3>1. chunks' = chunks /\ indexings' = indexings
      BY <2>3 DEF IndexingFails, Receive, Delete, Acknowledge,
                  IndexingRaises, WorkerDies, IndexingKilled, End, Redeliver
    <3>2. MaxCopies' \in Nat /\ MaxCopies <= MaxCopies'
      <4>1. CASE (\E m \in KbMessage : Receive(w, m)) \/ Delete(w) \/ Acknowledge(w)
        BY <4>1, MaxCopiesType DEF Receive, Delete, Acknowledge, MaxCopies
      <4>2. CASE IndexingFails(w)
        BY <4>2, MaxCopiesGrows
           DEF IndexingFails, IndexingRaises, WorkerDies, IndexingKilled, End, Redeliver
      <4> QED
        BY <2>3, <4>1, <4>2
    <3>3. /\ \A v \in Workers \ {w} : kbJob'[v] = kbJob[v]
          /\ kbJob'[w].at \in {"delete", "insert"} =>
               /\ kbJob[w].at \in {"delete", "insert"}
               /\ kbJob'[w].msg = kbJob[w].msg /\ kbJob'[w].seen = kbJob[w].seen
               /\ kbJob'[w].at = "insert" => kbJob'[w].seen \cap chunks \subseteq kbJob'[w].gone
      <4>1. CASE \E m \in KbMessage : Receive(w, m)
        BY <4>1 DEF Receive, KbTypeOK, NoKbJob
      <4>2. CASE Delete(w)
        <5>1. kbJob[w] \in KbJob
          BY <4>2, RunningIndexing DEF Delete
        <5> QED
          BY <4>2, <5>1 DEF Delete, KbTypeOK, KbJob
      <4>3. CASE Acknowledge(w) \/ IndexingRaises(w) \/ WorkerDies(w) \/ IndexingKilled(w)
        BY <4>3 DEF Acknowledge, IndexingRaises, WorkerDies, IndexingKilled, End, KbTypeOK, NoKbJob
      <4>4. CASE Redeliver(w)
        BY <4>4 DEF Redeliver, SnapshotsSound
      <4> QED
        BY <2>3, <4>1, <4>2, <4>3, <4>4 DEF IndexingFails
    <3>4. \A v \in Workers : kbJob[v].at = "insert" => kbJob[v].seen \cap chunks \subseteq kbJob[v].gone
      BY DEF SnapshotsSound
    <3> QED
      BY <2>1, <3>1, <3>2, <3>3, <3>4, QuietStep
  <2> QED
    BY <1>2, <2>2, <2>3 DEF Indexing
<1>3. CASE UNCHANGED kbVars
  <2>1. DeliveriesBounded'
    BY <1>3 DEF kbVars, DeliveriesBounded, Waiting, Running, MaxCopies
  <2>2. /\ chunks' = chunks /\ indexings' = indexings /\ kbJob' = kbJob
        /\ MaxCopies' = MaxCopies /\ MaxCopies \in Nat
    BY <1>3, MaxCopiesType DEF kbVars, MaxCopies
  <2>3. \A w \in Workers : kbJob[w].at = "insert" => kbJob[w].seen \cap chunks \subseteq kbJob[w].gone
    BY DEF SnapshotsSound
  <2> QED
    BY <2>1, <2>2, <2>3, QuietStep
<1> QED
  BY <1>1, <1>2, <1>3 DEF KbNext

\* Chunks are stored twice only because a task was delivered while it ran, and no
\* more often than that happened: what the DELETE of a task does not see is there
\* by an indexing that was delivered besides.
THEOREM CopiesTheorem == KbSpec => []CopiesAreOverlaps
<1>1. KbInit => CopiesIInv
  BY KbInitInv, InitDeliveries, InitCopies DEF CopiesIInv, KbIInv
<1>2. CopiesIInv => CopiesAreOverlaps
  <2> SUFFICES ASSUME CopiesIInv, NEW a \in Articles
               PROVE  Cardinality(Copies(a)) <= 1 + kbFaults["redelivered"]
    BY DEF CopiesAreOverlaps
  <2>1. {} \in SUBSET Replacing(a) /\ Spared(a, {}) = Copies(a)
    BY DEF Spared, SeenBy, Copies
  <2>2. IsFiniteSet(Copies(a)) /\ Cardinality(Copies(a)) + 0 <= MaxCopies
    BY <2>1, FS_EmptySet DEF CopiesIInv, CopiesBounded
  <2> QED
    BY <2>2, FS_CardinalityType DEF MaxCopies
<1> QED
  BY <1>1, <1>2, CopiesStep, KbInvariant, PTL DEF KbSpec

-----------------------------------------------------------------------------
\* The indexing of an article is under way and has not been committed.
Unfinished == {"read", "delete", "insert"}

InHand(a) == \E w \in Workers : kbJob[w].at \in Unfinished /\ kbJob[w].msg.article = a

Enqueued(a) == \E m \in KbMessage : m.article = a /\ kbQueue[m] > 0

\* The steps after which nobody is left to index an article: the broker is away,
\* a worker finds no row yet, a task's process is killed, the last retry fails.
LosesIndexing ==
  \/ \E a \in Articles : PostUnqueued(a)
  \/ \E w \in Workers, m \in KbMessage : Receive(w, m) /\ ~Stored(m.article)
  \/ \E w \in Workers :
       /\ kbJob[w].at \in Unfinished
       /\ IndexingKilled(w) \/ (kbJob[w].msg.tries = MaxRetries /\ IndexingRaises(w))

\* An article that is posted and has words can be found, or is to be indexed.
ArticlesArePursued ==
  \A a \in Articles :
    kbPost[a] \in {"open", "done"} /\ Length[a] > 0
      => Searchable(a) \/ Enqueued(a) \/ InHand(a)

\* The queue q' has what q had.
LEMMA MoreEnqueued ==
  ASSUME KbTypeOK, NEW a, Enqueued(a), NEW m \in KbMessage,
         \/ kbQueue' = kbQueue \/ kbQueue' = Plus(kbQueue, m) \/ kbQueue' = Retried(kbQueue, m)
  PROVE  Enqueued(a)'
<1>1. \A x \in KbMessage : kbQueue[x] > 0 => kbQueue'[x] > 0
  BY KbBounds DEF KbTypeOK, Plus, Retried, KbMessage
<1> QED
  BY <1>1 DEF Enqueued

\* A message that comes back is there, and a retry too, unless it was the last.
LEMMA ComesBack ==
  ASSUME KbTypeOK, NEW m \in KbMessage,
         \/ kbQueue' = Plus(kbQueue, m)
         \/ kbQueue' = Retried(kbQueue, m) /\ m.tries # MaxRetries
  PROVE  Enqueued(m.article)'
<1>1. \E n \in KbMessage : n.article = m.article /\ kbQueue' = Plus(kbQueue, n)
  <2>1. CASE kbQueue' = Plus(kbQueue, m)
    BY <2>1
  <2>2. CASE kbQueue' = Retried(kbQueue, m) /\ m.tries # MaxRetries
    <3> DEFINE n == [m EXCEPT !.tries = @ + 1]
    <3>1. m.tries < MaxRetries /\ n \in KbMessage /\ n.article = m.article
      BY <2>2, KbBounds DEF KbMessage
    <3>2. kbQueue' = Plus(kbQueue, n)
      BY <2>2, <3>1 DEF Retried
    <3> QED
      BY <3>1, <3>2
  <2> QED
    BY <2>1, <2>2
<1>2. PICK n \in KbMessage : n.article = m.article /\ kbQueue' = Plus(kbQueue, n)
  BY <1>1
<1>3. kbQueue'[n] > 0
  BY <1>2 DEF KbTypeOK, Plus
<1> QED
  BY <1>2, <1>3 DEF Enqueued

\* Slot w turns to something else: the articles in the hands of the others stay there.
LEMMA OthersInHand ==
  ASSUME KbTypeOK, NEW w \in Workers, NEW x, kbJob' = [kbJob EXCEPT ![w] = x],
         NEW a, InHand(a), ~(kbJob[w].at \in Unfinished /\ kbJob[w].msg.article = a)
  PROVE  InHand(a)'
<1>1. PICK v \in Workers : kbJob[v].at \in Unfinished /\ kbJob[v].msg.article = a
  BY DEF InHand
<1>2. kbJob'[v] = kbJob[v]
  BY <1>1 DEF KbTypeOK
<1> QED
  BY <1>1, <1>2 DEF InHand

\* A text with words has a first piece.
LEMMA FirstPiece == ASSUME NEW n \in Nat, n > 0 PROVE 0 \in Pieces(n)
<1>1. Step * 0 = 0 /\ 0..(0 - 1) = {}
  BY StepFacts
<1> QED
  BY <1>1 DEF Pieces

-----------------------------------------------------------------------------
LEMMA PostPursues ==
  ASSUME KbIInv, ArticlesArePursued, NEW b \in Articles, ~PostUnqueued(b),
         PostArticle(b) \/ PostUnqueued(b) \/ CommitArticle(b) \/ LoseArticle(b)
  PROVE  ArticlesArePursued'
<1> SUFFICES ASSUME NEW a \in Articles, kbPost'[a] \in {"open", "done"}, Length[a] > 0
             PROVE  Searchable(a)' \/ Enqueued(a)' \/ InHand(a)'
  BY DEF ArticlesArePursued
<1> DEFINE m == [article |-> b, tries |-> 0]
<1>1. /\ KbTypeOK /\ chunks' = chunks /\ kbJob' = kbJob /\ m \in KbMessage
      /\ kbQueue' = kbQueue \/ kbQueue' = Plus(kbQueue, m)
  BY KbBounds DEF KbIInv, PostArticle, CommitArticle, LoseArticle, KbMessage
<1>2. CASE PostArticle(b) /\ a = b
  <2>1. kbQueue' = Plus(kbQueue, m) /\ m.article = a
    BY <1>2 DEF PostArticle
  <2> HIDE DEF m
  <2> QED
    BY <1>1, <2>1, ComesBack
<1>3. CASE ~(PostArticle(b) /\ a = b)
  <2>1. kbPost[a] \in {"open", "done"}
    BY <1>1, <1>3 DEF KbTypeOK, PostArticle, CommitArticle, LoseArticle
  <2>2. Searchable(a) \/ Enqueued(a) \/ InHand(a)
    BY <2>1 DEF ArticlesArePursued
  <2>3. /\ Searchable(a) => Searchable(a)'
        /\ InHand(a) => InHand(a)'
    BY <1>1 DEF Searchable, Of, InHand
  <2> HIDE DEF m
  <2>4. Enqueued(a) => Enqueued(a)'
    BY <1>1, MoreEnqueued
  <2> QED
    BY <2>2, <2>3, <2>4
<1> QED
  BY <1>2, <1>3

LEMMA ReceivePursues ==
  ASSUME KbIInv, ArticlesArePursued, NEW w \in Workers, NEW m \in KbMessage,
         Receive(w, m), Stored(m.article)
  PROVE  ArticlesArePursued'
<1> DEFINE j == [msg |-> m, at |-> "read", seen |-> {}, gone |-> {}]
<1>1. /\ KbTypeOK /\ chunks' = chunks /\ kbPost' = kbPost /\ kbJob[w] = NoKbJob
      /\ kbQueue' = Minus(kbQueue, m) /\ kbJob' = [kbJob EXCEPT ![w] = j]
  BY DEF KbIInv, Receive
<1> SUFFICES ASSUME NEW a \in Articles, kbPost[a] \in {"open", "done"}, Length[a] > 0
             PROVE  Searchable(a)' \/ Enqueued(a)' \/ InHand(a)'
  BY <1>1 DEF ArticlesArePursued
<1>2. CASE m.article = a
  <2>1. kbJob'[w] = j /\ j.at = "read" /\ j.msg.article = a
    BY <1>1, <1>2 DEF KbTypeOK
  <2> HIDE DEF j
  <2> QED
    BY <2>1 DEF InHand, Unfinished
<1>3. CASE m.article # a
  <2>1. Searchable(a) \/ Enqueued(a) \/ InHand(a)
    BY DEF ArticlesArePursued
  <2>2. Searchable(a) => Searchable(a)'
    BY <1>1 DEF Searchable, Of
  <2>3. Enqueued(a) => Enqueued(a)'
    <3> SUFFICES ASSUME NEW x \in KbMessage, x.article = a, kbQueue[x] > 0
                 PROVE  kbQueue'[x] > 0
      BY DEF Enqueued
    <3> QED
      BY <1>1, <1>3 DEF Minus, KbTypeOK
  <2> HIDE DEF j
  <2>4. kbJob[w].at \notin Unfinished
    BY <1>1 DEF NoKbJob, Unfinished
  <2>5. InHand(a) => InHand(a)'
    BY <1>1, <2>4, OthersInHand
  <2> QED
    BY <2>1, <2>2, <2>3, <2>5
<1> QED
  BY <1>2, <1>3

\* Snapshot and deletion keep the article in hand; after the commit it can be found.
LEMMA IndexingPursues ==
  ASSUME KbIInv, ArticlesArePursued, NEW w \in Workers,
         Snapshot(w) \/ Delete(w) \/ CommitIndexing(w) \/ Acknowledge(w),
         \A a \in Articles : Searchable(a) => Searchable(a)'
  PROVE  ArticlesArePursued'
<1>1. KbTypeOK /\ kbPost' = kbPost /\ kbQueue' = kbQueue
  BY DEF KbIInv, Snapshot, Delete, CommitIndexing, Acknowledge
<1> SUFFICES ASSUME NEW a \in Articles, kbPost[a] \in {"open", "done"}, Length[a] > 0
             PROVE  Searchable(a)' \/ Enqueued(a)' \/ InHand(a)'
  BY <1>1 DEF ArticlesArePursued
<1>2. Searchable(a)' \/ Enqueued(a)' \/ InHand(a)
  BY <1>1 DEF ArticlesArePursued, Enqueued
<1>3. ASSUME InHand(a), ~(kbJob[w].at \in Unfinished /\ kbJob[w].msg.article = a)
      PROVE  InHand(a)'
  <2>1. PICK v \in Workers : kbJob[v].at \in Unfinished /\ kbJob[v].msg.article = a
    BY <1>3 DEF InHand
  <2>2. kbJob'[v] = kbJob[v]
    BY <1>1, <1>3, <2>1 DEF KbTypeOK, Snapshot, Delete, CommitIndexing, Acknowledge
  <2> QED
    BY <2>1, <2>2 DEF InHand
<1>4. CASE kbJob[w].at \in Unfinished /\ kbJob[w].msg.article = a
  <2>1. kbJob[w] \in KbJob
    BY <1>1, <1>4, RunningIndexing DEF Unfinished
  <2>2. CASE Snapshot(w)
    <3>1. kbJob'[w].at = "delete" /\ kbJob'[w].msg = kbJob[w].msg
      BY <1>1, <2>1, <2>2 DEF Snapshot, KbTypeOK, KbJob
    <3> QED
      BY <1>4, <3>1 DEF InHand, Unfinished
  <2>3. CASE Delete(w)
    <3>1. kbJob'[w].at = "insert" /\ kbJob'[w].msg = kbJob[w].msg
      BY <1>1, <2>1, <2>3 DEF Delete, KbTypeOK, KbJob
    <3> QED
      BY <1>4, <3>1 DEF InHand, Unfinished
  <2>4. CASE CommitIndexing(w)
    <3>1. New(a, indexings + 1) \subseteq chunks'
      BY <1>4, <2>4 DEF CommitIndexing
    <3>2. 0 \in Pieces(Length[a])
      BY KbBounds, FirstPiece
    <3> DEFINE c == [article |-> a, piece |-> 0, by |-> indexings + 1]
    <3>3. c \in New(a, indexings + 1) /\ c.article = a
      BY <3>2 DEF New
    <3> HIDE DEF c
    <3> QED
      BY <3>1, <3>3 DEF Searchable, Of
  <2>5. CASE Acknowledge(w)
    BY <1>4, <2>5 DEF Acknowledge, Unfinished
  <2> QED
    BY <2>2, <2>3, <2>4, <2>5
<1> QED
  BY <1>2, <1>3, <1>4

\* A task that fails comes back, or had committed already.
LEMMA FailurePursues ==
  ASSUME KbIInv, ArticlesArePursued, NEW w \in Workers, IndexingFails(w), ~LosesIndexing
  PROVE  ArticlesArePursued'
<1> DEFINE m == kbJob[w].msg
<1>1. kbJob[w] # NoKbJob
  BY DEF IndexingFails, IndexingRaises, WorkerDies, IndexingKilled, Redeliver, End
<1>2. /\ KbTypeOK /\ m \in KbMessage /\ kbPost' = kbPost /\ chunks' = chunks
      /\ kbQueue' = kbQueue \/ kbQueue' = Plus(kbQueue, m) \/ kbQueue' = Retried(kbQueue, m)
      /\ kbJob' = kbJob \/ kbJob' = [kbJob EXCEPT ![w] = NoKbJob]
  BY <1>1, RunningIndexing
     DEF KbIInv, IndexingFails, IndexingRaises, WorkerDies, IndexingKilled, Redeliver, End
<1> SUFFICES ASSUME NEW a \in Articles, kbPost[a] \in {"open", "done"}, Length[a] > 0
             PROVE  Searchable(a)' \/ Enqueued(a)' \/ InHand(a)'
  BY <1>2 DEF ArticlesArePursued
<1>3. Searchable(a) \/ Enqueued(a) \/ InHand(a)
  BY DEF ArticlesArePursued
<1>4. Searchable(a) => Searchable(a)'
  BY <1>2 DEF Searchable, Of
<1>5. CASE kbJob[w].at \in Unfinished /\ m.article = a
  <2>1. \/ kbQueue' = Plus(kbQueue, m)
        \/ kbQueue' = Retried(kbQueue, m) /\ m.tries # MaxRetries
    BY <1>5 DEF LosesIndexing, IndexingFails, IndexingRaises, WorkerDies, IndexingKilled,
       Redeliver, End
  <2> HIDE DEF m
  <2> QED
    BY <1>2, <1>5, <2>1, ComesBack
<1>6. CASE ~(kbJob[w].at \in Unfinished /\ m.article = a)
  <2>1. InHand(a) => InHand(a)'
    BY <1>2, <1>6, OthersInHand DEF InHand
  <2> HIDE DEF m
  <2>2. Enqueued(a) => Enqueued(a)'
    BY <1>2, MoreEnqueued
  <2> QED
    BY <1>3, <1>4, <2>1, <2>2
<1> QED
  BY <1>5, <1>6

\* A posted article with words can be found, or is enqueued or being indexed, as
\* long as the broker takes its message, no worker is faster than the commit of
\* the request, no process is killed and no task is given up: no crash, overlap or
\* redelivery does any harm, and these four are the only ways to lose an article.
THEOREM OnlyTheseLoseArticles == KbSpec /\ [][~LosesIndexing]_kbVars => []ArticlesArePursued
<1>1. KbInit => ArticlesArePursued
  BY DEF KbInit, ArticlesArePursued
<1>2. ASSUME KbIInv, ArticlesArePursued, [KbNext]_kbVars, [~LosesIndexing]_kbVars
      PROVE  ArticlesArePursued'
  <2>1. CASE UNCHANGED kbVars
    BY <1>2, <2>1 DEF kbVars, ArticlesArePursued, Searchable, Of, Enqueued, InHand
  <2>2. CASE ~UNCHANGED kbVars
    <3>1. ASSUME NEW a \in Articles,
                 PostArticle(a) \/ PostUnqueued(a) \/ CommitArticle(a) \/ LoseArticle(a)
          PROVE  ArticlesArePursued'
      BY <1>2, <2>2, <3>1, PostPursues DEF LosesIndexing
    <3>2. ASSUME NEW w \in Workers, Indexing(w) PROVE ArticlesArePursued'
      BY <1>2, <2>2, <3>2, ReceivePursues, IndexingPursues, SearchableStays
         DEF Indexing, LosesIndexing
    <3>3. ASSUME NEW w \in Workers, IndexingFails(w) PROVE ArticlesArePursued'
      BY <1>2, <2>2, <3>3, FailurePursues
    <3> QED
      BY <1>2, <2>2, <3>1, <3>2, <3>3 DEF KbNext
  <2> QED
    BY <2>1, <2>2
<1> QED
  BY <1>1, <1>2, KbInvariant, PTL DEF KbSpec

-----------------------------------------------------------------------------
\* The rules count whatever is found: the category they settle on has the most
\* keywords, and is the first of those that tie.
LEMMA CategoriesAreBest == ASSUME NEW x \in Texts PROVE IsBest(x, RuleCategory(x))
<1> DEFINE b == x.score["billing"]
           t == x.score["technical"]
           a == x.score["account"]
<1>1. /\ CategoryOrder[1] = "billing" /\ CategoryOrder[2] = "technical"
      /\ CategoryOrder[3] = "account" /\ DOMAIN CategoryOrder = 1..3
      /\ ToSet(CategoryOrder) = {"billing", "technical", "account"}
  <2>1. CategoryOrder \in Seq({"billing", "technical", "account"}) /\ Len(CategoryOrder) = 3
    BY DEF CategoryOrder
  <2> QED
    BY <2>1 DEF CategoryOrder, ToSet
<1>2. b \in Nat /\ t \in Nat /\ a \in Nat
  BY <1>1 DEF Texts
<1>3. /\ Score(x, "general") = 0 /\ Score(x, "billing") = b
      /\ Score(x, "technical") = t /\ Score(x, "account") = a
  BY DEF Score
<1>4. RuleCategory(x) = IF a > b /\ a > t /\ a > 0 THEN "account"
                        ELSE IF t > b /\ t > 0 THEN "technical"
                        ELSE IF b > 0 THEN "billing" ELSE "general"
  <2> HIDE DEF b, t, a
  <2> QED
    BY <1>1, <1>2, <1>3 DEF RuleCategory, Better
<1>5. CASE RuleCategory(x) = "general"
  <2>1. b = 0 /\ t = 0 /\ a = 0
    BY <1>2, <1>4, <1>5
  <2> QED
    BY <1>1, <1>5, <2>1 DEF IsBest
<1>6. ASSUME NEW i \in 1..3, RuleCategory(x) = CategoryOrder[i]
      PROVE  IsBest(x, RuleCategory(x))
  <2>1. \A j \in 1..3 :
          Score(x, CategoryOrder[j]) + (IF j < i THEN 1 ELSE 0) <= Score(x, CategoryOrder[i])
    <3> HIDE DEF b, t, a
    <3> QED
      BY <1>1, <1>2, <1>3, <1>4, <1>6
  <2> QED
    BY <1>1, <1>6, <2>1 DEF IsBest
<1> QED
  BY <1>1, <1>4, <1>5, <1>6

\* Whatever the provider, its answer and the text.
LEMMA LabelsAreRight == EveryLabelIsRight
<1> SUFFICES ASSUME NEW p \in Providers, NEW ans \in Answers, NEW x \in Texts
             PROVE  LET l == Label(p, ans, x)
                    IN /\ l.priority \in Priorities
                       /\ ~Storable(l) => HasModel(p) /\ (l.category = "long" \/ l.confidence = "huge")
                       /\ l.confidence = "rules" => IsBest(x, l.category)
  BY DEF EveryLabelIsRight
<1>1. CASE HasModel(p) /\ Parses(ans)
  <2>1. Label(p, ans, x) = ans
    BY <1>1 DEF Label
  <2>2. ans.priority \in Priorities /\ ans.confidence # "rules"
    BY <1>1 DEF Parses, Answers, NoAnswer
  <2> QED
    BY <1>1, <2>1, <2>2 DEF Storable
<1>2. CASE ~(HasModel(p) /\ Parses(ans))
  <2>1. Label(p, ans, x) = RuleLabel(x)
    BY <1>2 DEF Label
  <2>2. RulePriority(x) \in Priorities
    BY DEF RulePriority, Texts, Priorities
  <2>3. RuleCategory(x) # "long"
    BY DEF RuleCategory, Better, CategoryOrder
  <2> QED
    BY <2>1, <2>2, <2>3, CategoriesAreBest DEF RuleLabel, Storable
<1> QED
  BY <1>1, <1>2

\* The rules are the last resort of every label, and they never give one that
\* could not be stored or that another category deserves more.
THEOREM LabelTheorem == Spec => []LabelIsRight
<1>1. LabelIsRight
  BY LabelsAreRight DEF LabelIsRight
<1> QED
  BY <1>1, PTL

-----------------------------------------------------------------------------
\* The drafting side reads the knowledge base and never changes it: what holds of
\* the indexing alone holds of the two together.
THEOREM DraftingImplementsIndexing == Spec => KbSpec
<1>1. Init => KbInit
  BY DEF Init
<1>2. [Next]_allVars => [KbNext]_kbVars
  BY DEF Next, allVars
<1> QED
  BY <1>1, <1>2, PTL DEF Spec, KbSpec

\* A row that was in the table: a piece of the text of an article that is stored.
WasIndexed(c) == /\ c \in Chunk /\ Stored(c.article)
                 /\ c.piece \in Pieces(Length[c.article])

Draft == [reply : {"extract", "model", "no grounding"}, from : {<<>>} \cup (Articles \X Nat),
          sources : SUBSET Articles]

DraftTypeOK ==
  /\ triaged \subseteq Tickets
  /\ results \in [Tickets -> {<<>>} \cup {<<S>> : S \in SUBSET Chunk}]
  /\ suggestion \in [Tickets -> Draft \cup {None}]
  /\ known \in [Tickets -> SUBSET Articles]

\* What a search retrieved were rows of the table, whatever became of them since.
ResultsWereIndexed ==
  \A t \in Tickets : results[t] # <<>> => \A c \in results[t][1] : WasIndexed(c)

\* An article that was known keeps a row as near to the ticket as the one it was
\* known by: an indexing replaces each piece by the same piece.
KnownStaysKnown ==
  \A t \in Tickets : \A a \in known[t] : \E c \in Of(a) : Sim(t, c) >= Threshold

\* So a search finds something, and a draft made of it has sources.
KnownIsFound ==
  \A t \in Tickets :
    results[t] # <<>> /\ known[t] # {} => Grounded(t, results[t][1]) # {}

\* Nothing is searched or stored for a ticket before it is labelled.
LabelledFirst ==
  \A t \in Tickets \ triaged : results[t] = <<>> /\ suggestion[t] = None

DraftsIInv ==
  /\ DraftTypeOK
  /\ IsFiniteSet(chunks)
  /\ LabelledFirst
  /\ ResultsWereIndexed /\ DraftsAreGrounded
  /\ KnownStaysKnown /\ KnownIsFound /\ KnownIsUsed

-----------------------------------------------------------------------------
LEMMA Similarities ==
  ASSUME NEW t \in Tickets, NEW c, WasIndexed(c)
  PROVE  Sim(t, c) \in Int /\ Threshold \in Int
BY DraftingAssumption DEF WasIndexed, Sim, Chunk

LEMMA RowsWereIndexed == ASSUME KbIInv, NEW c \in chunks PROVE WasIndexed(c)
BY DEF KbIInv, KbTypeOK, RowsSound, WasIndexed

\* The rows of an indexing are finitely many.
LEMMA NewFinite ==
  ASSUME NEW a \in Articles, NEW by \in Nat
  PROVE  IsFiniteSet(New(a, by))
<1> DEFINE P == Pieces(Length[a])
<1>1. IsFiniteSet(P)
  <2>1. Length[a] \in Nat
    BY KbBounds
  <2>2. P \subseteq 0..Length[a] /\ IsFiniteSet(0..Length[a])
    BY <2>1, FS_Interval DEF Pieces
  <2> QED
    BY <2>2, FS_Subset
<1> DEFINE f == [k \in P |-> [article |-> a, piece |-> k, by |-> by]]
<1>2. f \in Surjection(P, New(a, by))
  BY DEF Surjection, New
<1> QED
  BY <1>1, <1>2, FS_Surjection

LEMMA DraftsInit == Init => DraftsIInv
<1> SUFFICES ASSUME Init PROVE DraftsIInv
  OBVIOUS
<1> USE DEF Init, KbInit
<1>1. DraftTypeOK /\ LabelledFirst
  BY DEF DraftTypeOK, LabelledFirst
<1>2. IsFiniteSet(chunks)
  BY FS_EmptySet
<1>3. ResultsWereIndexed /\ DraftsAreGrounded
  BY DEF ResultsWereIndexed, DraftsAreGrounded
<1>4. KnownStaysKnown /\ KnownIsFound /\ KnownIsUsed
  BY DEF KnownStaysKnown, KnownIsFound, KnownIsUsed
<1> QED
  BY <1>1, <1>2, <1>3, <1>4 DEF DraftsIInv

\* What an indexing does to the drafts: it leaves stored articles stored, the table
\* finite, and every known article known.
LEMMA IndexingKeepsDrafts ==
  ASSUME KbIInv, DraftsIInv, [KbNext]_kbVars, UNCHANGED draftVars
  PROVE  DraftsIInv'
<1> USE DEF DraftsIInv, draftVars
<1>1. DraftTypeOK' /\ LabelledFirst' /\ KnownIsUsed'
  BY DEF DraftTypeOK, LabelledFirst, KnownIsUsed
<1>2. \A a \in Articles : Stored(a) => Stored(a)'
  <2>1. ASSUME NEW a \in Articles, Stored(a) PROVE Stored(a)'
    BY <2>1 DEF KbNext, kbVars, Indexing, IndexingFails, PostArticle, PostUnqueued, CommitArticle,
           LoseArticle, Receive, Snapshot, Delete, CommitIndexing, Acknowledge, IndexingRaises,
           WorkerDies, IndexingKilled, End, Redeliver, Stored, KbIInv, KbTypeOK
  <2> QED
    BY <2>1
<1>3. ResultsWereIndexed'
  BY <1>2 DEF ResultsWereIndexed, WasIndexed, Chunk
<1>4. DraftsAreGrounded'
  <2>1. \A t \in Tickets : suggestion[t] # None => suggestion[t].sources \subseteq Articles
    BY DEF DraftTypeOK, Draft
  <2> QED
    BY <1>2, <2>1 DEF DraftsAreGrounded
<1>5. KnownIsFound'
  BY DEF KnownIsFound, Grounded, Sim
<1>6. CASE chunks' = chunks
  BY <1>1, <1>3, <1>4, <1>5, <1>6 DEF KnownStaysKnown, Of, Sim
<1>7. ASSUME NEW w \in Workers, CommitIndexing(w) PROVE DraftsIInv'
  <2> DEFINE b == kbJob[w].msg.article
             n == indexings + 1
             g == kbJob[w].gone
  <2>1. b \in Articles /\ n \in Nat /\ Whole(g, b)
    BY <1>7, RunningIndexing DEF CommitIndexing, KbIInv, JobSound, KbTypeOK
  <2>2. chunks' = (chunks \ g) \cup New(b, n)
    BY <1>7 DEF CommitIndexing
  <2>3. IsFiniteSet(chunks')
    <3>1. IsFiniteSet(chunks \ g) /\ IsFiniteSet(New(b, n))
      BY <2>1, NewFinite, FS_Subset
    <3> QED
      BY <2>2, <3>1, FS_Union
  <2>4. KnownStaysKnown'
    <3> SUFFICES ASSUME NEW t \in Tickets, NEW a \in known[t]
                 PROVE  \E c \in Of(a)' : Sim(t, c) >= Threshold
      BY DEF KnownStaysKnown, Sim
    <3>1. PICK c \in Of(a) : Sim(t, c) >= Threshold
      BY DEF KnownStaysKnown
    <3>2. CASE c \notin g
      BY <2>2, <3>1, <3>2 DEF Of
    <3>3. CASE c \in g
      <4> DEFINE d == [article |-> a, piece |-> c.piece, by |-> n]
      <4>1. a = b /\ c.article = a
        BY <2>1, <3>1, <3>3 DEF Whole, Of
      <4>2. d \in New(b, n) /\ d.article = a /\ d.piece = c.piece
        BY <3>1, <4>1 DEF New, KbIInv, RowsSound, Of
      <4>3. Sim(t, d) = Sim(t, c)
        BY <4>1, <4>2 DEF Sim
      <4> HIDE DEF d
      <4> QED
        BY <2>2, <3>1, <4>2, <4>3 DEF Of
    <3> QED
      BY <3>2, <3>3
  <2> QED
    BY <1>1, <1>3, <1>4, <1>5, <2>3, <2>4
<1> QED
  BY <1>6, <1>7
     DEF KbNext, kbVars, Indexing, IndexingFails, PostArticle, PostUnqueued, CommitArticle,
         LoseArticle, Receive, Snapshot, Delete, Acknowledge, IndexingRaises, WorkerDies,
         IndexingKilled, End, Redeliver

LEMMA TriageKeepsDrafts ==
  ASSUME KbIInv, DraftsIInv, NEW t \in Tickets, Triage(t), UNCHANGED kbVars
  PROVE  DraftsIInv'
<1> USE DEF DraftsIInv, Triage, kbVars
<1> DEFINE K == {a \in Articles : \E c \in Of(a) : Sim(t, c) >= Threshold}
<1>1. results[t] = <<>> /\ suggestion[t] = None
  BY DEF LabelledFirst
<1>2. \A u \in Tickets : known'[u] = IF u = t THEN K ELSE known[u]
  BY DEF DraftTypeOK
<1>3. DraftTypeOK' /\ LabelledFirst'
  <2>1. known' = [known EXCEPT ![t] = K]
    OBVIOUS
  <2>2. K \in SUBSET Articles
    OBVIOUS
  <2> HIDE DEF K
  <2> QED
    BY <2>1, <2>2 DEF DraftTypeOK, LabelledFirst
<1>4. ResultsWereIndexed' /\ DraftsAreGrounded'
  BY DEF ResultsWereIndexed, DraftsAreGrounded, WasIndexed, Stored
<1>5. KnownStaysKnown'
  BY <1>2 DEF KnownStaysKnown, Of, Sim
<1>6. KnownIsFound' /\ KnownIsUsed'
  BY <1>1, <1>2 DEF KnownIsFound, KnownIsUsed, Grounded, Sim
<1>7. IsFiniteSet(chunks)'
  OBVIOUS
<1> QED
  BY <1>3, <1>4, <1>5, <1>6, <1>7

\* The nearest rows are among those a search returns: if the table has a row near
\* enough, so has the result.
LEMMA SearchFinds ==
  ASSUME KbIInv, IsFiniteSet(chunks), NEW t \in Tickets, NEW S \in Retrieved(t),
         NEW c \in chunks, Sim(t, c) >= Threshold
  PROVE  Grounded(t, S) # {}
<1>1. S \subseteq chunks /\ \A s \in S, d \in chunks \ S : Sim(t, s) >= Sim(t, d)
  BY DEF Retrieved
<1>2. Cardinality(chunks) \in Nat /\ Cardinality(chunks) # 0
  BY FS_CardinalityType, FS_EmptySet
<1>3. Cardinality(S) # 0
  BY <1>2, DraftingAssumption DEF Retrieved
<1>4. PICK s \in S : TRUE
  BY <1>3, FS_EmptySet
<1>5. CASE c \in S
  BY <1>5 DEF Grounded
<1>6. CASE c \notin S
  <2>1. Sim(t, s) >= Sim(t, c)
    BY <1>1, <1>4, <1>6
  <2>2. Sim(t, s) \in Int /\ Sim(t, c) \in Int /\ Threshold \in Int
    BY <1>1, <1>4, RowsWereIndexed, Similarities
  <2>3. Sim(t, s) >= Threshold
    BY <2>1, <2>2
  <2> QED
    BY <1>4, <2>3 DEF Grounded
<1> QED
  BY <1>5, <1>6

LEMMA SearchKeepsDrafts ==
  ASSUME KbIInv, DraftsIInv, NEW t \in Tickets, Search(t), UNCHANGED kbVars
  PROVE  DraftsIInv'
<1> USE DEF DraftsIInv, kbVars
<1>1. PICK S \in Retrieved(t) : results' = [results EXCEPT ![t] = <<S>>]
  BY DEF Search
<1>2. S \subseteq chunks /\ S \subseteq Chunk
  BY DEF Retrieved, KbIInv, KbTypeOK
<1>3. triaged' = triaged /\ suggestion' = suggestion /\ known' = known /\ t \in triaged
  BY DEF Search
<1>4. \A u \in Tickets : results'[u] = IF u = t THEN <<S>> ELSE results[u]
  BY <1>1 DEF DraftTypeOK
<1>5. DraftTypeOK'
  <2>1. <<S>> \in {<<R>> : R \in SUBSET Chunk}
    BY <1>2
  <2> QED
    BY <1>1, <1>3, <2>1 DEF DraftTypeOK
<1>6. LabelledFirst'
  BY <1>3, <1>4 DEF LabelledFirst
<1>7. ResultsWereIndexed'
  <2>1. \A c \in S : WasIndexed(c)
    BY <1>2, RowsWereIndexed
  <2>2. \A c : WasIndexed(c)' <=> WasIndexed(c)
    BY DEF WasIndexed, Stored
  <2>3. <<S>>[1] = S
    OBVIOUS
  <2> QED
    BY <1>4, <2>1, <2>2, <2>3 DEF ResultsWereIndexed
<1>8. DraftsAreGrounded' /\ KnownStaysKnown' /\ KnownIsUsed'
  BY <1>3 DEF DraftsAreGrounded, KnownStaysKnown, KnownIsUsed, Stored, Of, Sim
<1>9. KnownIsFound'
  <2>1. known[t] # {} => Grounded(t, S) # {}
    <3> SUFFICES ASSUME NEW a \in known[t] PROVE Grounded(t, S) # {}
      OBVIOUS
    <3>1. PICK c \in Of(a) : Sim(t, c) >= Threshold
      BY DEF KnownStaysKnown
    <3> QED
      BY <3>1, SearchFinds DEF Of
  <2>2. <<S>>[1] = S
    OBVIOUS
  <2> QED
    BY <1>3, <1>4, <2>1, <2>2 DEF KnownIsFound, Grounded, Sim
<1> QED
  BY <1>5, <1>6, <1>7, <1>8, <1>9

\* What a provider makes of rows that were in the table.
LEMMA DraftsOfRows ==
  ASSUME NEW t \in Tickets, NEW S \in SUBSET Chunk, \A c \in S : WasIndexed(c),
         NEW p \in Providers, NEW d \in Drafts(p, t, S)
  PROVE  /\ d \in Draft /\ d # None
         /\ d.reply = "no grounding" <=> d.sources = {}
         /\ Grounded(t, S) # {} => d.sources # {}
         /\ \A a \in d.sources :
              /\ Stored(a)
              /\ \E k \in Pieces(Length[a]) : Similarity(t, a, k) >= Threshold
         /\ d.reply = "extract" =>
              /\ d.from[1] \in d.sources
              /\ \A a \in d.sources : \E k \in Pieces(Length[a]) :
                   /\ Similarity(t, a, k) >= Threshold
                   /\ Similarity(t, a, k) <= Similarity(t, d.from[1], d.from[2])
<1> DEFINE G == Grounded(t, S)
           Best == {c \in G : \A e \in G : Sim(t, c) >= Sim(t, e)}
           Extract(c) == [reply |-> "extract", from |-> <<c.article, c.piece>>,
                          sources |-> Sources(G)]
           Model == [reply |-> "model", from |-> <<>>, sources |-> Sources(G)]
           Nothing == [reply |-> "no grounding", from |-> <<>>, sources |-> {}]
<1>1. \A c \in G : /\ WasIndexed(c) /\ c \in Chunk /\ Sim(t, c) >= Threshold
                  /\ c.article \in Articles /\ c.piece \in Nat
  BY DEF Grounded, Chunk
<1>2. Sources(G) \subseteq Articles /\ (Sources(G) = {} <=> G = {})
  BY <1>1 DEF Sources
<1>3. ASSUME NEW a \in Sources(G)
      PROVE  /\ Stored(a)
             /\ \E k \in Pieces(Length[a]) : Similarity(t, a, k) >= Threshold
             /\ \A c \in Best : \E k \in Pieces(Length[a]) :
                  /\ Similarity(t, a, k) >= Threshold
                  /\ Similarity(t, a, k) <= Similarity(t, c.article, c.piece)
  <2>1. PICK e \in G : e.article = a
    BY DEF Sources
  <2>2. /\ Stored(a) /\ e.piece \in Pieces(Length[a])
        /\ Similarity(t, a, e.piece) >= Threshold
    BY <1>1, <2>1 DEF WasIndexed, Sim
  <2>3. ASSUME NEW c \in Best
        PROVE  Similarity(t, a, e.piece) <= Similarity(t, c.article, c.piece)
    <3>1. Sim(t, c) >= Sim(t, e)
      OBVIOUS
    <3>2. Sim(t, c) \in Int /\ Sim(t, e) \in Int
      BY <1>1, Similarities
    <3> QED
      BY <2>1, <3>1, <3>2 DEF Sim
  <2> QED
    BY <2>2, <2>3
<1>4. CASE G = {}
  <2>1. d = Nothing
    BY <1>4 DEF Drafts
  <2> QED
    BY <1>4, <2>1 DEF Draft, None
<1>5. CASE G # {} /\ d = Model
  BY <1>2, <1>3, <1>5 DEF Draft, None
<1>6. ASSUME G # {}, NEW c \in Best, d = Extract(c)
      PROVE  /\ d \in Draft /\ d # None
             /\ d.reply = "extract" /\ d.sources = Sources(G)
             /\ d.from[1] = c.article /\ d.from[2] = c.piece
             /\ d.from[1] \in Sources(G)
  <2>1. c \in G /\ <<c.article, c.piece>> \in Articles \X Nat
    BY <1>1
  <2>2. c.article \in Sources(G)
    BY <2>1 DEF Sources
  <2> QED
    BY <1>2, <1>6, <2>1, <2>2 DEF Draft, None
<1>7. ASSUME G # {}, NEW c \in Best, d = Extract(c)
      PROVE  /\ d.reply = "no grounding" <=> d.sources = {}
             /\ d.sources # {}
             /\ \A a \in d.sources :
                  /\ Stored(a)
                  /\ \E k \in Pieces(Length[a]) : Similarity(t, a, k) >= Threshold
                  /\ \E k \in Pieces(Length[a]) :
                       /\ Similarity(t, a, k) >= Threshold
                       /\ Similarity(t, a, k) <= Similarity(t, d.from[1], d.from[2])
  BY <1>2, <1>3, <1>6, <1>7
<1>8. G = {} \/ d = Model \/ \E c \in Best : d = Extract(c)
  BY DEF Drafts
<1> QED
  BY <1>4, <1>5, <1>6, <1>7, <1>8

LEMMA StoreKeepsDrafts ==
  ASSUME KbIInv, DraftsIInv, NEW t \in Tickets, Store(t) \/ StoreFails(t), UNCHANGED kbVars
  PROVE  DraftsIInv'
<1> USE DEF DraftsIInv, kbVars
<1> DEFINE S == results[t][1]
<1>1. results[t] # <<>> /\ S \in SUBSET Chunk /\ \A c \in S : WasIndexed(c)
  BY DEF Store, StoreFails, DraftTypeOK, ResultsWereIndexed
<1>2. triaged' = triaged /\ known' = known /\ results' = [results EXCEPT ![t] = <<>>]
  BY DEF Store, StoreFails
<1>3. t \in triaged
  BY <1>1 DEF LabelledFirst
<1>4. \A u \in Tickets : results'[u] = IF u = t THEN <<>> ELSE results[u]
  BY <1>2 DEF DraftTypeOK
<1>5. IsFiniteSet(chunks)' /\ ResultsWereIndexed' /\ KnownStaysKnown' /\ KnownIsFound'
  BY <1>2, <1>4 DEF ResultsWereIndexed, WasIndexed, Stored, KnownStaysKnown, Of, Sim,
                    KnownIsFound, Grounded
<1>6. CASE StoreFails(t)
  <2>1. suggestion' = suggestion
    BY <1>6 DEF StoreFails
  <2>2. DraftTypeOK' /\ LabelledFirst'
    BY <1>2, <1>4, <2>1 DEF DraftTypeOK, LabelledFirst
  <2>3. DraftsAreGrounded' /\ KnownIsUsed'
    BY <1>2, <2>1 DEF DraftsAreGrounded, KnownIsUsed, Stored
  <2> QED
    BY <1>5, <2>2, <2>3
<1>7. CASE Store(t)
  <2>1. PICK p \in Providers : \E d \in Drafts(p, t, S) :
          suggestion' = [suggestion EXCEPT ![t] = d]
    BY <1>7 DEF Store
  <2>2. PICK d \in Drafts(p, t, S) : suggestion' = [suggestion EXCEPT ![t] = d]
    BY <2>1
  <2>3. /\ d \in Draft /\ d # None
        /\ d.reply = "no grounding" <=> d.sources = {}
        /\ Grounded(t, S) # {} => d.sources # {}
        /\ \A a \in d.sources :
             /\ Stored(a)
             /\ \E k \in Pieces(Length[a]) : Similarity(t, a, k) >= Threshold
        /\ d.reply = "extract" =>
             /\ d.from[1] \in d.sources
             /\ \A a \in d.sources : \E k \in Pieces(Length[a]) :
                  /\ Similarity(t, a, k) >= Threshold
                  /\ Similarity(t, a, k) <= Similarity(t, d.from[1], d.from[2])
    BY <1>1, DraftsOfRows
  <2>4. \A u \in Tickets : suggestion'[u] = IF u = t THEN d ELSE suggestion[u]
    BY <2>2 DEF DraftTypeOK
  <2>5. DraftTypeOK' /\ LabelledFirst'
    BY <1>2, <1>3, <1>4, <2>2, <2>3, <2>4 DEF DraftTypeOK, LabelledFirst
  <2>6. DraftsAreGrounded'
    BY <2>3, <2>4 DEF DraftsAreGrounded, Stored
  <2>7. KnownIsUsed'
    <3>1. known[t] # {} => d.sources # {}
      BY <1>1, <2>3 DEF KnownIsFound
    <3> QED
      BY <1>2, <2>4, <3>1 DEF KnownIsUsed
  <2> QED
    BY <1>5, <2>5, <2>6, <2>7
<1> QED
  BY <1>6, <1>7

LEMMA DraftsStep == KbIInv /\ DraftsIInv /\ [Next]_allVars => DraftsIInv'
<1> SUFFICES ASSUME KbIInv, DraftsIInv, [Next]_allVars PROVE DraftsIInv'
  OBVIOUS
<1>1. CASE UNCHANGED allVars \/ (KbNext /\ UNCHANGED draftVars)
  BY <1>1, IndexingKeepsDrafts DEF allVars
<1>2. ASSUME NEW t \in Tickets, DraftStep(t) /\ UNCHANGED kbVars PROVE DraftsIInv'
  BY <1>2, TriageKeepsDrafts, SearchKeepsDrafts, StoreKeepsDrafts DEF DraftStep
<1> QED
  BY <1>1, <1>2 DEF Next

LEMMA DraftsInvariant == Spec => []DraftsIInv
<1>1. Spec => []KbIInv
  BY DraftingImplementsIndexing, KbInvariant, PTL
<1> QED
  BY <1>1, DraftsInit, DraftsStep, PTL DEF Spec

\* Between the search and the answer chunks are replaced, and the answer may be an
\* extract, a model's or none: still its sources are stored articles near enough to
\* the ticket, and an extract is of a piece that was indexed.
THEOREM DraftsTheorem == Spec => []DraftsAreGrounded
<1>1. DraftsIInv => DraftsAreGrounded
  BY DEF DraftsIInv
<1> QED
  BY <1>1, DraftsInvariant, PTL

\* However many articles, copies and workers there are: what was known when a
\* ticket was labelled is still found when it is searched for, by any top_k.
THEOREM KnownTheorem == Spec => []KnownIsUsed
<1>1. DraftsIInv => KnownIsUsed
  BY DEF DraftsIInv
<1> QED
  BY <1>1, DraftsInvariant, PTL

=============================================================================
