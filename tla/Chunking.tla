------------------------------ MODULE Chunking ------------------------------
(* How a text becomes chunks: overlapping windows over its words.  A text is *)
(* the number of its words, a chunk the set of positions of the words in it. *)
EXTENDS Integers

CONSTANTS
  ChunkSize,  \* chunk_size_words, 250 in the code
  Overlap     \* overlap_words, 50 in the code

ASSUME ChunkingAssumption ==
  /\ ChunkSize \in Nat
  /\ Overlap \in Nat
  /\ Overlap < ChunkSize

Step == ChunkSize - Overlap

\* words[start : start + chunk_size_words], for the k-th start of the loop.
Window(n, k) == {w \in 1..n : Step * k < w /\ w <= Step * k + ChunkSize}

\* Variant: the loop goes on while windows begin inside the text.
EndsTextNever(n, k) == Step * k >= n

\* The break: the k-th window reaches the end of the text.
EndsText(n, k) == Step * k + ChunkSize >= n

\* The windows the loop gets to: range(0, len(words), step), up to the break.
Pieces(n) ==
  {k \in 0..n : /\ Step * k < n
                /\ \A j \in 0..(k - 1) : ~EndsText(n, j)}

\* Every word is in a chunk.
Covers(n) == \A w \in 1..n : \E k \in Pieces(n) : w \in Window(n, k)

\* No chunk lies within another one.
Irredundant(n) ==
  \A j, k \in Pieces(n) : Window(n, j) \subseteq Window(n, k) => j = k

=============================================================================
