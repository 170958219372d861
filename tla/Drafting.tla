------------------------------ MODULE Drafting ------------------------------
(* Drafts of replies, grounded in what the knowledge base has indexed: the   *)
(* suggestion task searches the committed chunks, asks the provider, falls   *)
(* back to an extract, and stores one suggestion for the ticket.             *)
EXTENDS KbIndex, Classification

CONSTANTS
  Tickets,            \* tickets to be labelled and drafted
  TopK,               \* _TOP_K, 3 in the code
  Threshold,          \* SIMILARITY_THRESHOLD
  Similarity(_, _, _) \* Similarity(t, a, k): of the text of t to piece k of a

\* A search asks for a row at least; a number stands for a similarity.
ASSUME DraftingAssumption ==
  /\ TopK \in Nat \ {0}
  /\ Threshold \in Int
  /\ \A t \in Tickets, a \in Articles : \A k \in Pieces(Length[a]) : Similarity(t, a, k) \in Int

VARIABLES
  triaged,     \* tickets whose label is committed
  results,     \* results[t]: what the suggestion task of t retrieved, if it has
  suggestion,  \* suggestion[t]: the row in ai_suggestions
  known        \* known[t]: relevant articles searchable when t was labelled

draftVars == <<triaged, results, suggestion, known>>

allVars == <<kbVars, draftVars>>

None == [reply |-> "none yet"]

\* Similarity of the ticket's text to a row.
Sim(t, c) == Similarity(t, c.article, c.piece)

\* Variant: a chunk at the threshold is left out.
GroundedAbove(t, S) == {c \in S : Sim(t, c) > Threshold}

\* Variant: every chunk that was retrieved counts.
GroundedAll(t, S) == S

Grounded(t, S) == {c \in S : Sim(t, c) >= Threshold}

\* ORDER BY distance LIMIT top_k, ties in any order.
Retrieved(t) ==
  {S \in SUBSET chunks :
     /\ Cardinality(S) = IF Cardinality(chunks) < TopK THEN Cardinality(chunks) ELSE TopK
     /\ \A c \in S, d \in chunks \ S : Sim(t, c) >= Sim(t, d)}

\* dict.fromkeys(c.article_id for c in grounded_chunks)
Sources(S) == {c.article : c \in S}

\* The drafts provider p may come to, from the retrieved rows S: nothing to say
\* without grounding, the model's reply, or an extract of a best chunk if there
\* is no model or it raises.
Drafts(p, t, S) ==
  LET G == Grounded(t, S)
      Best == {c \in G : \A d \in G : Sim(t, c) >= Sim(t, d)}
      Extracts == {[reply |-> "extract", from |-> <<c.article, c.piece>>,
                    sources |-> Sources(G)] : c \in Best}
  IN IF G = {} THEN {[reply |-> "no grounding", from |-> <<>>, sources |-> {}]}
     ELSE Extracts \cup (IF HasModel(p)
                         THEN {[reply |-> "model", from |-> <<>>, sources |-> Sources(G)]}
                         ELSE {})

-----------------------------------------------------------------------------
\* The classify task commits its label and chains the suggestion (module
\* TicketPipeline has the details).
Triage(t) ==
  /\ t \notin triaged
  /\ triaged' = triaged \cup {t}
  /\ known' = [known EXCEPT ![t] =
       {a \in Articles : \E c \in Of(a) : Sim(t, c) >= Threshold}]
  /\ UNCHANGED <<results, suggestion>>

\* The suggestion task finds no suggestion and searches.
Search(t) ==
  /\ t \in triaged
  /\ suggestion[t] = None
  /\ results[t] = <<>>
  /\ \E S \in Retrieved(t) : results' = [results EXCEPT ![t] = <<S>>]
  /\ UNCHANGED <<triaged, suggestion, known>>

\* The draft is stored; workers of different settings may do it.
Store(t) ==
  /\ results[t] # <<>>
  /\ \E p \in Providers : \E d \in Drafts(p, t, results[t][1]) :
       suggestion' = [suggestion EXCEPT ![t] = d]
  /\ results' = [results EXCEPT ![t] = <<>>]
  /\ UNCHANGED <<triaged, known>>

\* The task raises and is retried: the database is away, or Groq answered
\* without content, which the column refuses and no fallback catches.
StoreFails(t) ==
  /\ results[t] # <<>>
  /\ results' = [results EXCEPT ![t] = <<>>]
  /\ UNCHANGED <<triaged, suggestion, known>>

-----------------------------------------------------------------------------
Init ==
  /\ KbInit
  /\ triaged = {}
  /\ results = [t \in Tickets |-> <<>>]
  /\ suggestion = [t \in Tickets |-> None]
  /\ known = [t \in Tickets |-> {}]

DraftStep(t) == Triage(t) \/ Search(t) \/ Store(t) \/ StoreFails(t)

Next ==
  \/ KbNext /\ UNCHANGED draftVars
  \/ \E t \in Tickets : DraftStep(t) /\ UNCHANGED kbVars

\* The indexing side is scheduled; nobody has to send a ticket.
Spec == Init /\ [][Next]_allVars /\ KbFairness

-----------------------------------------------------------------------------
\* A ticket that was labelled has a right label, whatever its text was and
\* whatever a model said of it: no unknown priority, no second-best category of
\* the rules, and no label of the rules that could not be stored.
LabelIsRight == triaged # {} => EveryLabelIsRight

\* A draft claims no more than the knowledge base holds: its sources are stored
\* articles above the threshold, an extract is from one of them and from a
\* piece of the text that was indexed, and only a draft without sources says
\* that there is nothing to say.
DraftsAreGrounded ==
  \A t \in Tickets : suggestion[t] # None =>
    LET d == suggestion[t]
    IN /\ d.reply = "no grounding" <=> d.sources = {}
       /\ \A a \in d.sources :
            /\ Stored(a)
            /\ \E k \in Pieces(Length[a]) : Similarity(t, a, k) >= Threshold
       /\ d.reply = "extract" =>
            /\ d.from[1] \in d.sources
            /\ \A a \in d.sources : \E k \in Pieces(Length[a]) :
                 /\ Similarity(t, a, k) >= Threshold
                 /\ Similarity(t, a, k) <= Similarity(t, d.from[1], d.from[2])

\* A ticket is not told that nothing is known of it when an article on it could
\* be found before it was labelled, though that article is indexed again
\* meanwhile, or its chunks are there twice.
KnownIsUsed ==
  \A t \in Tickets : suggestion[t] # None /\ known[t] # {} => suggestion[t].sources # {}

=============================================================================
