--------------------------- MODULE Classification ---------------------------
(* How the classify task gets a label: from the configured provider or, if   *)
(* that raises, from keyword rules.  A text is what the rules find in it, an *)
(* answer of a model what its JSON says.                                     *)
EXTENDS Naturals, SequencesExt

Priorities == {"LOW", "MEDIUM", "HIGH", "URGENT"}

\* The categories of the rules, in the order of the dict.
CategoryOrder == <<"billing", "technical", "account">>

\* score[c]: how many of the keywords of c the text contains.
Texts == [urgent : BOOLEAN, high : BOOLEAN, score : [ToSet(CategoryOrder) -> 0..2]]

RulePriority(x) ==
  CASE x.urgent              -> "URGENT"
    [] ~x.urgent /\ x.high   -> "HIGH"
    [] ~x.urgent /\ ~x.high  -> "MEDIUM"

Score(x, c) == IF c = "general" THEN 0 ELSE x.score[c]

\* Variant: a later category with the same score takes over.
BetterOrEqual(x, best, c) == IF Score(x, c) >= Score(x, best) THEN c ELSE best

\* One turn of the loop over the categories.
Better(x, best, c) == IF Score(x, c) > Score(x, best) THEN c ELSE best

RuleCategory(x) ==
  LET first  == Better(x, "general", CategoryOrder[1])
      second == Better(x, first, CategoryOrder[2])
  IN Better(x, second, CategoryOrder[3])

RuleLabel(x) ==
  [category |-> RuleCategory(x), priority |-> RulePriority(x), confidence |-> "rules"]

\* LLM_PROVIDER, and whether LLM_API_KEY is set: without it the factory raises.
Providers == [name : {"mock", "anthropic", "groq"}, key : BOOLEAN]

HasModel(p) == p.name # "mock" /\ p.key

\* A failed call, or an answer that is no JSON with the three fields.
NoAnswer == [category |-> "none", priority |-> "none", confidence |-> "none"]

\* What a model may say: a long category and a huge confidence do not fit their
\* columns, and a priority may be one the code does not have.
Answers == [category : {"short", "long"}, priority : Priorities \cup {"CRITICAL"},
            confidence : {"fits", "huge"}]
           \cup {NoAnswer}

\* json.loads, the three fields, TicketPriority(...).
Parses(ans) == ans # NoAnswer /\ ans.priority \in Priorities

\* The label the task stores.
Label(p, ans, x) == IF HasModel(p) /\ Parses(ans) THEN ans ELSE RuleLabel(x)

Storable(l) ==
  /\ l.priority \in Priorities
  /\ l.category # "long"
  /\ l.confidence # "huge"

-----------------------------------------------------------------------------
\* c has the most keywords in x, the first of those that tie; "general" if none.
IsBest(x, c) ==
  \/ c = "general" /\ \A d \in ToSet(CategoryOrder) : x.score[d] = 0
  \/ \E i \in DOMAIN CategoryOrder :
       /\ c = CategoryOrder[i]
       /\ \A j \in DOMAIN CategoryOrder :
            Score(x, CategoryOrder[j]) + (IF j < i THEN 1 ELSE 0) <= Score(x, c)

\* Whatever the provider and its answer, a text gets a label with a priority the
\* column takes: the model's, or the rules' with the best category.  Only a
\* model's label may be one that cannot be stored, for a long category or a huge
\* confidence, which no fallback catches.
EveryLabelIsRight ==
  \A p \in Providers, ans \in Answers, x \in Texts :
    LET l == Label(p, ans, x)
    IN /\ l.priority \in Priorities
       /\ ~Storable(l) => HasModel(p) /\ (l.category = "long" \/ l.confidence = "huge")
       /\ l.confidence = "rules" => IsBest(x, l.category)

=============================================================================
