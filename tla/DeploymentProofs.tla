-------------------------- MODULE DeploymentProofs --------------------------
(* Whatever version a database has, upgrade head makes the schema of the last *)
(* one of it and a downgrade that of the one before; so the schema is always  *)
(* that of the recorded version, however many containers start, race for the  *)
(* migration, fail and die.  The revisions build the schema in stages, object *)
(* by object, and every statement leads from one stage to the next.  What     *)
(* makes serving safe is that a container that serves, or finds nothing to    *)
(* upgrade, has seen the last version, which nobody takes away while it is up.*)
EXTENDS Deployment, TLAPS

-----------------------------------------------------------------------------
\* The tables and indexes, and what each of them hangs on.
LEMMA SchemaFacts ==
  /\ Tables = {"users", "kb_articles", "kb_chunks", "tickets", "ai_suggestions",
               "ticket_comments"}
  /\ DOMAIN IndexOf = {"ix_users_email", "idx_kb_chunks_embedding", "idx_tickets_sla_sweep",
                       "idx_tickets_customer", "idx_tickets_agent",
                       "idx_tickets_created_at_id", "idx_ticket_comments_ticket"}
BY DEF Tables, References, IndexOf

LEMMA ReferenceFacts ==
  /\ References["users"] = {} /\ References["kb_articles"] = {}
  /\ References["kb_chunks"] = {"kb_articles"} /\ References["tickets"] = {"users"}
  /\ References["ai_suggestions"] = {"tickets"}
  /\ References["ticket_comments"] = {"tickets", "users"}
BY DEF References

LEMMA IndexFacts ==
  /\ IndexOf["ix_users_email"] = "users"
  /\ IndexOf["idx_kb_chunks_embedding"] = "kb_chunks"
  /\ IndexOf["idx_tickets_sla_sweep"] = "tickets"
  /\ IndexOf["idx_tickets_customer"] = "tickets"
  /\ IndexOf["idx_tickets_agent"] = "tickets"
  /\ IndexOf["idx_tickets_created_at_id"] = "tickets"
  /\ IndexOf["idx_ticket_comments_ticket"] = "ticket_comments"
BY DEF IndexOf

LEMMA NeedFacts ==
  /\ Needs("users") = {} /\ Needs("kb_articles") = {}
  /\ Needs("kb_chunks") = {"kb_articles", "vector"}
  /\ Needs("tickets") = {"users"} /\ Needs("ai_suggestions") = {"tickets"}
  /\ Needs("ticket_comments") = {"tickets", "users"}
  /\ \A i \in DOMAIN IndexOf : Needs(i) = {IndexOf[i]}
<1>1. \A i \in DOMAIN IndexOf : Needs(i) = {IndexOf[i]}
  BY SchemaFacts DEF Needs
<1>2. \A n \in Tables \ {"kb_chunks"} : Needs(n) = References[n]
  BY SchemaFacts DEF Needs
<1>3. Needs("kb_chunks") = {"kb_articles", "vector"}
  BY SchemaFacts, ReferenceFacts DEF Needs
<1> QED
  BY <1>1, <1>2, <1>3, SchemaFacts, ReferenceFacts

-----------------------------------------------------------------------------
LEMMA RunIs ==
  ASSUME NEW S, NEW s
  PROVE  Run(S, s) = IF S # Failed /\ Takes(S, s) THEN Effect(S, s) ELSE Failed
<1> DEFINE F(U) == IF U # Failed /\ Takes(U, s) THEN Effect(U, s) ELSE Failed
<1>1. Run(S, s) = UNION {F(U) : U \in {S}}
  BY DEF Run
<1>2. {F(U) : U \in {S}} = {F(S)}
  OBVIOUS
<1> HIDE DEF F
<1>3. UNION {F(S)} = F(S)
  OBVIOUS
<1> QED
  BY <1>1, <1>2, <1>3 DEF F

\* S is a schema with the names N.
Has(S, N) == Names(S) = N /\ "failed" \notin N

LEMMA HasNotFailed == ASSUME NEW S, NEW N, Has(S, N) PROVE S # Failed
BY DEF Has, Names, Failed, Object

LEMMA NamesAdd ==
  ASSUME NEW S, NEW N, Has(S, N), NEW n, n # "failed", NEW d
  PROVE  Has(S \cup {Object(n, d)}, N \cup {n})
<1>1. Object(n, d).name = n
  BY DEF Object
<1>2. {o.name : o \in S \cup {Object(n, d)}} = {o.name : o \in S} \cup {n}
  BY <1>1
<1> QED
  BY <1>2 DEF Has, Names

\* CREATE adds the object, if its name is free and what it needs is there.
LEMMA RunCreate ==
  ASSUME NEW S, NEW N, Has(S, N), NEW n, NEW d,
         n \notin N, \A m \in Needs(n) : m \in N
  PROVE  Run(S, Create(n, d)) = S \cup {Object(n, d)}
<1>1. S # Failed
  BY HasNotFailed
<1>2. /\ Create(n, d).do = "create" /\ Create(n, d).obj = Object(n, d)
      /\ Create(n, d).obj.name = n
  BY DEF Create, Object
<1>3. Takes(S, Create(n, d))
  BY <1>2 DEF Takes, Has
<1>4. Effect(S, Create(n, d)) = S \cup {Object(n, d)}
  BY <1>2 DEF Effect
<1> QED
  BY <1>1, <1>3, <1>4, RunIs

\* DROP takes out the object alone, if nothing hangs on it.
LEMMA RunDrop ==
  ASSUME NEW S, NEW N, Has(S, N), NEW n, NEW d, n # "failed", n \notin N,
         \A t \in Tables \cap N : n \notin References[t],
         \A i \in DOMAIN IndexOf \cap N : IndexOf[i] # n
  PROVE  /\ Run(S \cup {Object(n, d)}, Drop(n)) = S
         /\ Run(S \cup {Object(n, d)}, DropIf(n)) = S
<1> DEFINE T == S \cup {Object(n, d)}
<1>1. Has(T, N \cup {n}) /\ T # Failed
  BY NamesAdd, HasNotFailed
<1>2. /\ Drop(n).do = "drop" /\ Drop(n).obj.name = n
      /\ DropIf(n).do = "if exists" /\ DropIf(n).obj.name = n
  BY DEF Drop, DropIf, Object
<1>3. Takes(T, Drop(n)) /\ Takes(T, DropIf(n))
  <2> HIDE DEF T
  <2>1. \A t \in Tables \cap Names(T) : n \in References[t] => t = n
    BY <1>1 DEF Has
  <2> QED
    BY <1>1, <1>2, <2>1 DEF Takes, Has
<1>4. {o \in T : o.name # n /\ (o.name \in DOMAIN IndexOf => IndexOf[o.name] # n)} = S
  <2>1. \A o \in S : /\ o.name \in N /\ o.name # n
                     /\ o.name \in DOMAIN IndexOf => IndexOf[o.name] # n
    BY DEF Has, Names
  <2>2. Object(n, d).name = n
    BY DEF Object
  <2> DEFINE K(o) == o.name # n /\ (o.name \in DOMAIN IndexOf => IndexOf[o.name] # n)
  <2>3. \A o \in S : K(o)
    BY <2>1
  <2>4. ~K(Object(n, d))
    BY <2>2
  <2> HIDE DEF K
  <2>5. {o \in T : K(o)} = S
    BY <2>3, <2>4
  <2> QED
    BY <2>5 DEF K
<1>5. Effect(T, Drop(n)) = S /\ Effect(T, DropIf(n)) = S
  BY <1>2, <1>4 DEF Effect
<1> QED
  BY <1>1, <1>3, <1>5, RunIs

-----------------------------------------------------------------------------
\* The order in which the revisions create the objects.
Place == [vector |-> 1, pgcrypto |-> 2, users |-> 3, ix_users_email |-> 4, kb_articles |-> 5,
          kb_chunks |-> 6, idx_kb_chunks_embedding |-> 7, tickets |-> 8,
          idx_tickets_sla_sweep |-> 9, idx_tickets_customer |-> 10, idx_tickets_agent |-> 11,
          ai_suggestions |-> 12, idx_tickets_created_at_id |-> 13, ticket_comments |-> 14,
          idx_ticket_comments_ticket |-> 15]

Extensions == {"vector", "pgcrypto"}

\* The first k of them.
FirstNames(k) == {n \in DOMAIN Place : Place[n] <= k}

\* How n is defined, if the index on the embeddings is of the kind e.
Kind(n, e) ==
  CASE n \in Extensions -> "extension"
    [] n \in Tables -> "table"
    [] n = "idx_kb_chunks_embedding" -> e
    [] n \in DOMAIN IndexOf \ {"idx_kb_chunks_embedding"} -> "index"

\* The schemas the revisions lead through.
Stage(k, e) == {Object(n, Kind(n, e)) : n \in FirstNames(k)}

LEMMA PlaceFacts ==
  /\ DOMAIN Place = Extensions \cup Tables \cup DOMAIN IndexOf
  /\ \A n \in DOMAIN Place : Place[n] \in 1..15
  /\ \A m, n \in DOMAIN Place : Place[m] = Place[n] => m = n
  /\ "failed" \notin DOMAIN Place
<1>1. DOMAIN Place = Extensions \cup Tables \cup DOMAIN IndexOf
  BY SchemaFacts DEF Place, Extensions
<1>2. \A n \in DOMAIN Place : Place[n] \in 1..15
  BY DEF Place
<1>3. \A m, n \in DOMAIN Place : Place[m] = Place[n] => m = n
  BY DEF Place
<1>4. "failed" \notin DOMAIN Place
  BY DEF Place
<1> QED
  BY <1>1, <1>2, <1>3, <1>4

\* Everything is created after what it needs, and so after what it hangs on.
LEMMA NeededFirst ==
  ASSUME NEW n \in DOMAIN Place \ Extensions, NEW m \in Needs(n)
  PROVE  m \in DOMAIN Place /\ Place[m] < Place[n]
<1>1. n \in Tables \/ n \in DOMAIN IndexOf
  BY PlaceFacts
<1>2. CASE n \in Tables
  BY <1>2, SchemaFacts, NeedFacts DEF Place
<1>3. CASE n \in DOMAIN IndexOf
  BY <1>3, SchemaFacts, IndexFacts, NeedFacts DEF Place
<1> QED
  BY <1>1, <1>2, <1>3

LEMMA StageHas == ASSUME NEW k, NEW e PROVE Has(Stage(k, e), FirstNames(k))
<1>1. \A n \in FirstNames(k) : Object(n, Kind(n, e)).name = n
  BY DEF Object
<1>2. {o.name : o \in Stage(k, e)} = FirstNames(k)
  BY <1>1 DEF Stage
<1>3. "failed" \notin FirstNames(k)
  BY PlaceFacts DEF FirstNames
<1> QED
  BY <1>2, <1>3 DEF Has, Names

\* A statement of upgrade() creates the next object, and that of downgrade() drops
\* the last, as it finds what it needs and nothing hangs on what it drops.
LEMMA NextStage ==
  ASSUME NEW n \in DOMAIN Place \ Extensions, NEW e
  PROVE  /\ Run(Stage(Place[n] - 1, e), Create(n, Kind(n, e))) = Stage(Place[n], e)
         /\ Run(Stage(Place[n], e), Drop(n)) = Stage(Place[n] - 1, e)
         /\ Run(Stage(Place[n], e), DropIf(n)) = Stage(Place[n] - 1, e)
<1> DEFINE k == Place[n]
           S == Stage(k - 1, e)
           N == FirstNames(k - 1)
<1>1. k \in 1..15 /\ \A m \in DOMAIN Place : Place[m] \in 1..15
  BY PlaceFacts
<1>2. FirstNames(k) = N \cup {n} /\ n \notin N
  BY <1>1, PlaceFacts DEF FirstNames
<1>3. Stage(k, e) = S \cup {Object(n, Kind(n, e))}
  BY <1>2 DEF Stage
<1>4. Has(S, N) /\ n # "failed"
  BY StageHas, PlaceFacts
<1>5. \A m \in Needs(n) : m \in N
  BY <1>1, NeededFirst DEF FirstNames
<1>6. \A t \in Tables \cap N : n \notin References[t]
  <2> SUFFICES ASSUME NEW t \in Tables \cap N, n \in References[t] PROVE FALSE
    OBVIOUS
  <2>1. n \in Needs(t) /\ t \in DOMAIN Place \ Extensions
    BY SchemaFacts, ReferenceFacts, NeedFacts, PlaceFacts DEF Extensions
  <2> QED
    BY <1>1, <2>1, NeededFirst DEF FirstNames
<1>7. \A i \in DOMAIN IndexOf \cap N : IndexOf[i] # n
  <2> SUFFICES ASSUME NEW i \in DOMAIN IndexOf \cap N, IndexOf[i] = n PROVE FALSE
    OBVIOUS
  <2>1. n \in Needs(i) /\ i \in DOMAIN Place \ Extensions
    BY SchemaFacts, NeedFacts, PlaceFacts DEF Extensions
  <2> QED
    BY <1>1, <2>1, NeededFirst DEF FirstNames
<1> HIDE DEF S, N
<1>8. Run(S, Create(n, Kind(n, e))) = S \cup {Object(n, Kind(n, e))}
  BY <1>2, <1>4, <1>5, RunCreate
<1>9. /\ Run(S \cup {Object(n, Kind(n, e))}, Drop(n)) = S
      /\ Run(S \cup {Object(n, Kind(n, e))}, DropIf(n)) = S
  BY <1>2, <1>4, <1>6, <1>7, RunDrop
<1> QED
  BY <1>3, <1>8, <1>9 DEF S

-----------------------------------------------------------------------------
\* A database without tables, in which the extensions are.
Bare == {Object("vector", "extension"), Object("pgcrypto", "extension")}

\* The extensions are there already, or become so.
LEMMA Ensures ==
  /\ Run(Run({}, Ensure("vector")), Ensure("pgcrypto")) = Bare
  /\ Run(Run(Bare, Ensure("vector")), Ensure("pgcrypto")) = Bare
<1>1. ASSUME NEW S, NEW n, S # Failed
      PROVE  Run(S, Ensure(n)) = S \cup {Object(n, "extension")}
  <2>1. Ensure(n).do = "if not exists" /\ Ensure(n).obj = Object(n, "extension")
    BY DEF Ensure
  <2>2. Takes(S, Ensure(n)) /\ Effect(S, Ensure(n)) = S \cup {Object(n, "extension")}
    BY <2>1 DEF Takes, Effect
  <2> QED
    BY <1>1, <2>2, RunIs
<1>2. {} # Failed /\ {Object("vector", "extension")} # Failed /\ Bare # Failed
  <2>1. Object("vector", "extension").name = "vector" /\ Object("failed", "any").name = "failed"
    BY DEF Object
  <2>2. Object("vector", "extension") # Object("failed", "any")
    BY <2>1
  <2> QED
    BY <2>2 DEF Failed, Bare
<1>3. Run({}, Ensure("vector")) = {Object("vector", "extension")}
  BY <1>1, <1>2
<1>4. Run({Object("vector", "extension")}, Ensure("pgcrypto")) = Bare
  BY <1>1, <1>2 DEF Bare
<1>5. Bare \cup {Object("vector", "extension")} = Bare
      /\ Bare \cup {Object("pgcrypto", "extension")} = Bare
  BY DEF Bare
<1>6. Run(Bare, Ensure("vector")) = Bare /\ Run(Bare, Ensure("pgcrypto")) = Bare
  BY <1>1, <1>2, <1>5
<1> QED
  BY <1>3, <1>4, <1>6

\* What is in a database of the first stages does not depend on the index to come.
LEMMA FirstStages == \A e : Stage(0, e) = {} /\ Stage(2, e) = Bare
<1>1. FirstNames(2) = {"vector", "pgcrypto"} /\ FirstNames(0) = {}
  BY DEF FirstNames, Place
<1>2. \A e : Kind("vector", e) = "extension" /\ Kind("pgcrypto", e) = "extension"
  BY SchemaFacts DEF Kind, Extensions
<1> QED
  BY <1>1, <1>2 DEF Stage, Bare

\* The objects in their order.
LEMMA Kinds ==
  ASSUME NEW e
  PROVE  /\ Kind("users", e) = "table" /\ Place["users"] = 3
         /\ Kind("ix_users_email", e) = "index" /\ Place["ix_users_email"] = 4
         /\ Kind("kb_articles", e) = "table" /\ Place["kb_articles"] = 5
         /\ Kind("kb_chunks", e) = "table" /\ Place["kb_chunks"] = 6
         /\ Kind("idx_kb_chunks_embedding", e) = e /\ Place["idx_kb_chunks_embedding"] = 7
         /\ Kind("tickets", e) = "table" /\ Place["tickets"] = 8
         /\ Kind("idx_tickets_sla_sweep", e) = "index" /\ Place["idx_tickets_sla_sweep"] = 9
         /\ Kind("idx_tickets_customer", e) = "index" /\ Place["idx_tickets_customer"] = 10
         /\ Kind("idx_tickets_agent", e) = "index" /\ Place["idx_tickets_agent"] = 11
         /\ Kind("ai_suggestions", e) = "table" /\ Place["ai_suggestions"] = 12
         /\ Kind("idx_tickets_created_at_id", e) = "index"
         /\ Place["idx_tickets_created_at_id"] = 13
         /\ Kind("ticket_comments", e) = "table" /\ Place["ticket_comments"] = 14
         /\ Kind("idx_ticket_comments_ticket", e) = "index"
         /\ Place["idx_ticket_comments_ticket"] = 15
BY SchemaFacts DEF Kind, Place, Extensions

\* Statement for statement, up and down.
LEMMA Statements ==
  ASSUME NEW n \in DOMAIN Place \ Extensions, NEW e, NEW k \in Nat, Place[n] = k + 1
  PROVE  /\ Run(Stage(k, e), Create(n, Kind(n, e))) = Stage(k + 1, e)
         /\ Run(Stage(k + 1, e), Drop(n)) = Stage(k, e)
         /\ Run(Stage(k + 1, e), DropIf(n)) = Stage(k, e)
<1>1. Place[n] - 1 = k
  OBVIOUS
<1> QED
  BY <1>1, NextStage

LEMMA Objects ==
  {"users", "ix_users_email", "kb_articles", "kb_chunks", "idx_kb_chunks_embedding",
   "tickets", "idx_tickets_sla_sweep", "idx_tickets_customer", "idx_tickets_agent",
   "ai_suggestions", "idx_tickets_created_at_id", "ticket_comments",
   "idx_ticket_comments_ticket"} = DOMAIN Place \ Extensions
BY DEF Place, Extensions

\* Revision 1 and back; the extensions stay.
LEMMA Revision1 ==
  /\ Upgrade0001({}) = Stage(12, "ivfflat") /\ Upgrade0001(Bare) = Stage(12, "ivfflat")
  /\ Downgrade0001(Stage(12, "ivfflat")) = Bare
<1> DEFINE e == "ivfflat"
<1>1. /\ Run(Stage(2, e), Create("users", "table")) = Stage(3, e)
      /\ Run(Stage(3, e), Create("ix_users_email", "index")) = Stage(4, e)
      /\ Run(Stage(4, e), Create("kb_articles", "table")) = Stage(5, e)
      /\ Run(Stage(5, e), Create("kb_chunks", "table")) = Stage(6, e)
      /\ Run(Stage(6, e), Create("idx_kb_chunks_embedding", e)) = Stage(7, e)
  BY Kinds, Objects, Statements
<1>2. /\ Run(Stage(7, e), Create("tickets", "table")) = Stage(8, e)
      /\ Run(Stage(8, e), Create("idx_tickets_sla_sweep", "index")) = Stage(9, e)
      /\ Run(Stage(9, e), Create("idx_tickets_customer", "index")) = Stage(10, e)
      /\ Run(Stage(10, e), Create("idx_tickets_agent", "index")) = Stage(11, e)
      /\ Run(Stage(11, e), Create("ai_suggestions", "table")) = Stage(12, e)
  BY Kinds, Objects, Statements
<1>3. /\ Run(Stage(12, e), Drop("ai_suggestions")) = Stage(11, e)
      /\ Run(Stage(11, e), Drop("idx_tickets_agent")) = Stage(10, e)
      /\ Run(Stage(10, e), Drop("idx_tickets_customer")) = Stage(9, e)
      /\ Run(Stage(9, e), Drop("idx_tickets_sla_sweep")) = Stage(8, e)
      /\ Run(Stage(8, e), Drop("tickets")) = Stage(7, e)
  BY Kinds, Objects, Statements
<1>4. /\ Run(Stage(7, e), DropIf("idx_kb_chunks_embedding")) = Stage(6, e)
      /\ Run(Stage(6, e), Drop("kb_chunks")) = Stage(5, e)
      /\ Run(Stage(5, e), Drop("kb_articles")) = Stage(4, e)
      /\ Run(Stage(4, e), Drop("ix_users_email")) = Stage(3, e)
      /\ Run(Stage(3, e), Drop("users")) = Stage(2, e)
  BY Kinds, Objects, Statements
<1>5. Stage(2, e) = Bare
  BY FirstStages
<1>6. ASSUME NEW S, Run(Run(S, Ensure("vector")), Ensure("pgcrypto")) = Stage(2, e)
      PROVE  Upgrade0001(S) = Stage(12, e)
  BY <1>1, <1>2, <1>6 DEF Upgrade0001, Embedding
<1>7. Downgrade0001(Stage(12, e)) = Stage(2, e)
  BY <1>3, <1>4 DEF Downgrade0001
<1> QED
  BY <1>5, <1>6, <1>7, Ensures

\* Revision 2 and back: one index is dropped, whatever its kind, and created.
LEMMA Revision2 ==
  /\ Upgrade0002(Stage(12, "ivfflat")) = Stage(12, "hnsw")
  /\ Downgrade0002(Stage(12, "hnsw")) = Stage(12, "ivfflat")
<1> DEFINE n == "idx_kb_chunks_embedding"
           N == FirstNames(12) \ {n}
           R == {Object(m, Kind(m, "hnsw")) : m \in N}
<1>1. n \in FirstNames(12)
  BY Kinds DEF FirstNames, Place
<1>2. \A e : Stage(12, e) = R \cup {Object(n, e)}
  <2>1. ASSUME NEW e, NEW m \in N PROVE Kind(m, e) = Kind(m, "hnsw")
    BY PlaceFacts DEF Kind, FirstNames
  <2>2. \A e : Kind(n, e) = e
    BY Kinds
  <2>3. ASSUME NEW e PROVE R = {Object(m, Kind(m, e)) : m \in N}
    BY <2>1
  <2>4. FirstNames(12) = N \cup {n}
    BY <1>1
  <2> HIDE DEF R, N, n
  <2> QED
    BY <2>2, <2>3, <2>4 DEF Stage
<1>3. Has(R, N)
  <2>1. \A m \in N : Object(m, Kind(m, "hnsw")).name = m
    BY DEF Object
  <2>2. {o.name : o \in R} = N
    BY <2>1
  <2>3. "failed" \notin N
    BY PlaceFacts DEF FirstNames
  <2> QED
    BY <2>2, <2>3 DEF Has, Names
<1>4. \A m \in Needs(n) : m \in N
  BY NeedFacts, SchemaFacts, IndexFacts DEF FirstNames, Place
<1>5. /\ \A t \in Tables \cap N : n \notin References[t]
      /\ \A i \in DOMAIN IndexOf \cap N : IndexOf[i] # n
  BY SchemaFacts, ReferenceFacts, IndexFacts
<1>6. n \notin N /\ n # "failed"
  OBVIOUS
<1>7. Embedding("hnsw") = Create(n, "hnsw") /\ Embedding("ivfflat") = Create(n, "ivfflat")
  BY DEF Embedding
<1> HIDE DEF n, N, R
<1>8. \A e : Run(R \cup {Object(n, e)}, DropIf(n)) = R
  BY <1>3, <1>5, <1>6, RunDrop
<1>9. \A e : Run(R, Create(n, e)) = R \cup {Object(n, e)}
  BY <1>3, <1>4, <1>6, RunCreate
<1> QED
  BY <1>2, <1>7, <1>8, <1>9 DEF Upgrade0002, Downgrade0002, n

LEMMA Revision3 ==
  /\ Upgrade0003(Stage(12, "hnsw")) = Stage(13, "hnsw")
  /\ Downgrade0003(Stage(13, "hnsw")) = Stage(12, "hnsw")
BY Kinds, Objects, Statements DEF Upgrade0003, Downgrade0003

LEMMA Revision4 ==
  /\ Upgrade0004(Stage(13, "hnsw")) = Stage(15, "hnsw")
  /\ Downgrade0004(Stage(15, "hnsw")) = Stage(13, "hnsw")
<1> DEFINE e == "hnsw"
<1>1. /\ Run(Stage(13, e), Create("ticket_comments", "table")) = Stage(14, e)
      /\ Run(Stage(14, e), Create("idx_ticket_comments_ticket", "index")) = Stage(15, e)
      /\ Run(Stage(15, e), Drop("idx_ticket_comments_ticket")) = Stage(14, e)
      /\ Run(Stage(14, e), Drop("ticket_comments")) = Stage(13, e)
  BY Kinds, Objects, Statements
<1> QED
  BY <1>1 DEF Upgrade0004, Downgrade0004

-----------------------------------------------------------------------------
\* The schemas of the versions.
LEMMA Composed ==
  /\ SchemaOf[0] = {} /\ SchemaOf[1] = Stage(12, "ivfflat")
  /\ SchemaOf[2] = Stage(12, "hnsw") /\ SchemaOf[3] = Stage(13, "hnsw")
  /\ SchemaOf[4] = Stage(15, "hnsw")
<1>1. SchemaOf = [v \in 0..4 |-> Upgrades({}, 0, v)]
  BY DEF SchemaOf, LastRevision
<1>2. Upgrades({}, 0, 0) = {}
  BY DEF Upgrades
<1>3. Upgrades({}, 0, 1) = Stage(12, "ivfflat")
  BY Revision1 DEF Upgrades
<1>4. Upgrades({}, 0, 2) = Stage(12, "hnsw")
  BY Revision1, Revision2 DEF Upgrades
<1>5. Upgrades({}, 0, 3) = Stage(13, "hnsw")
  BY Revision1, Revision2, Revision3 DEF Upgrades
<1>6. Upgrades({}, 0, 4) = Stage(15, "hnsw")
  BY Revision1, Revision2, Revision3, Revision4 DEF Upgrades
<1> QED
  BY <1>1, <1>2, <1>3, <1>4, <1>5, <1>6

\* A schema the database may have at version v: that of a new database, or at
\* version 0 the extensions that a downgrade leaves.
Proper(S, v) == S = SchemaOf[v] \/ (v = 0 /\ S = Bare)

\* From a proper schema of any version upgrade head makes that of the last.
LEMMA UpgradesToHead ==
  ASSUME NEW v \in 0..LastRevision, NEW S, Proper(S, v)
  PROVE  Upgraded(S, v) = SchemaOf[LastRevision]
<1> USE DEF Upgraded, Upgrades, LastRevision, Proper
<1>1. CASE v = 0
  BY <1>1, Composed, Revision1, Revision2, Revision3, Revision4
<1>2. CASE v = 1
  BY <1>2, Composed, Revision2, Revision3, Revision4
<1>3. CASE v = 2
  BY <1>3, Composed, Revision3, Revision4
<1>4. CASE v = 3
  BY <1>4, Composed, Revision4
<1>5. CASE v = 4
  BY <1>5, Composed
<1> QED
  BY <1>1, <1>2, <1>3, <1>4, <1>5

\* A downgrade by one takes back what the upgrade did, save the extensions.
LEMMA DowngradesByOne ==
  ASSUME NEW v \in 1..LastRevision, NEW S, Proper(S, v)
  PROVE  Proper(Downgraded(S, v), v - 1)
<1> USE DEF Downgraded, LastRevision, Proper
<1>1. CASE v = 1
  BY <1>1, Composed, Revision1
<1>2. CASE v = 2
  BY <1>2, Composed, Revision2
<1>3. CASE v = 3
  BY <1>3, Composed, Revision3
<1>4. CASE v = 4
  BY <1>4, Composed, Revision4
<1> QED
  BY <1>1, <1>2, <1>3, <1>4

\* Every object has its name from the list, and all that are declared are at head.
LEMMA StageNames ==
  ASSUME NEW k, NEW e
  PROVE  /\ Names(Stage(k, e)) = FirstNames(k)
         /\ FirstNames(k) \subseteq Tables \cup DOMAIN IndexOf \cup {"vector", "pgcrypto"}
BY StageHas, PlaceFacts DEF Has, FirstNames, Extensions

LEMMA HeadIsDeclared == Declared \subseteq Names(SchemaOf[LastRevision])
<1>1. Declared \subseteq FirstNames(15)
  BY PlaceFacts DEF Declared, FirstNames
<1> QED
  BY <1>1, Composed, StageNames DEF LastRevision

LEMMA HeadNotFailed == SchemaOf[LastRevision] # Failed
<1>1. Has(Stage(15, "hnsw"), FirstNames(15))
  BY StageHas
<1> QED
  BY <1>1, Composed, HasNotFailed DEF LastRevision

LEMMA ProperNames ==
  ASSUME NEW v \in 0..LastRevision, NEW S, Proper(S, v)
  PROVE  /\ Names(S) \subseteq Tables \cup DOMAIN IndexOf \cup {"vector", "pgcrypto"}
         /\ WithoutExtensions(S) = WithoutExtensions(SchemaOf[v])
<1>1. Names({}) = {} /\ Bare = Stage(2, "hnsw")
  BY FirstStages DEF Names
<1>2. Names(S) \subseteq Tables \cup DOMAIN IndexOf \cup {"vector", "pgcrypto"}
  BY <1>1, Composed, StageNames DEF Proper, LastRevision
<1>3. \A o \in Bare : o.def = "extension"
  BY DEF Bare, Object
<1>4. WithoutExtensions(Bare) = {} /\ WithoutExtensions({}) = {}
  BY <1>3 DEF WithoutExtensions
<1>5. WithoutExtensions(S) = WithoutExtensions(SchemaOf[v])
  BY <1>4, Composed DEF Proper
<1> QED
  BY <1>2, <1>5

-----------------------------------------------------------------------------
\* A container that serves, or has nothing to upgrade, has seen the last version,
\* and nobody downgrades while it is up.
HeadIsSeen ==
  \A c \in Containers :
    container[c] # Off /\ (container[c].at = "serving" \/ container[c].base = LastRevision)
      => version = LastRevision

\* The pool is empty when no task runs, and holds connections of its loop else.
PoolIsLive ==
  \A p \in Processes : pool[p] \subseteq IF task[p] = "idle" THEN {} ELSE {loop[p]}

PoolType == pool \in [Containers -> SUBSET (0..MaxLoops)]

DeploymentIInv ==
  TypeOK /\ Proper(schema, version) /\ HeadIsSeen /\ PoolIsLive /\ PoolType

-----------------------------------------------------------------------------
LEMMA InitDeployment == Init => DeploymentIInv
<1> SUFFICES ASSUME Init PROVE DeploymentIInv
  OBVIOUS
<1>1. version \in 0..LastRevision /\ Proper(schema, version)
  BY DeploymentAssumption DEF Init, Proper, LastRevision
<1>2. TypeOK
  <2>1. Off \in [at : {"off", "read", "locked", "serving"}, base : 0..LastRevision]
    BY DEF Off, LastRevision
  <2> QED
    BY <1>1, <2>1, ProperNames, DeploymentAssumption DEF Init, TypeOK, TasksInit, Containers
<1>3. HeadIsSeen /\ PoolIsLive /\ PoolType
  BY DEF Init, HeadIsSeen, PoolIsLive, PoolType, TasksInit, Containers
<1> QED
  BY <1>1, <1>2, <1>3 DEF DeploymentIInv

\* A step of one container that leaves the schema alone, and after which it has seen
\* the last version if it serves or has nothing to upgrade.
LEMMA QuietStart ==
  ASSUME DeploymentIInv, NEW c \in Containers, NEW s,
         s \in [at : {"off", "read", "locked", "serving"}, base : 0..LastRevision],
         container' = [container EXCEPT ![c] = s],
         s # Off /\ (s.at = "serving" \/ s.base = LastRevision) => version = LastRevision,
         schema' = schema, version' = version
  PROVE  /\ container' \in [Containers -> [at : {"off", "read", "locked", "serving"},
                                           base : 0..LastRevision]]
         /\ Proper(schema, version)' /\ HeadIsSeen'
         /\ version' \in 0..LastRevision
         /\ Names(schema)' \subseteq Tables \cup DOMAIN IndexOf \cup {"vector", "pgcrypto"}
<1> USE DEF DeploymentIInv, TypeOK
<1>1. container' \in [Containers -> [at : {"off", "read", "locked", "serving"},
                                     base : 0..LastRevision]]
  OBVIOUS
<1>2. \A d \in Containers : container'[d] = IF d = c THEN s ELSE container[d]
  OBVIOUS
<1>3. HeadIsSeen'
  BY <1>2 DEF HeadIsSeen
<1> QED
  BY <1>1, <1>3

\* The steps of the start script.
LEMMA StartInv ==
  ASSUME DeploymentIInv, NEW c \in Containers,
         Start(c) \/ AlembicFails(c) \/ Crash(c)
  PROVE  /\ container' \in [Containers -> [at : {"off", "read", "locked", "serving"},
                                           base : 0..LastRevision]]
         /\ Proper(schema, version)' /\ HeadIsSeen'
         /\ version' \in 0..LastRevision
         /\ Names(schema)' \subseteq Tables \cup DOMAIN IndexOf \cup {"vector", "pgcrypto"}
<1> DEFINE Shape == [at : {"off", "read", "locked", "serving"}, base : 0..LastRevision]
<1>1. /\ container[c] \in Shape /\ container \in [Containers -> Shape]
      /\ version \in 0..LastRevision /\ Off \in Shape /\ LastRevision \in 0..LastRevision
  BY DEF DeploymentIInv, TypeOK, Off, LastRevision
<1>2. CASE ReadVersion(c)
  <2> DEFINE s == [at |-> "read", base |-> version]
  <2>1. s \in Shape /\ s.at = "read" /\ s.base = version
    BY <1>1
  <2>2. container' = [container EXCEPT ![c] = s] /\ schema' = schema /\ version' = version
    BY <1>2 DEF ReadVersion
  <2> HIDE DEF s
  <2> QED
    BY <2>1, <2>2, QuietStart
<1>3. CASE Lock(c)
  <2> DEFINE s == [container[c] EXCEPT !.at = "locked"]
  <2>1. s \in Shape /\ s.at = "locked" /\ s.base = container[c].base
    BY <1>1
  <2>2. container' = [container EXCEPT ![c] = s] /\ schema' = schema /\ version' = version
    BY <1>3 DEF Lock
  <2>3. s.base # LastRevision
    BY <1>1, <1>3, <2>1 DEF Lock, LastRevision
  <2> HIDE DEF s
  <2> QED
    BY <2>1, <2>2, <2>3, QuietStart
<1>4. CASE Serve(c)
  <2> DEFINE s == [container[c] EXCEPT !.at = "serving"]
  <2>1. s \in Shape
    BY <1>1
  <2>2. container' = [container EXCEPT ![c] = s] /\ schema' = schema /\ version' = version
    BY <1>4 DEF Serve
  <2>3. version = LastRevision
    BY <1>4 DEF Serve, DeploymentIInv, HeadIsSeen, Off
  <2> HIDE DEF s
  <2> QED
    BY <2>1, <2>2, <2>3, QuietStart
<1>5. CASE AlembicFails(c) \/ Crash(c)
  BY <1>1, <1>5, QuietStart DEF AlembicFails, Crash
<1>6. CASE Migrate(c)
  <2> DEFINE S == Upgraded(schema, container[c].base)
  <2>1. CASE S # Failed /\ version = container[c].base
    <3>1. /\ schema' = S /\ version' = LastRevision
          /\ container' = [container EXCEPT ![c].at = "serving"]
      BY <1>6, <2>1 DEF Migrate
    <3>2. S = SchemaOf[LastRevision]
      BY <1>1, <2>1, UpgradesToHead DEF DeploymentIInv
    <3>3. Proper(schema, version)'
      BY <3>1, <3>2 DEF Proper
    <3>4. container' \in [Containers -> Shape]
      <4>1. [container[c] EXCEPT !.at = "serving"] \in Shape
        BY <1>1
      <4>2. container' = [container EXCEPT ![c] = [container[c] EXCEPT !.at = "serving"]]
        BY <3>1
      <4> HIDE DEF Shape
      <4> QED
        BY <1>1, <4>1, <4>2
    <3>5. HeadIsSeen'
      BY <3>1 DEF HeadIsSeen
    <3>6. Proper(SchemaOf[LastRevision], LastRevision)
      BY DEF Proper
    <3>7. Names(schema') \subseteq Tables \cup DOMAIN IndexOf \cup {"vector", "pgcrypto"}
      BY <1>1, <3>1, <3>2, <3>6, ProperNames
    <3> QED
      BY <1>1, <3>1, <3>3, <3>4, <3>5, <3>7 DEF Names
  <2>2. CASE ~(S # Failed /\ version = container[c].base)
    <3>1. /\ schema' = schema /\ version' = version
          /\ container' = [container EXCEPT ![c] = Off]
      BY <1>6, <2>2 DEF Migrate
    <3> QED
      BY <1>1, <3>1, QuietStart
  <2> QED
    BY <2>1, <2>2
<1> QED
  BY <1>2, <1>3, <1>4, <1>5, <1>6 DEF Start

\* A downgrade, which finds nobody up.
LEMMA DowngradeInv ==
  ASSUME DeploymentIInv, Downgrade, UNCHANGED taskVars
  PROVE  DeploymentIInv'
<1>1. /\ version \in 1..LastRevision /\ version' = version - 1
      /\ version' \in 0..LastRevision
      /\ schema' = Downgraded(schema, version) /\ container' = container
      /\ Proper(schema, version) /\ \A c \in Containers : container[c] = Off
  BY DEF Downgrade, DeploymentIInv, TypeOK, LastRevision
<1>2. Proper(schema', version')
  BY <1>1, DowngradesByOne
<1>3. Names(schema') \subseteq Tables \cup DOMAIN IndexOf \cup {"vector", "pgcrypto"}
  BY <1>1, <1>2, ProperNames
<1>4. TypeOK'
  BY <1>1, <1>3 DEF DeploymentIInv, TypeOK, taskVars, Names
<1>5. HeadIsSeen'
  BY <1>1 DEF HeadIsSeen
<1>6. PoolIsLive' /\ PoolType'
  BY DEF DeploymentIInv, PoolIsLive, PoolType, taskVars
<1> QED
  BY <1>2, <1>4, <1>5, <1>6 DEF DeploymentIInv, Proper

\* The steps of a worker process.
LEMMA TasksInv ==
  ASSUME DeploymentIInv, NEW p \in Containers, RunTask(p) \/ NewProcess(p)
  PROVE  /\ loop' \in [Containers -> 0..MaxLoops]
         /\ task' \in [Containers -> {"idle", "running", "returned", "raised"}]
         /\ PoolIsLive' /\ PoolType'
<1> USE DEF DeploymentIInv, TypeOK, PoolIsLive, PoolType, Containers
<1>1. MaxLoops \in Nat
  BY DeploymentAssumption
<1>2. CASE StartTask(p)
  BY <1>1, <1>2 DEF StartTask
<1>3. CASE Connect(p)
  BY <1>3 DEF Connect
<1>4. CASE Leave(p)
  BY <1>4 DEF Leave
<1>5. CASE Dispose(p)
  BY <1>5 DEF Dispose
<1>6. CASE NewProcess(p)
  BY <1>1, <1>6 DEF NewProcess
<1> QED
  BY <1>2, <1>3, <1>4, <1>5, <1>6 DEF RunTask

LEMMA DeploymentStep == DeploymentIInv /\ [Next]_vars => DeploymentIInv'
<1> SUFFICES ASSUME DeploymentIInv, [Next]_vars PROVE DeploymentIInv'
  OBVIOUS
<1>1. CASE Downgrade /\ UNCHANGED taskVars
  BY <1>1, DowngradeInv
<1>2. ASSUME NEW c \in Containers, (Start(c) \/ AlembicFails(c)) /\ UNCHANGED taskVars
      PROVE  DeploymentIInv'
  <2>1. /\ loop' \in [Containers -> 0..MaxLoops]
        /\ task' \in [Containers -> {"idle", "running", "returned", "raised"}]
        /\ PoolIsLive' /\ PoolType'
    BY <1>2 DEF DeploymentIInv, TypeOK, PoolIsLive, PoolType, taskVars
  <2> QED
    BY <1>2, <2>1, StartInv DEF DeploymentIInv, TypeOK
<1>3. ASSUME NEW c \in Containers, Crash(c) /\ NewProcess(c) PROVE DeploymentIInv'
  BY <1>3, StartInv, TasksInv DEF DeploymentIInv, TypeOK
<1>4. ASSUME NEW c \in Containers, RunTask(c), UNCHANGED deployVars PROVE DeploymentIInv'
  <2>1. /\ container' = container /\ schema' = schema /\ version' = version
    BY <1>4 DEF deployVars
  <2>2. HeadIsSeen' /\ Proper(schema, version)'
    BY <2>1 DEF DeploymentIInv, HeadIsSeen, Proper
  <2>3. /\ version' \in 0..LastRevision
        /\ Names(schema)' \subseteq Tables \cup DOMAIN IndexOf \cup {"vector", "pgcrypto"}
        /\ container' \in [Containers -> [at : {"off", "read", "locked", "serving"},
                                          base : 0..LastRevision]]
    BY <2>1 DEF DeploymentIInv, TypeOK, Names
  <2> QED
    BY <1>4, <2>2, <2>3, TasksInv DEF DeploymentIInv, TypeOK
<1>5. CASE UNCHANGED vars
  BY <1>5 DEF vars, deployVars, taskVars, DeploymentIInv, TypeOK, Proper, HeadIsSeen,
              PoolIsLive, PoolType, Names
<1> QED
  BY <1>1, <1>2, <1>3, <1>4, <1>5 DEF Next

LEMMA DeploymentInvariant == Spec => []DeploymentIInv
BY InitDeployment, DeploymentStep, PTL DEF Spec

-----------------------------------------------------------------------------
\* The database holds a version there is and objects the revisions name, and
\* containers and workers are where their scripts can be.
THEOREM DeploymentTypeTheorem == Spec => []TypeOK
<1>1. DeploymentIInv => TypeOK
  BY DEF DeploymentIInv
<1> QED
  BY <1>1, DeploymentInvariant, PTL

\* upgrade() and downgrade() of every revision succeed on the schema they find and
\* undo one another, so that any number of containers, migrations at once, crashes
\* and downgrades leave the schema of the recorded version.
THEOREM SchemaTheorem == Spec => []SchemaFollowsVersion
<1>1. DeploymentIInv => SchemaFollowsVersion
  BY ProperNames DEF DeploymentIInv, TypeOK, SchemaFollowsVersion
<1> QED
  BY <1>1, DeploymentInvariant, PTL

\* Who serves has found or made the last version, and it stays: what the models
\* declare is there.
THEOREM ServesTheorem == Spec => []ServesDeclaredSchema
<1>1. ASSUME DeploymentIInv, NEW c \in Containers, container[c].at = "serving"
      PROVE  Declared \subseteq Names(schema)
  <2>1. version = LastRevision /\ Proper(schema, version)
    BY <1>1 DEF DeploymentIInv, HeadIsSeen, Off
  <2>2. schema = SchemaOf[LastRevision]
    BY <2>1 DEF Proper, LastRevision
  <2> QED
    BY <2>2, HeadIsDeclared
<1>2. DeploymentIInv => ServesDeclaredSchema
  BY <1>1 DEF ServesDeclaredSchema
<1> QED
  BY <1>2, DeploymentInvariant, PTL

\* run_task disposes of the pool before it closes the loop, whichever way the
\* coroutine ended: no task of any process meets a connection of a closed loop.
THEOREM ConnectionsTheorem == Spec => []ConnectionsAreLive
<1>1. DeploymentIInv => ConnectionsAreLive
  BY DEF DeploymentIInv, PoolIsLive, ConnectionsAreLive
<1> QED
  BY <1>1, DeploymentInvariant, PTL

\* Once a container has the lock and finds the version it has read, its migration
\* succeeds: a container exits from upgrade head only because another one was
\* faster, or alembic failed or it died, and never because of what upgrades and
\* downgrades, finished or broken off, have left of the schema.
THEOREM MigrationsSucceed ==
  Spec => [][\A c \in Containers :
               Migrate(c) /\ version = container[c].base => container'[c].at = "serving"]_vars
<1>1. ASSUME DeploymentIInv, NEW c \in Containers, Migrate(c), version = container[c].base
      PROVE  container'[c].at = "serving"
  <2>1. Upgraded(schema, container[c].base) # Failed
    BY <1>1, UpgradesToHead, HeadNotFailed DEF DeploymentIInv, TypeOK
  <2>2. container' = [container EXCEPT ![c].at = "serving"]
    BY <1>1, <2>1 DEF Migrate
  <2>3. /\ c \in DOMAIN container
        /\ container[c] \in [at : {"off", "read", "locked", "serving"}, base : 0..LastRevision]
    BY <1>1 DEF DeploymentIInv, TypeOK
  <2> QED
    BY <2>2, <2>3
<1>2. DeploymentIInv /\ [Next]_vars
        => [\A c \in Containers :
              Migrate(c) /\ version = container[c].base => container'[c].at = "serving"]_vars
  BY <1>1
<1> QED
  BY <1>2, DeploymentInvariant, PTL DEF Spec

=============================================================================
