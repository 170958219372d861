----------------------------- MODULE Migrations -----------------------------
(* The schema revisions: what each statement of upgrade() and downgrade()    *)
(* needs, and what it makes of the schema.  Columns are left out.            *)
EXTENDS Integers

\* An object of the schema: a table, an index of some kind or an extension.
Object(n, d) == [name |-> n, def |-> d]

Create(n, d) == [do |-> "create", obj |-> Object(n, d)]
Ensure(n)    == [do |-> "if not exists", obj |-> Object(n, "extension")]
Drop(n)      == [do |-> "drop", obj |-> Object(n, "any")]
DropIf(n)    == [do |-> "if exists", obj |-> Object(n, "any")]

\* Foreign keys: the tables a table refers to.
References == [users |-> {}, kb_articles |-> {}, kb_chunks |-> {"kb_articles"},
               tickets |-> {"users"}, ai_suggestions |-> {"tickets"},
               ticket_comments |-> {"tickets", "users"}]

Tables == DOMAIN References

\* The table of an index; it goes with its table.
IndexOf == [ix_users_email |-> "users", idx_kb_chunks_embedding |-> "kb_chunks",
            idx_tickets_sla_sweep |-> "tickets", idx_tickets_customer |-> "tickets",
            idx_tickets_agent |-> "tickets", idx_tickets_created_at_id |-> "tickets",
            idx_ticket_comments_ticket |-> "ticket_comments"]

\* What has to be there before n is created; chunks have a column of type vector.
Needs(n) ==
  CASE n = "kb_chunks"     -> References[n] \cup {"vector"}
    [] n \in Tables \ {"kb_chunks"} -> References[n]
    [] n \in DOMAIN IndexOf -> {IndexOf[n]}

Embedding(kind) == Create("idx_kb_chunks_embedding", kind)

-----------------------------------------------------------------------------
Names(S) == {o.name : o \in S}

\* A schema no statement leads out of: the transaction has failed.
Failed == {Object("failed", "any")}

\* PostgreSQL takes the statement s with the schema S.
Takes(S, s) ==
  LET n == s.obj.name
  IN CASE s.do = "create" -> n \notin Names(S) /\ Needs(n) \subseteq Names(S)
       [] s.do = "drop" ->
            /\ n \in Names(S)
            /\ \A t \in Tables \cap Names(S) : n \in References[t] => t = n
       [] s.do \in {"if exists", "if not exists"} -> TRUE

Effect(S, s) ==
  LET n == s.obj.name
  IN IF s.do \in {"create", "if not exists"} THEN S \cup {s.obj}
     ELSE {o \in S : o.name # n /\ (o.name \in DOMAIN IndexOf => IndexOf[o.name] # n)}

\* The schema after the statement s.  (U is S: TLC evaluates it once.)
Run(S, s) ==
  UNION {IF U # Failed /\ Takes(U, s) THEN Effect(U, s) ELSE Failed : U \in {S}}

-----------------------------------------------------------------------------
\* upgrade() of the revisions, run on the schema S
Upgrade0001(S) ==
  LET s1  == Run(S, Ensure("vector"))
      s2  == Run(s1, Ensure("pgcrypto"))
      s3  == Run(s2, Create("users", "table"))
      s4  == Run(s3, Create("ix_users_email", "index"))
      s5  == Run(s4, Create("kb_articles", "table"))
      s6  == Run(s5, Create("kb_chunks", "table"))
      s7  == Run(s6, Embedding("ivfflat"))
      s8  == Run(s7, Create("tickets", "table"))
      s9  == Run(s8, Create("idx_tickets_sla_sweep", "index"))
      s10 == Run(s9, Create("idx_tickets_customer", "index"))
      s11 == Run(s10, Create("idx_tickets_agent", "index"))
  IN Run(s11, Create("ai_suggestions", "table"))

Upgrade0002(S) == Run(Run(S, DropIf("idx_kb_chunks_embedding")), Embedding("hnsw"))

Upgrade0003(S) == Run(S, Create("idx_tickets_created_at_id", "index"))

Upgrade0004(S) ==
  Run(Run(S, Create("ticket_comments", "table")), Create("idx_ticket_comments_ticket", "index"))

\* downgrade() of the revisions
Downgrade0001(S) ==
  LET s1 == Run(S, Drop("ai_suggestions"))
      s2 == Run(s1, Drop("idx_tickets_agent"))
      s3 == Run(s2, Drop("idx_tickets_customer"))
      s4 == Run(s3, Drop("idx_tickets_sla_sweep"))
      s5 == Run(s4, Drop("tickets"))
      s6 == Run(s5, DropIf("idx_kb_chunks_embedding"))
      s7 == Run(s6, Drop("kb_chunks"))
      s8 == Run(s7, Drop("kb_articles"))
      s9 == Run(s8, Drop("ix_users_email"))
  IN Run(s9, Drop("users"))

Downgrade0002(S) == Run(Run(S, DropIf("idx_kb_chunks_embedding")), Embedding("ivfflat"))

Downgrade0003(S) == Run(S, DropIf("idx_tickets_created_at_id"))

Downgrade0004(S) ==
  Run(Run(S, Drop("idx_ticket_comments_ticket")), Drop("ticket_comments"))

-----------------------------------------------------------------------------
LastRevision == 4

\* The revisions after version v up to version w, one after the other.
Upgrades(S, v, w) ==
  LET s1 == IF v < 1 /\ 1 <= w THEN Upgrade0001(S) ELSE S
      s2 == IF v < 2 /\ 2 <= w THEN Upgrade0002(s1) ELSE s1
      s3 == IF v < 3 /\ 3 <= w THEN Upgrade0003(s2) ELSE s2
  IN IF v < 4 /\ 4 <= w THEN Upgrade0004(s3) ELSE s3

\* What upgrade head does to S, and a downgrade by one, if the version is v.
Upgraded(S, v) == Upgrades(S, v, LastRevision)

Downgraded(S, v) ==
  CASE v = 1 -> Downgrade0001(S)
    [] v = 2 -> Downgrade0002(S)
    [] v = 3 -> Downgrade0003(S)
    [] v = 4 -> Downgrade0004(S)

\* SchemaOf[v]: the schema of version v, in a new database.
SchemaOf == [v \in 0..LastRevision |-> Upgrades({}, 0, v)]

WithoutExtensions(S) == {o \in S : o.def # "extension"}

\* What the ORM models declare.
Declared == Tables \cup (DOMAIN IndexOf \ {"idx_kb_chunks_embedding"})

=============================================================================
