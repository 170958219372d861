-------------------------------- MODULE Desk --------------------------------
(* People at the Streamlit pages: they sign in, pick a ticket, read it and    *)
(* its conversation, answer, and sign out; every piece of a page is an API    *)
(* call of its own, which reads the user, the ticket and what it is about in  *)
(* separate statements, while roles and assignments change.                   *)
EXTENDS Accounts

CONSTANTS
  Browsers,
  Tickets,   \* ids of tickets customers may create
  Comments,  \* ids of comments that may be posted
  nobody     \* no user

ASSUME DeskAssumption == nobody \notin Users

VARIABLES
  session,   \* session[b]: session_state of the browser b
  page,      \* page[b]: what b shows
  call,      \* call[b]: the API call b waits for
  owner,     \* owner[t]: customer_id, nobody as long as t does not exist
  assigned,  \* assigned[t]: assigned_agent_id, or nobody
  comment    \* comment[c]: the row of c in ticket_comments

deskVars == <<session, page, call, owner, assigned, comment>>

vars == <<accountVars, deskVars>>

\* role: of the token, when it was issued; selected: the item that was clicked,
\* if any.
SignedOut == [user |-> nobody, role |-> "none", selected |-> <<>>]

\* as: the role the reader had in the database when the call for it began;
\* agent: whom the ticket was assigned to when the call read it.
Item == [what : {"listed", "ticket", "suggestion", "comment"}, ticket : Tickets,
         as : Roles, agent : Users \cup {nobody}, comment : Comments \cup {"none"}]

Shown(what, c) ==
  [what |-> what, ticket |-> c.ticket, as |-> c.as, agent |-> c.agent, comment |-> "none"]

ReadOps == {"list", "ticket", "suggestion", "comments"}
WriteOps == {"create", "reply", "note", "assign"}

Idle == [op |-> "none"]

NoComment == [at |-> "none"]

User(b) == session[b].user

\* Variant: the role of the token.
ActingRoleOfToken(b) == session[b].role

\* The role a call of b acts under: that of the row, not of the token.
ActingRole(b) == account[User(b)].role

\* require_role of the route.
Permitted(op, role) ==
  CASE op \in {"suggestion", "assign"}                        -> role \in StaffRoles
    [] op = "create"                                          -> role = "customer"
    [] op \in {"list", "ticket", "comments", "reply", "note"} -> TRUE

\* What the page offers: by the role of the token, for the selected ticket, and
\* below a ticket only if that could be loaded.
Offered(b, op) ==
  LET s == session[b]
      loaded == \E x \in page[b] : x.what = "ticket"
  IN CASE op = "list"                           -> TRUE
       [] op = "create"                         -> s.role = "customer"
       [] op = "ticket"                         -> s.selected # <<>>
       [] op \in {"comments", "reply"}          -> loaded
       [] op \in {"suggestion", "note", "assign"} -> loaded /\ s.role \in StaffRoles

-----------------------------------------------------------------------------
\* login: the fields of the session are set one by one, the others stay.
SignIn(b, i) ==
  /\ User(b) = nobody
  /\ Exists(i)
  /\ session' = [session EXCEPT ![b] =
       [user |-> Token(i).user, role |-> Token(i).role, selected |-> @.selected]]
  /\ UNCHANGED <<page, call, owner, assigned, comment>>

\* Variant: only the token and who it belongs to are forgotten.
SignOutOfToken(b) ==
  /\ User(b) # nobody
  /\ call[b] = Idle
  /\ session' = [session EXCEPT ![b] = [SignedOut EXCEPT !.selected = session[b].selected]]
  /\ page' = [page EXCEPT ![b] = {}]
  /\ UNCHANGED <<call, owner, assigned, comment>>

\* session_state.clear() and rerun.
SignOut(b) ==
  /\ User(b) # nobody
  /\ call[b] = Idle
  /\ session' = [session EXCEPT ![b] = SignedOut]
  /\ page' = [page EXCEPT ![b] = {}]
  /\ UNCHANGED <<call, owner, assigned, comment>>

\* "View details"
Select(b) ==
  /\ call[b] = Idle
  /\ \E x \in page[b] : x.what = "listed" /\ session' = [session EXCEPT ![b].selected = <<x>>]
  /\ page' = [page EXCEPT ![b] = {}]
  /\ UNCHANGED <<call, owner, assigned, comment>>

-----------------------------------------------------------------------------
\* A list and a ticket start their page anew.
Restarted(b, op) == IF op \in {"list", "ticket"} THEN [page EXCEPT ![b] = {}] ELSE page

\* The call's token is decoded, its user is read, the role is checked.
Call(b, op) ==
  /\ User(b) # nobody
  /\ call[b] = Idle
  /\ Offered(b, op)
  /\ Permitted(op, ActingRole(b))
  /\ LET x == session[b].selected
     IN call' = [call EXCEPT ![b] =
          [op |-> op, role |-> ActingRole(b), as |-> account[User(b)].role, at |-> "user",
           agent |-> nobody, ticket |-> IF x = <<>> THEN "none" ELSE x[1].ticket]]
  /\ page' = Restarted(b, op)
  /\ UNCHANGED <<session, owner, assigned, comment>>

\* 401, from an access token that has expired (the pages do not use the refresh
\* token), 403, or no answer: an error is shown instead.
CallFails(b, op) ==
  /\ User(b) # nobody
  /\ call[b] = Idle
  /\ Offered(b, op)
  /\ page' = Restarted(b, op)
  /\ UNCHANGED <<session, call, owner, assigned, comment>>

\* An answer for an error.
Refused(b) ==
  /\ call' = [call EXCEPT ![b] = Idle]
  /\ UNCHANGED <<page, owner, assigned, comment>>

\* _authorize_view
MayView(role, i, t) ==
  CASE role = "admin"    -> TRUE
    [] role = "customer" -> owner[t] = i
    [] role = "agent"    -> assigned[t] \in {nobody, i}

\* The ticket is read; only calls that are about its content check who asks.
ReadTicket(b) ==
  /\ call[b].op \notin {"none", "list", "create"}
  /\ call[b].at = "user"
  /\ \/ /\ call[b].op = "assign" \/ MayView(call[b].role, User(b), call[b].ticket)
        /\ call' = [call EXCEPT ![b].at = "ticket", ![b].agent = assigned[call[b].ticket]]
        /\ UNCHANGED <<page, owner, assigned, comment>>
     \/ /\ call[b].op # "assign" /\ ~MayView(call[b].role, User(b), call[b].ticket)
        /\ Refused(b)
  /\ UNCHANGED session

\* list_by_ticket, without the internal ones for a customer.
Conversation(b) ==
  {c \in Comments : /\ comment[c].at = "done"
                    /\ comment[c].ticket = call[b].ticket
                    /\ call[b].role = "customer" => ~comment[c].internal}

\* What the call returns for the page of b.
Answer(b) ==
  LET c == call[b]
      listed == {t \in Tickets : owner[t] # nobody /\ (c.role = "customer" => owner[t] = User(b))}
  IN CASE c.op = "list"     -> {Shown("listed", [c EXCEPT !.ticket = t]) : t \in listed}
       [] c.op = "comments" -> {[Shown("comment", c) EXCEPT !.comment = x] : x \in Conversation(b)}
       [] c.op \in {"ticket", "suggestion"} -> {Shown(c.op, c)}

\* list needs no ticket; the others have read theirs.
Read(b) ==
  /\ call[b].op \in ReadOps
  /\ call[b].at = IF call[b].op = "list" THEN "user" ELSE "ticket"
  /\ page' = [page EXCEPT ![b] = @ \cup Answer(b)]
  /\ call' = [call EXCEPT ![b] = Idle]
  /\ UNCHANGED <<session, owner, assigned, comment>>

\* Details of creation are in module IdempotentCreate.
Create(b) ==
  /\ call[b].op = "create"
  /\ \E t \in Tickets : owner[t] = nobody /\ owner' = [owner EXCEPT ![t] = User(b)]
  /\ call' = [call EXCEPT ![b] = Idle]
  /\ UNCHANGED <<session, page, assigned, comment>>

\* Variant: the flag is trusted.
NoteRefusedNever(b) == FALSE

\* is_internal and UserRole(author.role) == UserRole.CUSTOMER
NoteRefused(b) == call[b].op = "note" /\ call[b].role = "customer"

\* add_comment; the row is answered and committed later.
Post(b) ==
  /\ call[b].op \in {"reply", "note"}
  /\ call[b].at = "ticket"
  /\ \/ NoteRefused(b) /\ Refused(b)
     \/ /\ ~NoteRefused(b)
        /\ \E c \in Comments :
             /\ comment[c] = NoComment
             /\ comment' = [comment EXCEPT ![c] =
                  [at |-> "open", ticket |-> call[b].ticket, internal |-> call[b].op = "note",
                   as |-> call[b].as]]
        /\ call' = [call EXCEPT ![b] = Idle]
        /\ UNCHANGED <<page, owner, assigned>>
  /\ UNCHANGED session

CommitComment(c) ==
  /\ comment[c].at = "open"
  /\ comment' = [comment EXCEPT ![c].at = "done"]
  /\ UNCHANGED <<session, page, call, owner, assigned>>

\* assign_ticket: to one of list_agents who is an agent when it is looked up.
Assign(b) ==
  /\ call[b].op = "assign"
  /\ call[b].at = "ticket"
  /\ \E i \in Users :
       /\ account[i].role = "agent"
       /\ assigned' = [assigned EXCEPT ![call[b].ticket] = i]
  /\ call' = [call EXCEPT ![b] = Idle]
  /\ UNCHANGED <<session, page, owner, comment>>

\* The calls of everyone else, each in one step: customers create, staff assign,
\* staff and the customer of a ticket write.
CreateElsewhere(t, i) ==
  /\ owner[t] = nobody
  /\ account[i].role = "customer"
  /\ owner' = [owner EXCEPT ![t] = i]
  /\ UNCHANGED <<session, page, call, assigned, comment>>

AssignElsewhere(t, i) ==
  /\ owner[t] # nobody
  /\ \E j \in Users : account[j].role \in StaffRoles
  /\ account[i].role = "agent"
  /\ assigned' = [assigned EXCEPT ![t] = i]
  /\ UNCHANGED <<session, page, call, owner, comment>>

PostElsewhere(c, t, i) ==
  /\ Exists(i)
  /\ MayView(account[i].role, i, t)
  /\ owner[t] # nobody
  /\ comment[c] = NoComment
  /\ \E internal \in (IF account[i].role = "customer" THEN {FALSE} ELSE BOOLEAN) :
       comment' = [comment EXCEPT ![c] =
         [at |-> "done", ticket |-> t, internal |-> internal, as |-> account[i].role]]
  /\ UNCHANGED <<session, page, call, owner, assigned>>

-----------------------------------------------------------------------------
Init ==
  /\ AccountsInit
  /\ session = [b \in Browsers |-> SignedOut]
  /\ page = [b \in Browsers |-> {}]
  /\ call = [b \in Browsers |-> Idle]
  /\ owner = [t \in Tickets |-> nobody]
  /\ assigned = [t \in Tickets |-> nobody]
  /\ comment = [c \in Comments |-> NoComment]

DeskNext ==
  \/ \E b \in Browsers :
       \/ \E i \in Users : SignIn(b, i)
       \/ SignOut(b) \/ Select(b)
       \/ \E op \in ReadOps \cup WriteOps : Call(b, op) \/ CallFails(b, op)
       \/ ReadTicket(b) \/ Read(b) \/ Create(b) \/ Post(b) \/ Assign(b)
  \/ \E c \in Comments : CommitComment(c)
  \/ \E t \in Tickets, i \in Users :
       \/ CreateElsewhere(t, i) \/ AssignElsewhere(t, i)
       \/ \E c \in Comments : PostElsewhere(c, t, i)

Next ==
  \/ AccountsNext /\ UNCHANGED deskVars
  \/ DeskNext /\ UNCHANGED accountVars

Spec == Init /\ [][Next]_vars

-----------------------------------------------------------------------------
TypeOK ==
  /\ AccountsTypeOK
  /\ session \in [Browsers -> [user : Users \cup {nobody}, role : Roles \cup {"none"},
                              selected : {<<>>} \cup {<<x>> : x \in Item}]]
  /\ page \in [Browsers -> SUBSET Item]
  /\ owner \in [Tickets -> Users \cup {nobody}]
  /\ assigned \in [Tickets -> Users \cup {nobody}]

\* x may be shown to user i: what a customer asks for is of his own tickets, and
\* neither internal nor a draft; what an agent reads of a ticket is of one that
\* was nobody's or his own.
MaySee(i, x) ==
  /\ x.as = "customer" => /\ owner[x.ticket] = i
                          /\ x.what # "suggestion"
                          /\ x.what = "comment" => ~comment[x.comment].internal
  /\ x.as = "agent" /\ x.what # "listed" => x.agent \in {nobody, i}

\* Whatever role a token still says, however roles, assignments and people at
\* the browser change: a page shows its reader what the role in the database
\* allowed when the call for it was made.
ShownWasAllowed == \A b \in Browsers : \A x \in page[b] : MaySee(User(b), x)

\* An internal note is by someone who was staff when the call was made, though
\* the page goes on to offer notes to a former agent.
NotesAreByStaff ==
  \A c \in Comments : comment[c] # NoComment /\ comment[c].internal => comment[c].as # "customer"

\* Nothing of a session is left to the next one in the same browser: what is
\* shown and what is selected was shown to the one who is signed in.
NothingLeftBehind ==
  \A b \in Browsers :
    /\ User(b) = nobody => page[b] = {}
    /\ session[b].selected # <<>> => User(b) # nobody /\ MaySee(User(b), session[b].selected[1])

=============================================================================
