------------------------------ MODULE Accounts ------------------------------
(* Accounts: POST /auth/register, which looks an address up before it inserts *)
(* it, under a unique index; the roles, which only an operator changes; and   *)
(* the tokens, which name a user and the role of the time.                    *)
EXTENDS Naturals, FiniteSets

CONSTANTS
  Registrations,  \* registration requests; each names the account it creates
  Emails,         \* addresses they may give
  Provisioned,    \* Provisioned[i]: role of an account i that is there already
  MaxRoleChanges  \* bound: roles an operator changes

Users == Registrations \cup DOMAIN Provisioned

Roles == {"customer", "agent", "admin"}
StaffRoles == {"agent", "admin"}

ASSUME AccountsAssumption ==
  /\ MaxRoleChanges \in Nat
  /\ "none" \notin Emails \cup Users
  /\ Emails \cap DOMAIN Provisioned = {}
  /\ Registrations \cap DOMAIN Provisioned = {}
  /\ Provisioned \in [DOMAIN Provisioned -> Roles]

VARIABLES
  register,     \* register[r]: how far request r is
  account,      \* account[i]: the committed row of i in users
  roleChanges   \* number of changed roles

accountVars == <<register, account, roleChanges>>

NoAccount == [email |-> "none", role |-> "none"]

\* checked: the address was free; open: inserted, answered 201 or about to be,
\* not committed; refused: 409; failed: 500; lost: the request died.
Stages == {"new", "checked", "open", "done", "refused", "failed", "lost"}

Exists(i) == account[i] # NoAccount

Taken(e) == \E i \in Users : account[i].email = e

\* What login and refresh issue names the role that i has then.
Token(i) == [user |-> i, role |-> account[i].role]

\* Another transaction has inserted e in the unique index and is still open.
Held(r, e) == \E q \in Registrations \ {r} : register[q].at = "open" /\ register[q].email = e

-----------------------------------------------------------------------------
\* get_by_email
Lookup(r, e) ==
  /\ register[r].at = "new"
  /\ register' = [register EXCEPT ![r] =
       [at |-> IF Taken(e) THEN "refused" ELSE "checked", email |-> e]]
  /\ UNCHANGED <<account, roleChanges>>

\* Variant: no unique index.
InsertUnindexed(r) ==
  /\ register[r].at = "checked"
  /\ register' = [register EXCEPT ![r].at = "open"]
  /\ UNCHANGED <<account, roleChanges>>

\* Variant: an insert that has to wait fails at once.
InsertNoWait(r) ==
  /\ register[r].at = "checked"
  /\ LET e == register[r].email
     IN register' = [register EXCEPT ![r].at = IF Taken(e) \/ Held(r, e) THEN "failed" ELSE "open"]
  /\ UNCHANGED <<account, roleChanges>>

\* The flush waits for a transaction that holds the address; a duplicate raises
\* IntegrityError, which nothing handles.
Insert(r) ==
  /\ register[r].at = "checked"
  /\ ~Held(r, register[r].email)
  /\ register' = [register EXCEPT ![r].at =
       IF Taken(register[r].email) THEN "failed" ELSE "open"]
  /\ UNCHANGED <<account, roleChanges>>

\* get_db commits after the response: a new account is a customer's.
CommitAccount(r) ==
  /\ register[r].at = "open"
  /\ register' = [register EXCEPT ![r].at = "done"]
  /\ account' = [account EXCEPT ![r] = [email |-> register[r].email, role |-> "customer"]]
  /\ UNCHANGED roleChanges

\* The request dies, or its commit fails.
LoseRegistration(r) ==
  /\ register[r].at \in {"checked", "open"}
  /\ register' = [register EXCEPT ![r].at = "lost"]
  /\ UNCHANGED <<account, roleChanges>>

\* UPDATE users SET role = ..., by hand.
SetRole(i, role) ==
  /\ Exists(i)
  /\ account[i].role # role
  /\ roleChanges < MaxRoleChanges
  /\ roleChanges' = roleChanges + 1
  /\ account' = [account EXCEPT ![i].role = role]
  /\ UNCHANGED register

-----------------------------------------------------------------------------
AccountsInit ==
  /\ register = [r \in Registrations |-> [at |-> "new", email |-> "none"]]
  /\ account = [i \in Users |-> IF i \in DOMAIN Provisioned
                                THEN [email |-> i, role |-> Provisioned[i]]
                                ELSE NoAccount]
  /\ roleChanges = 0

Registering(r) ==
  \/ \E e \in Emails : Lookup(r, e)
  \/ Insert(r) \/ CommitAccount(r) \/ LoseRegistration(r)

AccountsNext ==
  \/ \E r \in Registrations : Registering(r)
  \/ \E i \in Users, role \in Roles : SetRole(i, role)

AccountsTypeOK ==
  /\ register \in [Registrations -> [at : Stages, email : Emails \cup {"none"}]]
  /\ account \in [Users -> [email : Emails \cup DOMAIN Provisioned, role : Roles] \cup {NoAccount}]
  /\ roleChanges \in 0..MaxRoleChanges

\* No two accounts have the same address, though both registrations found it
\* free.
OneAccountPerEmail ==
  \A i, j \in Users : Exists(i) /\ account[i].email = account[j].email => i = j

\* Nobody is turned away, with 409 or with 500, for an address that ends up
\* without an account: not for another's registration that is lost.
TurnedAwayForACause ==
  \A r \in Registrations :
    register[r].at \in {"refused", "failed"} => Taken(register[r].email)

=============================================================================
