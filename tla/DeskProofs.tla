----------------------------- MODULE DeskProofs -----------------------------
(* For any number of registrations, addresses, browsers, tickets and comments *)
(* the unique index keeps addresses apart and turns nobody away in vain, and  *)
(* no page shows what the role in the database did not allow.  What carries   *)
(* the second is that a call keeps the role it was checked under, that owners *)
(* and the flag of a comment never change, and that a browser without a user  *)
(* has nothing: no call, no page, no selection.                               *)
EXTENDS Desk, TLAPS

-----------------------------------------------------------------------------
\* An open registration holds an address nobody has and nobody else inserts; the
\* account of a registration is there when it is done, not before.
RegistrationsSound ==
  \A r \in Registrations :
    /\ register[r].at # "new" => register[r].email \in Emails
    /\ register[r].at # "done" => account[r] = NoAccount
    /\ register[r].at = "open" => ~Taken(register[r].email) /\ ~Held(r, register[r].email)

AInv == AccountsTypeOK /\ OneAccountPerEmail /\ TurnedAwayForACause /\ RegistrationsSound

Account == [email : Emails \cup DOMAIN Provisioned, role : Roles]

LEMMA AnAccount ==
  ASSUME AccountsTypeOK, NEW i \in Users, Exists(i)
  PROVE  /\ account[i] \in Account /\ account[i].role \in Roles
         /\ account[i].email \in Emails \cup DOMAIN Provisioned
         /\ account[i].email # "none"
BY AccountsAssumption DEF AccountsTypeOK, Exists, Account, Users

LEMMA NoneHasNoAddress ==
  /\ NoAccount.email = "none" /\ "none" \notin Emails /\ "none" \notin DOMAIN Provisioned
  /\ Registrations \subseteq Users /\ DOMAIN Provisioned \subseteq Users
BY AccountsAssumption DEF NoAccount, Users

LEMMA ARegistration ==
  ASSUME AccountsTypeOK, NEW r \in Registrations
  PROVE  register[r] \in [at : Stages, email : Emails \cup {"none"}]
BY DEF AccountsTypeOK

LEMMA AccountsInitInv == AccountsInit => AInv
<1> SUFFICES ASSUME AccountsInit PROVE AInv
  OBVIOUS
<1> USE AccountsAssumption, NoneHasNoAddress
<1>1. AccountsTypeOK
  <2>1. ASSUME NEW i \in Users PROVE account[i] \in Account \cup {NoAccount}
    BY DEF AccountsInit, Account
  <2>2. account \in [Users -> Account \cup {NoAccount}]
    BY <2>1 DEF AccountsInit
  <2> QED
    BY <2>2 DEF AccountsInit, AccountsTypeOK, Account, Stages
<1>2. OneAccountPerEmail
  <2> SUFFICES ASSUME NEW i \in Users, NEW j \in Users, Exists(i),
                      account[i].email = account[j].email
               PROVE  i = j
    BY DEF OneAccountPerEmail
  <2>1. i \in DOMAIN Provisioned /\ account[i].email = i
    BY DEF AccountsInit, Exists
  <2>2. account[j] # NoAccount
    BY <2>1
  <2> QED
    BY <2>1, <2>2 DEF AccountsInit
<1>3. TurnedAwayForACause /\ RegistrationsSound
  BY DEF AccountsInit, TurnedAwayForACause, RegistrationsSound
<1> QED
  BY <1>1, <1>2, <1>3 DEF AInv

\* A step of request r that leaves the accounts alone.
LEMMA RequestStep ==
  ASSUME AInv, NEW r \in Registrations, NEW x \in [at : Stages, email : Emails],
         register' = [register EXCEPT ![r] = x], UNCHANGED <<account, roleChanges>>,
         register[r].at # "done" /\ x.at # "done",
         x.at \in {"refused", "failed"} => Taken(x.email),
         x.at = "open" => ~Taken(x.email) /\ ~Held(r, x.email)
  PROVE  AInv'
<1> USE DEF AInv
<1>1. \A q \in Registrations : register'[q] = IF q = r THEN x ELSE register[q]
  BY DEF AccountsTypeOK
<1>2. AccountsTypeOK'
  BY DEF AccountsTypeOK
<1>3. OneAccountPerEmail'
  BY DEF OneAccountPerEmail, Exists
<1>4. TurnedAwayForACause'
  BY <1>1 DEF TurnedAwayForACause, Taken
<1>5. RegistrationsSound'
  <2> SUFFICES ASSUME NEW q \in Registrations
               PROVE  /\ register'[q].at # "new" => register'[q].email \in Emails
                      /\ register'[q].at # "done" => account[q] = NoAccount
                      /\ register'[q].at = "open" =>
                           ~Taken(register'[q].email) /\ ~Held(q, register[q].email)'
    BY DEF RegistrationsSound, Taken
  <2>1. CASE q = r
    BY <1>1, <2>1 DEF RegistrationsSound, Held
  <2>2. CASE q # r
    <3>1. register'[q] = register[q]
      BY <1>1, <2>2
    <3>2. ASSUME register[q].at = "open" PROVE ~Held(q, register[q].email)'
      <4>1. ~Held(q, register[q].email)
        BY <3>2 DEF RegistrationsSound
      <4>2. x.at = "open" => x.email # register[q].email
        BY <2>2, <3>2 DEF Held
      <4> QED
        BY <1>1, <3>1, <4>1, <4>2 DEF Held
    <3> QED
      BY <3>1, <3>2 DEF RegistrationsSound
  <2> QED
    BY <2>1, <2>2
<1> QED
  BY <1>2, <1>3, <1>4, <1>5

\* The commit of an open registration is the first account with its address.
LEMMA CommitAccountInv ==
  ASSUME AInv, NEW r \in Registrations, CommitAccount(r)
  PROVE  AInv'
<1> USE DEF AInv
<1> DEFINE e == register[r].email
<1>1. /\ r \in Users /\ e \in Emails /\ e # "none" /\ account[r] = NoAccount
      /\ ~Taken(e) /\ ~Held(r, e)
  BY NoneHasNoAddress DEF CommitAccount, RegistrationsSound
<1>2. \A i \in Users : account'[i] = IF i = r THEN [email |-> e, role |-> "customer"]
                                     ELSE account[i]
  BY DEF CommitAccount, AccountsTypeOK
<1>3. \A q \in Registrations :
        register'[q] = IF q = r THEN [register[r] EXCEPT !.at = "done"] ELSE register[q]
  BY DEF CommitAccount, AccountsTypeOK
<1>4. /\ register'[r].at = "done" /\ register'[r].email = e
      /\ [register[r] EXCEPT !.at = "done"] \in [at : Stages, email : Emails \cup {"none"}]
  BY <1>3, ARegistration DEF Stages
<1>5. AccountsTypeOK'
  <2>1. [email |-> e, role |-> "customer"] \in Account
    BY <1>1 DEF Account, Roles
  <2>2. account' \in [Users -> Account \cup {NoAccount}]
    BY <2>1 DEF CommitAccount, AccountsTypeOK, Account
  <2>3. register' \in [Registrations -> [at : Stages, email : Emails \cup {"none"}]]
    BY <1>4 DEF CommitAccount, AccountsTypeOK
  <2> QED
    BY <2>2, <2>3 DEF CommitAccount, AccountsTypeOK, Account
<1>6. OneAccountPerEmail'
  <2> SUFFICES ASSUME NEW i \in Users, NEW j \in Users, Exists(i)',
                      account'[i].email = account'[j].email
               PROVE  i = j
    BY DEF OneAccountPerEmail
  <2>1. CASE i = r /\ j # r
    BY <1>1, <1>2, <2>1 DEF Taken
  <2>2. CASE i # r /\ j = r
    BY <1>1, <1>2, <2>2 DEF Taken
  <2>3. CASE i # r /\ j # r
    BY <1>2, <2>3 DEF OneAccountPerEmail, Exists
  <2> QED
    BY <2>1, <2>2, <2>3
<1>7. \A f \in Emails : Taken(f)' <=> Taken(f) \/ f = e
  BY <1>1, <1>2, NoneHasNoAddress DEF Taken
<1>8. TurnedAwayForACause'
  <2> SUFFICES ASSUME NEW q \in Registrations, register'[q].at \in {"refused", "failed"}
               PROVE  Taken(register[q].email)'
    BY DEF TurnedAwayForACause
  <2>1. register'[q] = register[q] /\ register[q].email \in Emails /\ Taken(register[q].email)
    BY <1>3, <1>4 DEF TurnedAwayForACause, RegistrationsSound
  <2> QED
    BY <1>7, <2>1
<1>9. RegistrationsSound'
  <2> SUFFICES ASSUME NEW q \in Registrations
               PROVE  /\ register'[q].at # "new" => register'[q].email \in Emails
                      /\ register'[q].at # "done" => account'[q] = NoAccount
                      /\ register'[q].at = "open" =>
                           ~Taken(register[q].email)' /\ ~Held(q, register[q].email)'
    BY DEF RegistrationsSound
  <2>1. CASE q = r
    BY <1>1, <1>4, <2>1
  <2>2. CASE q # r
    <3>1. register'[q] = register[q] /\ account'[q] = account[q]
      BY <1>2, <1>3, <2>2, NoneHasNoAddress
    <3>2. ASSUME register[q].at = "open"
          PROVE  ~Taken(register[q].email)' /\ ~Held(q, register[q].email)'
      <4>1. ~Taken(register[q].email) /\ ~Held(q, register[q].email)
            /\ register[q].email \in Emails
        BY <3>2 DEF RegistrationsSound
      <4>2. register[q].email # e
        BY <1>1, <2>2, <3>2 DEF Held
      <4>3. \A p \in Registrations : register'[p].at = "open" => register'[p] = register[p]
        BY <1>3, <1>4
      <4>4. ~Taken(register[q].email)'
        BY <1>7, <3>1, <4>1, <4>2
      <4>5. ~Held(q, register[q].email)'
        BY <3>1, <4>1, <4>3 DEF Held
      <4> QED
        BY <4>4, <4>5
    <3> QED
      BY <3>1, <3>2 DEF RegistrationsSound
  <2> QED
    BY <2>1, <2>2
<1> QED
  BY <1>5, <1>6, <1>8, <1>9

\* A changed role leaves every address where it was.
LEMMA SetRoleInv ==
  ASSUME AInv, NEW i \in Users, NEW role \in Roles, SetRole(i, role)
  PROVE  AInv'
<1> USE DEF AInv
<1>1. account[i] \in Account /\ Exists(i)
  BY AnAccount DEF SetRole
<1>2. \A j \in Users : account'[j] = IF j = i THEN [account[i] EXCEPT !.role = role]
                                     ELSE account[j]
  BY DEF SetRole, AccountsTypeOK
<1>3. [account[i] EXCEPT !.role = role] \in Account
  BY <1>1 DEF Account
<1>4. AccountsTypeOK'
  <2>1. account' \in [Users -> Account \cup {NoAccount}]
    BY <1>3 DEF SetRole, AccountsTypeOK, Account
  <2>2. roleChanges' \in 0..MaxRoleChanges
    BY AccountsAssumption DEF SetRole, AccountsTypeOK
  <2> QED
    BY <2>1, <2>2 DEF SetRole, AccountsTypeOK, Account
<1>5. \A j \in Users : account'[j].email = account[j].email
  BY <1>1, <1>2 DEF Account
<1>6. [account[i] EXCEPT !.role = role] # NoAccount
  BY <1>1, AnAccount, <1>5, <1>2 DEF Account, NoAccount
<1>7. \A j \in Users : Exists(j)' <=> Exists(j)
  BY <1>1, <1>2, <1>6 DEF Exists
<1>8. OneAccountPerEmail'
  BY <1>5, <1>7 DEF OneAccountPerEmail
<1>9. \A f : Taken(f)' <=> Taken(f)
  BY <1>5 DEF Taken
<1>10. register' = register
  BY DEF SetRole
<1>11. TurnedAwayForACause'
  BY <1>9, <1>10 DEF TurnedAwayForACause
<1>12. \A r \in Registrations : account[r] = NoAccount => account'[r] = NoAccount
  BY <1>1, <1>2, NoneHasNoAddress DEF Exists
<1>13. RegistrationsSound'
  BY <1>9, <1>10, <1>12 DEF RegistrationsSound, Held
<1> QED
  BY <1>4, <1>8, <1>11, <1>13

LEMMA AccountsStepInv == AInv /\ [AccountsNext]_accountVars => AInv'
<1> SUFFICES ASSUME AInv, [AccountsNext]_accountVars PROVE AInv'
  OBVIOUS
<1>1. CASE UNCHANGED accountVars
  BY <1>1 DEF accountVars, AInv, AccountsTypeOK, OneAccountPerEmail, TurnedAwayForACause,
              RegistrationsSound, Exists, Taken, Held
<1>2. ASSUME NEW r \in Registrations, NEW e \in Emails, Lookup(r, e) PROVE AInv'
  <2> DEFINE x == [at |-> IF Taken(e) THEN "refused" ELSE "checked", email |-> e]
  <2>1. /\ x \in [at : Stages, email : Emails] /\ x.email = e
        /\ x.at = IF Taken(e) THEN "refused" ELSE "checked"
    BY DEF Stages
  <2>2. register' = [register EXCEPT ![r] = x] /\ UNCHANGED <<account, roleChanges>>
        /\ register[r].at # "done"
    BY <1>2 DEF Lookup
  <2> HIDE DEF x
  <2> QED
    BY <2>1, <2>2, RequestStep
<1>3. ASSUME NEW r \in Registrations, NEW at \in Stages \ {"done"},
             register' = [register EXCEPT ![r].at = at], UNCHANGED <<account, roleChanges>>,
             register[r].at \notin {"new", "done"},
             at \in {"refused", "failed"} => Taken(register[r].email),
             at = "open" => ~Taken(register[r].email) /\ ~Held(r, register[r].email)
      PROVE  AInv'
  <2> DEFINE x == [register[r] EXCEPT !.at = at]
  <2>1. register[r].email \in Emails /\ register[r] \in [at : Stages, email : Emails \cup {"none"}]
    BY <1>3, ARegistration DEF AInv, RegistrationsSound
  <2>2. x \in [at : Stages, email : Emails] /\ x.email = register[r].email /\ x.at = at
    BY <2>1
  <2>3. register' = [register EXCEPT ![r] = x]
    BY <1>3
  <2> HIDE DEF x
  <2> QED
    BY <1>3, <2>2, <2>3, RequestStep
<1>4. ASSUME NEW r \in Registrations, Insert(r) PROVE AInv'
  <2>1. CASE Taken(register[r].email)
    BY <1>3, <1>4, <2>1 DEF Insert, Stages
  <2>2. CASE ~Taken(register[r].email)
    BY <1>3, <1>4, <2>2 DEF Insert, Stages
  <2> QED
    BY <2>1, <2>2
<1>5. ASSUME NEW r \in Registrations, LoseRegistration(r) PROVE AInv'
  BY <1>3, <1>5 DEF LoseRegistration, Stages
<1> QED
  BY <1>1, <1>2, <1>4, <1>5, CommitAccountInv, SetRoleInv DEF AccountsNext, Registering

\* What Desk does leaves the accounts alone.
LEMMA AccountsInvariant == Spec => []AInv
<1>1. [Next]_vars => [AccountsNext]_accountVars
  BY DEF Next, vars
<1>2. Init => AInv
  BY AccountsInitInv DEF Init
<1> QED
  BY <1>1, <1>2, AccountsStepInv, PTL DEF Spec

\* Registrations that found an address free at the same time leave one account.
THEOREM OneAccountPerEmailTheorem == Spec => []OneAccountPerEmail
<1>1. AInv => OneAccountPerEmail
  BY DEF AInv
<1> QED
  BY <1>1, AccountsInvariant, PTL

\* A registration that is answered 409 or 500 was beaten by one that is there.
THEOREM TurnedAwayTheorem == Spec => []TurnedAwayForACause
<1>1. AInv => TurnedAwayForACause
  BY DEF AInv
<1> QED
  BY <1>1, AccountsInvariant, PTL

-----------------------------------------------------------------------------
\* A call that runs.
Calls == [op : ReadOps \cup WriteOps, role : Roles, as : Roles, at : {"user", "ticket"},
          agent : Users \cup {nobody}, ticket : Tickets \cup {"none"}]

\* A comment that is stored or about to be.
Posted == [at : {"open", "done"}, ticket : Tickets \cup {"none"}, internal : BOOLEAN, as : Roles]

DeskTypes ==
  /\ TypeOK
  /\ call \in [Browsers -> Calls \cup {Idle}]
  /\ comment \in [Comments -> Posted \cup {NoComment}]

\* Calls about the content of a ticket check who asks; all but two need a ticket.
Checked == {"ticket", "suggestion", "comments"}
Unticketed == {"list", "create"}

\* The reader i may see x, and a comment in it is one that was posted.
Rightful(i, x) ==
  /\ MaySee(i, x)
  /\ x.what = "comment" => x.comment \in Comments /\ comment[x.comment] # NoComment

\* A call acts under the role its user had; one for a page may, once the ticket
\* is read, answer with it.
CallSound(b) ==
  call[b] # Idle =>
    /\ call[b].as = call[b].role
    /\ call[b].op = "suggestion" => call[b].role \in StaffRoles
    /\ call[b].op \notin Unticketed =>
         call[b].ticket \in Tickets /\ session[b].selected # <<>>
    /\ call[b].at = "ticket" /\ call[b].op \in Checked =>
         /\ call[b].role = "customer" => owner[call[b].ticket] = User(b)
         /\ call[b].role = "agent" => call[b].agent \in {nobody, User(b)}

BrowserSound(b) ==
  /\ User(b) # nobody => Exists(User(b))
  /\ User(b) = nobody => call[b] = Idle /\ page[b] = {} /\ session[b].selected = <<>>
  /\ \A x \in page[b] : Rightful(User(b), x) /\ (x.what # "listed" => session[b].selected # <<>>)
  /\ session[b].selected # <<>> =>
       session[b].selected[1].what = "listed" /\ Rightful(User(b), session[b].selected[1])
  /\ CallSound(b)

DInv == DeskTypes /\ NotesAreByStaff /\ \A b \in Browsers : BrowserSound(b)

\* What is there stays: accounts, the owner of a ticket, comments and their flag.
Kept ==
  /\ \A i \in Users : Exists(i) => Exists(i)'
  /\ \A t \in Tickets : owner[t] # nobody => owner'[t] = owner[t]
  /\ \A c \in Comments : comment[c] # NoComment =>
                           comment'[c] # NoComment /\ comment'[c].internal = comment[c].internal

-----------------------------------------------------------------------------
LEMMA ABrowser ==
  ASSUME DeskTypes, NEW b \in Browsers
  PROVE  /\ User(b) \in Users \cup {nobody} /\ session[b].role \in Roles \cup {"none"}
         /\ page[b] \subseteq Item
         /\ session[b].selected = <<>> \/ \E x \in Item : session[b].selected = <<x>>
         /\ session[b] \in [user : Users \cup {nobody}, role : Roles \cup {"none"},
                            selected : {<<>>} \cup {<<x>> : x \in Item}]
BY DEF DeskTypes, TypeOK, User

LEMMA ACall ==
  ASSUME DeskTypes, NEW b \in Browsers, call[b] # Idle \/ call[b].op # "none"
  PROVE  /\ call[b] # Idle /\ call[b] \in Calls /\ call[b].role \in Roles
         /\ call[b].as \in Roles /\ call[b].agent \in Users \cup {nobody}
         /\ call[b].op \in ReadOps \cup WriteOps
BY DEF DeskTypes, Idle, Calls, ReadOps, WriteOps

\* What a reader may see stays so.
LEMMA RightfulStays ==
  ASSUME DeskTypes, Kept, NEW i \in Users, NEW x \in Item, Rightful(i, x)
  PROVE  Rightful(i, x)'
<1>1. x.ticket \in Tickets /\ i # nobody
  BY DeskAssumption DEF Item
<1>2. owner[x.ticket] = i => owner'[x.ticket] = i
  BY <1>1 DEF Kept
<1>3. x.what = "comment" => /\ comment'[x.comment] # NoComment
                            /\ comment'[x.comment].internal = comment[x.comment].internal
  BY DEF Kept, Rightful
<1> QED
  BY <1>2, <1>3 DEF Rightful, MaySee

\* A browser that keeps its session, shows no more and calls nothing new.
LEMMA BrowserStays ==
  ASSUME DeskTypes, Kept, NEW b \in Browsers, BrowserSound(b),
         session'[b] = session[b], page'[b] \subseteq page[b],
         call'[b] = call[b] \/ call'[b] = Idle
  PROVE  BrowserSound(b)'
<1>1. User(b)' = User(b) /\ User(b) \in Users \cup {nobody}
  BY ABrowser DEF User
<1>2. CASE User(b) = nobody
  <2>1. /\ call[b] = Idle /\ page[b] = {} /\ session[b].selected = <<>>
    BY <1>2 DEF BrowserSound
  <2>2. /\ call'[b] = Idle /\ page'[b] = {} /\ session'[b].selected = <<>>
    BY <2>1
  <2> QED
    BY <1>1, <1>2, <2>2 DEF BrowserSound, CallSound
<1>3. CASE User(b) \in Users
  <2>1. User(b) # nobody /\ Exists(User(b))'
    BY <1>1, <1>3, DeskAssumption DEF BrowserSound, Kept, Exists
  <2>2. ASSUME NEW x \in page'[b]
        PROVE  Rightful(User(b), x)' /\ (x.what # "listed" => session'[b].selected # <<>>)
    <3>1. x \in Item /\ Rightful(User(b), x) /\ (x.what # "listed" => session[b].selected # <<>>)
      BY ABrowser DEF BrowserSound
    <3> QED
      BY <1>1, <1>3, <3>1, RightfulStays
  <2>3. ASSUME session'[b].selected # <<>>
        PROVE  /\ session'[b].selected[1].what = "listed"
               /\ Rightful(User(b), session[b].selected[1])'
    <3>1. PICK x \in Item : session[b].selected = <<x>>
      BY <2>3, ABrowser
    <3>2. x.what = "listed" /\ Rightful(User(b), x)
      BY <2>3, <3>1 DEF BrowserSound
    <3>3. Rightful(User(b), x)'
      BY <1>1, <1>3, <3>2, RightfulStays
    <3> QED
      BY <3>1, <3>2, <3>3
  <2>4. CallSound(b)'
    <3>1. CASE call'[b] = Idle
      BY <3>1 DEF CallSound
    <3>2. CASE call'[b] = call[b] /\ call[b] # Idle
      <4>1. CallSound(b)
        BY DEF BrowserSound
      <4>2. call[b].op \in Checked =>
              call[b].ticket \in Tickets
        BY <3>2, <4>1 DEF CallSound, Checked, Unticketed
      <4>3. call[b].at = "ticket" /\ call[b].op \in Checked /\ call[b].role = "customer" =>
              owner'[call[b].ticket] = User(b)
        BY <2>1, <3>2, <4>1, <4>2 DEF CallSound, Kept
      <4> QED
        BY <1>1, <3>2, <4>1, <4>3 DEF CallSound
    <3> QED
      BY <3>1, <3>2
  <2> QED
    BY <1>1, <2>1, <2>2, <2>3, <2>4 DEF BrowserSound
<1> QED
  BY <1>1, <1>2, <1>3

\* A step under which every browser but b stays as it is.
LEMMA BrowserStep ==
  ASSUME DInv, DeskTypes', NotesAreByStaff', Kept, NEW b \in Browsers,
         \A v \in Browsers \ {b} :
           session'[v] = session[v] /\ page'[v] = page[v] /\ call'[v] = call[v],
         BrowserSound(b)'
  PROVE  DInv'
<1>1. ASSUME NEW v \in Browsers \ {b} PROVE BrowserSound(v)'
  BY BrowserStays DEF DInv
<1> QED
  BY <1>1 DEF DInv

\* A step that at most ends calls and clears pages.
LEMMA QuietStep ==
  ASSUME DInv, DeskTypes', NotesAreByStaff', Kept, session' = session,
         \A v \in Browsers : /\ page'[v] \subseteq page[v]
                             /\ call'[v] = call[v] \/ call'[v] = Idle
  PROVE  DInv'
<1>1. ASSUME NEW v \in Browsers PROVE BrowserSound(v)'
  BY BrowserStays DEF DInv
<1> QED
  BY <1>1 DEF DInv

LEMMA DeskInitInv == Init => DInv
<1> SUFFICES ASSUME Init PROVE DInv
  OBVIOUS
<1>1. AccountsTypeOK
  BY AccountsInitInv DEF Init, AInv
<1>2. DeskTypes
  BY <1>1 DEF Init, DeskTypes, TypeOK, SignedOut
<1>3. NotesAreByStaff
  BY DEF Init, NotesAreByStaff
<1>4. ASSUME NEW b \in Browsers PROVE BrowserSound(b)
  BY DEF Init, BrowserSound, CallSound, User, SignedOut
<1> QED
  BY <1>2, <1>3, <1>4 DEF DInv

\* Accounts are never deleted, and roles matter to new calls only.
LEMMA AccountsKeep ==
  ASSUME DInv, AInv', AInv, AccountsNext, UNCHANGED deskVars
  PROVE  DInv'
<1>1. Kept
  <2>1. ASSUME NEW i \in Users, Exists(i) PROVE Exists(i)'
    <3>1. CASE account' = account
      BY <2>1, <3>1 DEF Exists
    <3>2. ASSUME NEW r \in Registrations, CommitAccount(r) PROVE Exists(i)'
      <4>1. account[r] = NoAccount
        BY <3>2 DEF CommitAccount, AInv, RegistrationsSound
      <4> QED
        BY <2>1, <3>2, <4>1 DEF CommitAccount, Exists, AInv, AccountsTypeOK
    <3>3. ASSUME NEW j \in Users, NEW role \in Roles, SetRole(j, role) PROVE Exists(i)'
      <4>1. account'[i].email = account[i].email /\ account[i].email # "none"
        <5>1. account[i] \in Account /\ account[i].email # "none"
          BY <2>1, AnAccount DEF AInv
        <5>2. account'[i] = account[i] \/ account'[i] = [account[i] EXCEPT !.role = role]
          BY <3>3 DEF SetRole, AInv, AccountsTypeOK
        <5> QED
          BY <5>1, <5>2 DEF Account
      <4> QED
        BY <4>1, NoneHasNoAddress DEF Exists
    <3> QED
      BY <3>1, <3>2, <3>3 DEF AccountsNext, Registering, Lookup, Insert, LoseRegistration
  <2> QED
    BY <2>1 DEF Kept, deskVars
<1>2. DeskTypes'
  BY DEF DInv, DeskTypes, TypeOK, AInv, deskVars
<1>3. NotesAreByStaff'
  BY DEF DInv, NotesAreByStaff, deskVars
<1> QED
  BY <1>1, <1>2, <1>3, QuietStep DEF deskVars

\* The accounts while others move.
LEMMA AccountsRest ==
  ASSUME DeskTypes, UNCHANGED accountVars
  PROVE  AccountsTypeOK' /\ \A i \in Users : Exists(i) => Exists(i)'
BY DEF DeskTypes, TypeOK, AccountsTypeOK, accountVars, Exists

-----------------------------------------------------------------------------
\* Steps of people elsewhere, and commits.
LEMMA ElsewhereInv ==
  ASSUME DInv, UNCHANGED accountVars,
         \/ \E c \in Comments : CommitComment(c)
         \/ \E t \in Tickets, i \in Users :
              \/ CreateElsewhere(t, i) \/ AssignElsewhere(t, i)
              \/ \E c \in Comments : PostElsewhere(c, t, i)
  PROVE  DInv'
<1> USE DEF DInv
<1>0. AccountsTypeOK' /\ \A i \in Users : Exists(i) => Exists(i)'
  BY AccountsRest
<1>1. ASSUME NEW c \in Comments, CommitComment(c) PROVE DInv'
  <2>1. comment[c] \in Posted
    BY <1>1 DEF CommitComment, DeskTypes, NoComment
  <2>2. /\ [comment[c] EXCEPT !.at = "done"] \in Posted
        /\ [comment[c] EXCEPT !.at = "done"].internal = comment[c].internal
        /\ [comment[c] EXCEPT !.at = "done"].as = comment[c].as
        /\ [comment[c] EXCEPT !.at = "done"] # NoComment
    BY <2>1 DEF Posted, NoComment
  <2>3. comment' = [comment EXCEPT ![c] = [comment[c] EXCEPT !.at = "done"]]
    BY <1>1 DEF CommitComment
  <2>4. comment' \in [Comments -> Posted \cup {NoComment}]
    BY <2>2, <2>3 DEF DeskTypes
  <2>5. DeskTypes'
    BY <1>0, <1>1, <2>4 DEF DeskTypes, TypeOK, CommitComment
  <2>6. \A d \in Comments : comment[d] # NoComment =>
          /\ comment'[d] # NoComment /\ comment'[d].internal = comment[d].internal
          /\ comment'[d].as = comment[d].as
    BY <2>2, <2>3 DEF DeskTypes
  <2>7. \A d \in Comments : comment'[d] # NoComment => comment[d] # NoComment
    BY <2>1, <2>3 DEF DeskTypes, Posted, NoComment
  <2>8. NotesAreByStaff'
    BY <2>6, <2>7 DEF NotesAreByStaff
  <2>9. Kept
    BY <1>0, <1>1, <2>6 DEF Kept, CommitComment
  <2> QED
    BY <1>1, <2>5, <2>8, <2>9, QuietStep DEF CommitComment
<1>2. ASSUME NEW t \in Tickets, NEW i \in Users, CreateElsewhere(t, i) PROVE DInv'
  <2>1. DeskTypes'
    BY <1>0, <1>2 DEF DeskTypes, TypeOK, CreateElsewhere
  <2>2. NotesAreByStaff'
    BY <1>2 DEF NotesAreByStaff, CreateElsewhere
  <2>3. Kept
    BY <1>0, <1>2 DEF Kept, CreateElsewhere, DeskTypes, TypeOK
  <2> QED
    BY <1>2, <2>1, <2>2, <2>3, QuietStep DEF CreateElsewhere
<1>3. ASSUME NEW t \in Tickets, NEW i \in Users, AssignElsewhere(t, i) PROVE DInv'
  <2>1. DeskTypes'
    BY <1>0, <1>3 DEF DeskTypes, TypeOK, AssignElsewhere
  <2>2. NotesAreByStaff'
    BY <1>3 DEF NotesAreByStaff, AssignElsewhere
  <2>3. Kept
    BY <1>0, <1>3 DEF Kept, AssignElsewhere
  <2> QED
    BY <1>3, <2>1, <2>2, <2>3, QuietStep DEF AssignElsewhere
<1>4. ASSUME NEW t \in Tickets, NEW i \in Users, NEW c \in Comments, PostElsewhere(c, t, i)
      PROVE  DInv'
  <2>1. account[i].role \in Roles
    BY <1>4, AnAccount DEF PostElsewhere, DeskTypes, TypeOK
  <2>2. PICK internal \in (IF account[i].role = "customer" THEN {FALSE} ELSE BOOLEAN) :
          comment' = [comment EXCEPT ![c] =
            [at |-> "done", ticket |-> t, internal |-> internal, as |-> account[i].role]]
    BY <1>4 DEF PostElsewhere
  <2> DEFINE new == [at |-> "done", ticket |-> t, internal |-> internal, as |-> account[i].role]
  <2>3. /\ new \in Posted /\ new.internal = internal /\ new.as = account[i].role
    BY <2>1, <2>2 DEF Posted
  <2>4. \A d \in Comments : comment'[d] = IF d = c THEN new ELSE comment[d]
    BY <2>2 DEF DeskTypes
  <2>5. comment' = [comment EXCEPT ![c] = new] /\ comment[c] = NoComment
    BY <1>4, <2>2 DEF PostElsewhere
  <2>6. internal = TRUE => account[i].role # "customer"
    BY <2>2
  <2> HIDE DEF new
  <2>7. DeskTypes'
    BY <1>0, <1>4, <2>3, <2>5 DEF DeskTypes, TypeOK, PostElsewhere
  <2>8. NotesAreByStaff'
    <3>1. new.internal = TRUE => new.as # "customer"
      BY <2>3, <2>6
    <3>2. new.internal \in BOOLEAN
      BY <2>2, <2>3
    <3> QED
      BY <2>4, <3>1, <3>2 DEF NotesAreByStaff
  <2>9. Kept
    BY <1>0, <1>4, <2>4, <2>5 DEF Kept, PostElsewhere
  <2> QED
    BY <1>4, <2>7, <2>8, <2>9, QuietStep DEF PostElsewhere
<1> QED
  BY <1>1, <1>2, <1>3, <1>4

-----------------------------------------------------------------------------
\* A step at a browser that leaves tickets, comments and accounts alone.
LEMMA PageStep ==
  ASSUME DInv, NEW b \in Browsers, UNCHANGED <<accountVars, owner, assigned, comment>>,
         session' \in [Browsers -> [user : Users \cup {nobody}, role : Roles \cup {"none"},
                                    selected : {<<>>} \cup {<<x>> : x \in Item}]],
         page' \in [Browsers -> SUBSET Item], call' \in [Browsers -> Calls \cup {Idle}],
         \A v \in Browsers \ {b} :
           session'[v] = session[v] /\ page'[v] = page[v] /\ call'[v] = call[v],
         BrowserSound(b)'
  PROVE  DInv'
<1>1. AccountsTypeOK' /\ \A i \in Users : Exists(i) => Exists(i)'
  BY AccountsRest DEF DInv
<1>2. DeskTypes'
  BY <1>1 DEF DInv, DeskTypes, TypeOK
<1>3. NotesAreByStaff'
  BY DEF DInv, NotesAreByStaff
<1>4. Kept
  BY <1>1 DEF Kept
<1> QED
  BY <1>2, <1>3, <1>4, BrowserStep

\* Signing in starts with nothing, signing out leaves nothing.
LEMMA SignInv ==
  ASSUME DInv, UNCHANGED accountVars, NEW b \in Browsers,
         SignOut(b) \/ \E i \in Users : SignIn(b, i)
  PROVE  DInv'
<1> USE DEF DInv, DeskTypes, TypeOK
<1>1. ASSUME NEW i \in Users, SignIn(b, i) PROVE DInv'
  <2>1. User(b) = nobody /\ call[b] = Idle /\ page[b] = {} /\ session[b].selected = <<>>
    BY <1>1 DEF SignIn, Token, BrowserSound
  <2>2. account[i].role \in Roles /\ Exists(i)
    BY <1>1, AnAccount DEF SignIn, Token
  <2> DEFINE s == [user |-> i, role |-> account[i].role, selected |-> session[b].selected]
  <2>3. /\ s \in [user : Users \cup {nobody}, role : Roles \cup {"none"},
                  selected : {<<>>} \cup {<<x>> : x \in Item}]
        /\ s.user = i /\ s.selected = <<>>
    BY <2>1, <2>2
  <2>4. session' = [session EXCEPT ![b] = s] /\ UNCHANGED <<page, call, owner, assigned, comment>>
    BY <1>1 DEF SignIn, Token
  <2> HIDE DEF s
  <2>5. session'[b] = s /\ account' = account
    BY <2>4 DEF accountVars
  <2>6. BrowserSound(b)'
    <3>1. User(b)' = i /\ i # nobody
      BY <2>3, <2>5, DeskAssumption DEF User
    <3> QED
      BY <2>1, <2>2, <2>3, <2>4, <2>5, <3>1 DEF BrowserSound, CallSound, Exists
  <2> QED
    BY <2>3, <2>4, <2>6, PageStep
<1>2. CASE SignOut(b)
  <2>1. /\ session' = [session EXCEPT ![b] = SignedOut] /\ page' = [page EXCEPT ![b] = {}]
        /\ call[b] = Idle /\ UNCHANGED <<call, owner, assigned, comment>>
    BY <1>2 DEF SignOut
  <2>2. SignedOut \in [user : Users \cup {nobody}, role : Roles \cup {"none"},
                       selected : {<<>>} \cup {<<x>> : x \in Item}]
    BY DEF SignedOut
  <2>3. BrowserSound(b)'
    BY <2>1 DEF BrowserSound, CallSound, User, SignedOut
  <2> QED
    BY <2>1, <2>2, <2>3, PageStep
<1> QED
  BY <1>1, <1>2

LEMMA SelectInv ==
  ASSUME DInv, UNCHANGED accountVars, NEW b \in Browsers, Select(b)
  PROVE  DInv'
<1> USE DEF DInv, DeskTypes, TypeOK
<1>1. PICK x \in page[b] : x.what = "listed" /\ session' = [session EXCEPT ![b].selected = <<x>>]
  BY DEF Select
<1>2. x \in Item /\ Rightful(User(b), x) /\ page[b] # {}
  BY <1>1, ABrowser DEF BrowserSound
<1> DEFINE s == [session[b] EXCEPT !.selected = <<x>>]
<1>3. /\ s \in [user : Users \cup {nobody}, role : Roles \cup {"none"},
                selected : {<<>>} \cup {<<y>> : y \in Item}]
      /\ s.user = User(b) /\ s.selected = <<x>>
  BY <1>2, ABrowser DEF User
<1>4. /\ session' = [session EXCEPT ![b] = s] /\ page' = [page EXCEPT ![b] = {}]
      /\ call[b] = Idle /\ UNCHANGED <<call, owner, assigned, comment>>
  BY <1>1 DEF Select
<1> HIDE DEF s
<1>5. session'[b] = s /\ account' = account /\ User(b)' = User(b)
  BY <1>3, <1>4 DEF accountVars, User
<1>6. User(b) # nobody /\ Exists(User(b))'
  BY <1>2, <1>5 DEF BrowserSound, Exists
<1>7. Rightful(User(b), x)'
  BY <1>2, <1>4, <1>5 DEF Rightful, MaySee
<1>8. BrowserSound(b)'
  BY <1>1, <1>3, <1>4, <1>5, <1>6, <1>7 DEF BrowserSound, CallSound
<1> QED
  BY <1>3, <1>4, <1>8, PageStep

\* The call of a browser becomes x, its page loses what the call replaces.
LEMMA CallStep ==
  ASSUME DInv, UNCHANGED accountVars, NEW b \in Browsers, NEW x \in Calls \cup {Idle},
         UNCHANGED <<session, owner, assigned, comment>>,
         call' = [call EXCEPT ![b] = x], page' = page \/ page' = [page EXCEPT ![b] = {}],
         User(b) # nobody, CallSound(b)'
  PROVE  DInv'
<1> USE DEF DInv, DeskTypes, TypeOK
<1>1. page'[b] \subseteq page[b] /\ User(b)' = User(b) /\ account' = account
  BY DEF User, accountVars
<1>2. \A y : Rightful(User(b), y) => Rightful(User(b), y)'
  BY <1>1 DEF Rightful, MaySee
<1>3. BrowserSound(b)'
  <2>1. User(b)' # nobody /\ Exists(User(b))'
    BY <1>1 DEF BrowserSound, Exists
  <2>2. \A y \in page'[b] :
          Rightful(User(b), y)' /\ (y.what # "listed" => session'[b].selected # <<>>)
    BY <1>1, <1>2 DEF BrowserSound
  <2>3. session'[b].selected # <<>> =>
          session'[b].selected[1].what = "listed" /\ Rightful(User(b), session[b].selected[1])'
    <3>1. session[b].selected # <<>> =>
            session[b].selected[1].what = "listed" /\ Rightful(User(b), session[b].selected[1])
      BY DEF BrowserSound
    <3> QED
      BY <1>1, <3>1 DEF Rightful, MaySee
  <2> QED
    BY <2>1, <2>2, <2>3 DEF BrowserSound
<1>4. /\ page' \in [Browsers -> SUBSET Item] /\ call' \in [Browsers -> Calls \cup {Idle}]
      /\ \A v \in Browsers \ {b} : page'[v] = page[v] /\ call'[v] = call[v]
  OBVIOUS
<1> QED
  BY <1>3, <1>4, PageStep

LEMMA CallInv ==
  ASSUME DInv, UNCHANGED accountVars, NEW b \in Browsers, NEW op \in ReadOps \cup WriteOps,
         Call(b, op) \/ CallFails(b, op)
  PROVE  DInv'
<1> USE DEF DInv, DeskTypes, TypeOK
<1>1. CASE CallFails(b, op)
  <2>1. call' = [call EXCEPT ![b] = call[b]] /\ CallSound(b)'
    BY <1>1 DEF CallFails, BrowserSound, CallSound, User
  <2> QED
    BY <1>1, <2>1, CallStep DEF CallFails, Restarted
<1>2. CASE Call(b, op)
  <2> DEFINE s == session[b].selected
  <2> DEFINE x == [op |-> op, role |-> account[User(b)].role, as |-> account[User(b)].role,
                   at |-> "user", agent |-> nobody,
                   ticket |-> IF s = <<>> THEN "none" ELSE s[1].ticket]
  <2>1. /\ User(b) \in Users /\ User(b) # nobody /\ account[User(b)].role \in Roles
    BY <1>2, ABrowser, AnAccount DEF Call, BrowserSound
  <2>2. s = <<>> \/ s[1].ticket \in Tickets
    BY ABrowser DEF Item
  <2>3. /\ x \in Calls /\ x.as = x.role /\ x.op = op /\ x.at = "user"
        /\ x.role = account[User(b)].role
        /\ x.ticket = IF s = <<>> THEN "none" ELSE s[1].ticket
    BY <2>1, <2>2 DEF Calls
  <2>4. call' = [call EXCEPT ![b] = x]
    BY <1>2 DEF Call, ActingRole
  <2>5. op = "suggestion" => x.role \in StaffRoles
    BY <1>2, <2>3 DEF Call, Permitted, ActingRole
  <2>6. op \notin Unticketed => s # <<>>
    <3>1. CASE op = "ticket"
      BY <1>2, <3>1 DEF Call, Offered
    <3>2. CASE op \in {"comments", "reply", "suggestion", "note", "assign"}
      <4>1. \E y \in page[b] : y.what = "ticket"
        BY <1>2, <3>2 DEF Call, Offered
      <4> QED
        BY <4>1 DEF BrowserSound
    <3> QED
      BY <3>1, <3>2 DEF Unticketed, ReadOps, WriteOps
  <2> HIDE DEF x
  <2>7. CallSound(b)'
    <3>1. call'[b] = x /\ session' = session
      BY <1>2, <2>4 DEF Call
    <3> QED
      BY <2>2, <2>3, <2>5, <2>6, <3>1 DEF CallSound
  <2> QED
    BY <1>2, <2>1, <2>3, <2>4, <2>7, CallStep DEF Call, Restarted
<1> QED
  BY <1>1, <1>2

\* Only a call that may see the ticket, or that returns nothing of it, goes on.
LEMMA ReadTicketInv ==
  ASSUME DInv, UNCHANGED accountVars, NEW b \in Browsers, ReadTicket(b)
  PROVE  DInv'
<1> USE DEF DInv, DeskTypes, TypeOK
<1> DEFINE c == call[b]
<1>1. /\ c # Idle /\ c \in Calls /\ c.role \in Roles /\ c.op \notin Unticketed
      /\ c.at = "user" /\ User(b) # nobody
  BY ACall DEF ReadTicket, Idle, Unticketed, BrowserSound
<1>2. CASE Refused(b)
  <2>1. CallSound(b)'
    BY <1>2 DEF Refused, CallSound
  <2> QED
    BY <1>1, <1>2, <2>1, CallStep DEF Refused, ReadTicket
<1>3. CASE /\ c.op = "assign" \/ MayView(c.role, User(b), c.ticket)
           /\ call' = [call EXCEPT ![b].at = "ticket", ![b].agent = assigned[c.ticket]]
           /\ UNCHANGED <<page, owner, assigned, comment>>
  <2>1. c.ticket \in Tickets /\ session[b].selected # <<>> /\ c.as = c.role
        /\ (c.op = "suggestion" => c.role \in StaffRoles)
    BY <1>1 DEF BrowserSound, CallSound
  <2> DEFINE x == [c EXCEPT !.at = "ticket", !.agent = assigned[c.ticket]]
  <2>2. /\ x \in Calls /\ x.op = c.op /\ x.role = c.role /\ x.as = c.as
        /\ x.ticket = c.ticket /\ x.agent = assigned[c.ticket]
    BY <1>1, <2>1 DEF Calls
  <2>3. call' = [call EXCEPT ![b] = x]
    BY <1>3
  <2>4. c.op \in Checked => /\ c.role = "customer" => owner[c.ticket] = User(b)
                            /\ c.role = "agent" => assigned[c.ticket] \in {nobody, User(b)}
    BY <1>3 DEF MayView, Checked
  <2> HIDE DEF x
  <2>5. CallSound(b)'
    <3>1. call'[b] = x /\ session' = session /\ owner' = owner /\ User(b)' = User(b)
      BY <1>3, <2>3 DEF ReadTicket, User
    <3> QED
      BY <2>1, <2>2, <2>4, <3>1 DEF CallSound
  <2> QED
    BY <1>1, <1>3, <2>2, <2>3, <2>5, CallStep DEF ReadTicket
<1> QED
  BY <1>2, <1>3 DEF ReadTicket

\* What a call answers with its reader may see.
LEMMA AnswerRightful ==
  ASSUME DInv, NEW b \in Browsers, Read(b), NEW x \in Answer(b)
  PROVE  /\ x \in Item /\ Rightful(User(b), x)
         /\ x.what # "listed" => session[b].selected # <<>>
<1> USE DEF DInv, DeskTypes, TypeOK
<1> DEFINE c == call[b]
<1>1. /\ c # Idle /\ c \in Calls /\ c.role \in Roles /\ c.as \in Roles
      /\ c.agent \in Users \cup {nobody}
  BY ACall DEF Read, Idle, ReadOps
<1>2. /\ c.as = c.role
      /\ c.op = "suggestion" => c.role \in StaffRoles
      /\ c.op \notin Unticketed => c.ticket \in Tickets /\ session[b].selected # <<>>
      /\ c.at = "ticket" /\ c.op \in Checked =>
           /\ c.role = "customer" => owner[c.ticket] = User(b)
           /\ c.role = "agent" => c.agent \in {nobody, User(b)}
  BY <1>1 DEF BrowserSound, CallSound
<1>3. CASE c.op = "list"
  <2>1. PICK t \in Tickets : /\ c.role = "customer" => owner[t] = User(b)
                             /\ x = Shown("listed", [c EXCEPT !.ticket = t])
    BY <1>3 DEF Answer
  <2>2. /\ x.what = "listed" /\ x.ticket = t /\ x.as = c.as /\ x.agent = c.agent
        /\ x \in Item
    BY <1>1, <2>1 DEF Shown, Item, Calls
  <2> QED
    BY <1>2, <2>1, <2>2 DEF Rightful, MaySee
<1>4. CASE c.op = "comments"
  <2>1. PICK d \in Conversation(b) : x = [Shown("comment", c) EXCEPT !.comment = d]
    BY <1>4 DEF Answer
  <2>2. c.at = "ticket" /\ c.ticket \in Tickets /\ session[b].selected # <<>>
    BY <1>2, <1>4 DEF Read, Unticketed
  <2>3. /\ d \in Comments /\ comment[d] # NoComment
        /\ c.role = "customer" => ~comment[d].internal
    BY <2>1 DEF Conversation, NoComment
  <2>4. /\ x.what = "comment" /\ x.ticket = c.ticket /\ x.as = c.as /\ x.agent = c.agent
        /\ x.comment = d /\ x \in Item
    BY <1>1, <2>1, <2>2, <2>3 DEF Shown, Item
  <2> QED
    BY <1>2, <1>4, <2>2, <2>3, <2>4 DEF Rightful, MaySee, Checked
<1>5. CASE c.op \in {"ticket", "suggestion"}
  <2>1. x = Shown(c.op, c)
    BY <1>5 DEF Answer
  <2>2. c.at = "ticket" /\ c.ticket \in Tickets /\ session[b].selected # <<>>
    BY <1>2, <1>5 DEF Read, Unticketed
  <2>3. /\ x.what = c.op /\ x.ticket = c.ticket /\ x.as = c.as /\ x.agent = c.agent
        /\ x \in Item
    BY <1>1, <1>5, <2>1, <2>2 DEF Shown, Item
  <2> QED
    BY <1>2, <1>5, <2>2, <2>3 DEF Rightful, MaySee, Checked, StaffRoles
<1> QED
  BY <1>3, <1>4, <1>5 DEF Read, ReadOps

LEMMA ReadInv ==
  ASSUME DInv, UNCHANGED accountVars, NEW b \in Browsers, Read(b)
  PROVE  DInv'
<1> USE DEF DInv, DeskTypes, TypeOK
<1>1. /\ page' = [page EXCEPT ![b] = @ \cup Answer(b)] /\ call' = [call EXCEPT ![b] = Idle]
      /\ UNCHANGED <<session, owner, assigned, comment>>
  BY DEF Read
<1>2. call[b] # Idle /\ User(b) # nobody
  BY ACall DEF Read, ReadOps, BrowserSound, Idle
<1>3. page'[b] = page[b] \cup Answer(b) /\ page' \in [Browsers -> SUBSET Item]
  <2>1. Answer(b) \subseteq Item
    BY AnswerRightful
  <2> QED
    BY <1>1, <2>1
<1>4. User(b)' = User(b) /\ account' = account
  BY <1>1 DEF User, accountVars
<1>5. BrowserSound(b)'
  <2>1. User(b)' # nobody /\ Exists(User(b))'
    BY <1>2, <1>4 DEF BrowserSound, Exists
  <2>2. ASSUME NEW x \in page'[b]
        PROVE  Rightful(User(b), x)' /\ (x.what # "listed" => session'[b].selected # <<>>)
    <3>1. Rightful(User(b), x) /\ (x.what # "listed" => session[b].selected # <<>>)
      BY <1>3, AnswerRightful DEF BrowserSound
    <3> QED
      BY <1>1, <1>4, <3>1 DEF Rightful, MaySee
  <2>3. session'[b].selected # <<>> =>
          session'[b].selected[1].what = "listed" /\ Rightful(User(b), session[b].selected[1])'
    <3>1. session[b].selected # <<>> =>
            session[b].selected[1].what = "listed" /\ Rightful(User(b), session[b].selected[1])
      BY DEF BrowserSound
    <3> QED
      BY <1>1, <1>4, <3>1 DEF Rightful, MaySee
  <2>4. CallSound(b)'
    BY <1>1 DEF CallSound
  <2> QED
    BY <2>1, <2>2, <2>3, <2>4 DEF BrowserSound
<1> QED
  BY <1>1, <1>3, <1>5, PageStep

-----------------------------------------------------------------------------
\* A new ticket, an assignment, a comment.
LEMMA WriteInv ==
  ASSUME DInv, UNCHANGED accountVars, NEW b \in Browsers, Create(b) \/ Post(b) \/ Assign(b)
  PROVE  DInv'
<1> USE DEF DInv
<1>0. AccountsTypeOK' /\ \A i \in Users : Exists(i) => Exists(i)'
  BY AccountsRest
<1>1. /\ call[b] # Idle /\ call[b] \in Calls /\ call[b].as \in Roles /\ User(b) \in Users
      /\ call[b].as = call[b].role
  <2>1. call[b] # Idle /\ call[b] \in Calls /\ call[b].as \in Roles
    BY ACall DEF Create, Post, Assign, Idle
  <2> QED
    BY <2>1, ABrowser DEF BrowserSound, CallSound
<1>2. CASE Create(b)
  <2>1. DeskTypes'
    BY <1>0, <1>1, <1>2 DEF DeskTypes, TypeOK, Create
  <2>2. NotesAreByStaff'
    BY <1>2 DEF NotesAreByStaff, Create
  <2>3. Kept
    BY <1>0, <1>2 DEF Kept, Create, DeskTypes, TypeOK
  <2> QED
    BY <1>2, <2>1, <2>2, <2>3, QuietStep DEF Create, DeskTypes
<1>3. CASE Assign(b)
  <2>1. DeskTypes'
    <3>1. PICK i \in Users : assigned' = [assigned EXCEPT ![call[b].ticket] = i]
      BY <1>3 DEF Assign
    <3>2. assigned' \in [Tickets -> Users \cup {nobody}]
      BY <3>1 DEF DeskTypes, TypeOK
    <3>3. call' \in [Browsers -> Calls \cup {Idle}]
      BY <1>3 DEF Assign, DeskTypes
    <3> QED
      BY <1>0, <1>3, <3>2, <3>3 DEF DeskTypes, TypeOK, Assign
  <2>2. NotesAreByStaff'
    BY <1>3 DEF NotesAreByStaff, Assign
  <2>3. Kept
    BY <1>0, <1>3 DEF Kept, Assign
  <2> QED
    BY <1>3, <2>1, <2>2, <2>3, QuietStep DEF Assign, DeskTypes
<1>4. CASE Refused(b) /\ UNCHANGED session
  <2>1. DeskTypes'
    BY <1>0, <1>4 DEF DeskTypes, TypeOK, Refused
  <2>2. NotesAreByStaff'
    BY <1>4 DEF NotesAreByStaff, Refused
  <2>3. Kept
    BY <1>0, <1>4 DEF Kept, Refused
  <2> QED
    BY <1>4, <2>1, <2>2, <2>3, QuietStep DEF Refused, DeskTypes
<1>5. ASSUME NEW c \in Comments, comment[c] = NoComment, ~NoteRefused(b),
             comment' = [comment EXCEPT ![c] =
               [at |-> "open", ticket |-> call[b].ticket, internal |-> call[b].op = "note",
                as |-> call[b].as]],
             call' = [call EXCEPT ![b] = Idle], UNCHANGED <<session, page, owner, assigned>>
      PROVE  DInv'
  <2> DEFINE new == [at |-> "open", ticket |-> call[b].ticket,
                     internal |-> call[b].op = "note", as |-> call[b].as]
  <2>1. (call[b].op = "note") \in BOOLEAN /\ call[b].ticket \in Tickets \cup {"none"}
    BY <1>1 DEF Calls
  <2>2. new \in Posted /\ new.internal = (call[b].op = "note") /\ new.as = call[b].as
    BY <1>1, <2>1 DEF Posted
  <2>3. \A d \in Comments : comment'[d] = IF d = c THEN new ELSE comment[d]
    BY <1>5 DEF DeskTypes
  <2>4. comment' \in [Comments -> Posted \cup {NoComment}]
    BY <1>5, <2>2 DEF DeskTypes
  <2>5. new.internal => new.as # "customer"
    BY <1>1, <1>5, <2>2 DEF NoteRefused
  <2> HIDE DEF new
  <2>6. DeskTypes'
    BY <1>0, <1>5, <2>4 DEF DeskTypes, TypeOK
  <2>7. NotesAreByStaff'
    BY <2>3, <2>5 DEF NotesAreByStaff
  <2>8. Kept
    BY <1>0, <1>5, <2>3 DEF Kept
  <2> QED
    BY <1>5, <2>6, <2>7, <2>8, QuietStep DEF DeskTypes
<1> QED
  BY <1>2, <1>3, <1>4, <1>5 DEF Post

LEMMA DeskStepInv == AInv /\ AInv' /\ DInv /\ [Next]_vars => DInv'
<1> SUFFICES ASSUME AInv, AInv', DInv, [Next]_vars PROVE DInv'
  OBVIOUS
<1>1. CASE AccountsNext /\ UNCHANGED deskVars
  BY <1>1, AccountsKeep
<1>2. CASE DeskNext /\ UNCHANGED accountVars
  BY <1>2, SignInv, SelectInv, CallInv, ReadTicketInv, ReadInv, WriteInv, ElsewhereInv
     DEF DeskNext
<1>3. CASE UNCHANGED vars
  <2>1. DeskTypes' /\ NotesAreByStaff'
    BY <1>3 DEF DInv, DeskTypes, TypeOK, AccountsTypeOK, NotesAreByStaff, vars, accountVars,
                deskVars
  <2>2. Kept
    BY <1>3 DEF Kept, Exists, vars, accountVars, deskVars
  <2> QED
    BY <1>3, <2>1, <2>2, QuietStep DEF vars, deskVars
<1> QED
  BY <1>1, <1>2, <1>3 DEF Next

LEMMA DeskInvariant == Spec => []DInv
BY DeskInitInv, DeskStepInv, AccountsInvariant, PTL DEF Spec

\* Accounts have a role, and sessions, pages, owners and assignments are those of
\* accounts, tickets and comments there can be.
THEOREM TypeTheorem == Spec => []TypeOK
<1>1. DInv => TypeOK
  BY DEF DInv, DeskTypes
<1> QED
  BY <1>1, DeskInvariant, PTL

\* A page shows only what _authorize_view, require_role and the filters of lists
\* and conversations allow its reader in the role the database had at the call,
\* whatever the token says and whatever changed since.
THEOREM ShownTheorem == Spec => []ShownWasAllowed
<1>1. DInv => ShownWasAllowed
  BY DEF DInv, BrowserSound, Rightful, ShownWasAllowed
<1> QED
  BY <1>1, DeskInvariant, PTL

\* The check of add_comment is against the author's role in the database.
THEOREM NotesTheorem == Spec => []NotesAreByStaff
<1>1. DInv => NotesAreByStaff
  BY DEF DInv
<1> QED
  BY <1>1, DeskInvariant, PTL

\* Signing out leaves the next user of the browser nothing.
THEOREM NothingLeftTheorem == Spec => []NothingLeftBehind
<1>1. DInv => NothingLeftBehind
  BY DEF DInv, BrowserSound, Rightful, NothingLeftBehind
<1> QED
  BY <1>1, DeskInvariant, PTL

=============================================================================
