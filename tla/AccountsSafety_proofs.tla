------------------------ MODULE AccountsSafety_proofs ------------------------
(***************************************************************************)
(* The safety properties of Accounts.  Two lemmas, OneWriter and RowsRead,  *)
(* say what a step may write into the users table and which rows a request *)
(* may hold; each property follows from them and from one conjunct of      *)
(* InFlightOK.                                                             *)
(***************************************************************************)
EXTENDS Accounts_proofs

Step(p) ==
    \/ Middleware(p) \/ SessionUse(p) \/ Settings(p) \/ Moderation(p)
    \/ Login(p) \/ Register(p) \/ Issue(p) \/ Consume(p) \/ GiveUp(p)

\* A step moves one goroutine, and history only grows.
LEMMA OneMoves ==
    ASSUME TypeInv, NEW p \in Procs, Step(p)
    PROVE  /\ \A q \in Procs : q # p => req'[q] = req[q]
           /\ chosen \subseteq chosen' /\ proven \subseteq proven' /\ minted \subseteq minted'
<1>0. req \in [Procs -> Request]
  BY DEF TypeInv, TypeOK
<1>1. CASE Middleware(p)
  BY <1>0, <1>1 DEF Middleware, GetSession, GetUser, DropSession, Goto, Finish
<1>2. CASE SessionUse(p)
  BY <1>0, <1>2 DEF SessionUse, Browse, Logout, Revoke, Goto, Finish
<1>3. CASE Settings(p)
  BY <1>0, <1>3 DEF Settings, ProfileRead, ProfileSave, PasswordRead, PasswordSave, Goto, Finish
<1>4. CASE Moderation(p)
  BY <1>0, <1>4 DEF Moderation, BanRead, BanWrite, Unban, Goto, Finish
<1>5. CASE Login(p)
  BY <1>0, <1>5 DEF Login, LoginRead, OpenSession, Goto, Finish
<1>6. CASE Register(p)
  <2>1. CASE RegisterInsert(p)
    BY <1>0, <2>1 DEF RegisterInsert
  <2>2. QED BY <1>0, <1>6, <2>1 DEF Register, RegisterEmail, RegisterName, RegisterTaken, Promote,
      Goto, Finish
<1>7. CASE Issue(p)
  BY <1>0, <1>7 DEF Issue, ForgotRead, IssueClear, IssueCreate, IssueFails, Goto, Finish
<1>8. CASE Consume(p)
  BY <1>0, <1>8 DEF Consume, TokenLookup, TokenUser, TokenSave, TokenDelete, Goto, Finish
<1>9. CASE GiveUp(p)
  BY <1>0, <1>9 DEF GiveUp, Refuse, Abort, Finish
<1>10. QED BY <1>1, <1>2, <1>3, <1>4, <1>5, <1>6, <1>7, <1>8, <1>9 DEF Step

\* The statements that write the users table.
LEMMA UsersWriters ==
    ASSUME NEW p \in Procs, Step(p)
    PROVE  \/ users' = users
           \/ Saving(p) /\ UpdateUser(req[p].uid, req[p].row)
           \/ BanWrite(p) \/ Unban(p) \/ RegisterInsert(p)
<1>1. CASE Settings(p) \/ Consume(p) \/ Promote(p)
    BY <1>1 DEF Settings, Consume, Promote, ProfileRead, ProfileSave, PasswordRead, PasswordSave,
                TokenLookup, TokenUser, TokenSave, TokenDelete, Saving, SaveLabels, At
<1>2. CASE Middleware(p) \/ SessionUse(p) \/ Moderation(p) \/ Login(p)
    BY <1>2 DEF Middleware, SessionUse, Moderation, Login, GetSession, GetUser, DropSession,
                Browse, Logout, Revoke, BanRead, LoginRead, OpenSession
<1>3. CASE Register(p) \/ Issue(p) \/ GiveUp(p)
    BY <1>1, <1>3 DEF Register, Issue, GiveUp, RegisterEmail, RegisterName, RegisterTaken,
                ForgotRead, IssueClear, IssueCreate, IssueFails, Refuse, Abort
<1>4. QED BY <1>1, <1>2, <1>3 DEF Step

\* What a step writes into the row of an existing account: nothing, the whole
\* row the request holds, or the banned column.
LEMMA OneWriter ==
    ASSUME TypeInv, NEW p \in Procs, Step(p), NEW i \in Registered
    PROVE  /\ i \in Registered'
           /\ \/ users'[i] = users[i]
              \/ Saving(p) /\ i = req[p].uid /\ users'[i] = req[p].row
              \/ /\ At(p, "banWrite") /\ i = req[p].uid
                 /\ users'[i] = [users[i] EXCEPT !.banned = TRUE]
              \/ users'[i] = [users[i] EXCEPT !.banned = FALSE]
<1>0. /\ users \in [Ids -> UserRow \cup {None}] /\ i \in Ids /\ users[i] \in UserRow
      /\ LocalsSet(req[p])
  BY DEF TypeInv, TypeOK, LocalsOK, Registered
<1>1. CASE users' = users
  BY <1>1 DEF Registered
<1>2. CASE Saving(p) /\ UpdateUser(req[p].uid, req[p].row)
  <2>1. req[p].row \in UserRow
    BY <1>0, <1>2 DEF LocalsSet, Saving
  <2>2. users'[i] = IF i = req[p].uid THEN req[p].row ELSE users[i]
    BY <1>0, <1>2 DEF UpdateUser
  <2>3. QED BY <1>0, <1>2, <2>1, <2>2, NullIsNoRow DEF Registered
<1>3. CASE BanWrite(p)
  <2>1. users'[i] = IF i = req[p].uid THEN [users[i] EXCEPT !.banned = TRUE] ELSE users[i]
    BY <1>0, <1>3 DEF BanWrite
  <2>2. [users[i] EXCEPT !.banned = TRUE] \in UserRow
    BY <1>0 DEF UserRow
  <2>3. QED BY <1>0, <1>3, <2>1, <2>2, NullIsNoRow DEF BanWrite, Registered
<1>4. CASE Unban(p)
  <2>1. users'[i] \in {users[i], [users[i] EXCEPT !.banned = FALSE]}
    BY <1>0, <1>4 DEF Unban
  <2>2. [users[i] EXCEPT !.banned = FALSE] \in UserRow
    BY <1>0 DEF UserRow
  <2>3. QED BY <1>0, <2>1, <2>2, NullIsNoRow DEF Registered
<1>5. CASE RegisterInsert(p)
  <2>1. users'[i] = users[i]
    BY <1>0, <1>5 DEF RegisterInsert
  <2>2. QED BY <1>0, <2>1 DEF Registered
<1>6. QED BY <1>1, <1>2, <1>3, <1>4, <1>5, UsersWriters

\* The statement a request has just made when it reaches a label.
LEMMA Arrivals ==
    ASSUME TypeInv, NEW p \in Procs, Step(p)
    PROVE  /\ req'[p].pc \in SaveLabels
              => ProfileRead(p) \/ PasswordRead(p) \/ TokenUser(p) \/ RegisterInsert(p)
           /\ req'[p].pc = "issueCreate" => IssueClear(p)
           /\ req'[p].pc = "tokenUser" => TokenLookup(p)
           /\ req'[p].pc = "banWrite" => BanRead(p)
           /\ req'[p].pc = "regName" => RegisterEmail(p)
           /\ req'[p].pc = "regInsert" => RegisterName(p)
<1> DEFINE Elsewhere == req'[p].pc \notin SaveLabels \cup
                {"issueCreate", "tokenUser", "banWrite", "regName", "regInsert"}
<1>0. /\ req \in [Procs -> Request] /\ req[p] \in Request /\ LocalsSet(req[p])
  BY DEF TypeInv, TypeOK, LocalsOK
<1>1. GetSession(p) \/ DropSession(p) \/ SessionUse(p) \/ GiveUp(p) => Elsewhere
  <2>1. GetSession(p) => req'[p].pc \in {"getUser", "logout"}
    BY <1>0 DEF GetSession, NoRequest
  <2>2. DropSession(p) \/ SessionUse(p) \/ GiveUp(p) => req'[p].pc \in {"logout", "idle"}
    BY <1>0 DEF DropSession, SessionUse, Browse, Logout, Revoke, GiveUp, Refuse, Abort,
                Goto, Finish, NoRequest, Request
  <2>3. QED BY <2>1, <2>2 DEF SaveLabels
<1>2. GetUser(p) => Elsewhere
  <2>1. GetUser(p) => req[p].kind \in CookieKinds
    BY <1>0 DEF GetUser, At, LocalsSet
  <2>2. GetUser(p) => req'[p].pc \in CookieKinds \cup {"dropSession"}
    BY <1>0, <2>1 DEF GetUser, Goto, Request
  <2>3. QED BY <2>2 DEF CookieKinds, SaveLabels
<1>3. ProfileSave(p) \/ PasswordSave(p) \/ TokenSave(p) \/ TokenDelete(p) \/ Promote(p) => Elsewhere
  BY <1>0 DEF ProfileSave, PasswordSave, TokenSave, TokenDelete, Promote, Goto, Finish,
              NoRequest, SaveLabels, Request
<1>4. BanWrite(p) \/ Unban(p) => Elsewhere
  BY <1>0 DEF BanWrite, Unban, Goto, Finish, NoRequest, SaveLabels, Request
<1>5. LoginRead(p) \/ ForgotRead(p) => Elsewhere
  <2>1. LoginRead(p) => req'[p].pc = "openSession"
    BY <1>0 DEF LoginRead, NoRequest
  <2>2. ForgotRead(p) => req'[p].pc = "issueClear"
    BY <1>0 DEF ForgotRead, NoRequest
  <2>3. QED BY <2>1, <2>2 DEF SaveLabels
<1>6. OpenSession(p) => Elsewhere
  BY <1>0 DEF OpenSession, Finish, NoRequest, SaveLabels, Request
<1>7. IssueCreate(p) \/ IssueFails(p) \/ RegisterTaken(p) => Elsewhere
  BY <1>0 DEF IssueCreate, IssueFails, RegisterTaken, Finish, NoRequest, SaveLabels
<1>8. /\ IssueClear(p) => req'[p].pc = "issueCreate"
      /\ RegisterName(p) => req'[p].pc = "regInsert"
  BY <1>0 DEF IssueClear, RegisterName, Goto, Request
<1>9. /\ TokenLookup(p) => req'[p].pc = "tokenUser"
      /\ RegisterEmail(p) => req'[p].pc = "regName"
  <2>1. TokenLookup(p) => req'[p].pc = "tokenUser"
    BY <1>0 DEF TokenLookup, NoRequest
  <2>2. RegisterEmail(p) => req'[p].pc = "regName"
    BY <1>0 DEF RegisterEmail, NoRequest
  <2>3. QED BY <2>1, <2>2
<1>10. /\ BanRead(p) => req'[p].pc = "banWrite"
       /\ ProfileRead(p) => req'[p].pc = "profileSave"
       /\ PasswordRead(p) => req'[p].pc = "passwordSave"
  <2>1. BanRead(p) => req'[p].pc = "banWrite"
    BY <1>0 DEF BanRead, Request
  <2>2. ProfileRead(p) => req'[p].pc = "profileSave"
    BY <1>0 DEF ProfileRead, Request
  <2>3. PasswordRead(p) => req'[p].pc = "passwordSave"
    BY <1>0 DEF PasswordRead, Request
  <2>4. QED BY <2>1, <2>2, <2>3
<1>11. /\ TokenUser(p) => req'[p].pc \in {"tokenSave", "tokenDelete"}
       /\ RegisterInsert(p) => req'[p].pc \in {"openSession", "promote"}
  <2>1. TokenUser(p) => req'[p].pc \in {"tokenSave", "tokenDelete"}
    BY <1>0 DEF TokenUser, Goto, Request
  <2>2. RegisterInsert(p) => req'[p].pc \in {"openSession", "promote"}
    BY <1>0 DEF RegisterInsert, Request
  <2>3. QED BY <2>1, <2>2
<1>12. CASE Elsewhere
  BY <1>12 DEF SaveLabels
<1>13. CASE ~Elsewhere
  <2>1. \/ IssueClear(p) \/ RegisterName(p) \/ TokenLookup(p) \/ RegisterEmail(p) \/ BanRead(p)
        \/ ProfileRead(p) \/ PasswordRead(p) \/ TokenUser(p) \/ RegisterInsert(p)
    BY <1>1, <1>2, <1>3, <1>4, <1>5, <1>6, <1>7, <1>13
       DEF Step, Middleware, SessionUse, Settings, Moderation, Login, Register, Issue, Consume
  <2>2. QED BY <2>1, <1>8, <1>9, <1>10, <1>11 DEF SaveLabels
<1>14. QED BY <1>12, <1>13

\* A row a request starts to hold is the current one, with the column its
\* handler sets changed, or the admin form of the row it has just inserted.
ReadsRow(p) ==
    /\ users' = users /\ req'[p].pc # "promote"
    /\ req'[p].uid = req[p].uid /\ req[p].uid \in Registered
    /\ \/ req'[p].row = users[req[p].uid]
       \/ \E new \in Passwords :
            /\ req'[p].row = [users[req[p].uid] EXCEPT !.pw = new]
            /\ \/ <<req[p].uid, new>> \in chosen'
               \/ At(p, "tokenUser") /\ req[p].kind = "reset" /\ new = req[p].new
       \/ /\ req'[p].row = [users[req[p].uid] EXCEPT !.verified = TRUE]
          /\ At(p, "tokenUser") /\ req[p].kind = "verify"

InsertsRow(p) ==
    /\ At(p, "regInsert") /\ Registered = {}
    /\ req'[p].pc = "promote"
    /\ req'[p].uid \notin Registered /\ req'[p].uid \in Ids
    /\ req[p].row \in UserRow
    /\ users' = [users EXCEPT ![req'[p].uid] = req[p].row]
    /\ <<req'[p].uid, req[p].row.pw>> \in chosen'
    /\ req'[p].row = [req[p].row EXCEPT !.role = "admin"]

LEMMA RowsRead ==
    ASSUME TypeInv, NEW p \in Procs, Step(p), Saving(p)'
    PROVE  ReadsRow(p) \/ InsertsRow(p)
<1>0. /\ req \in [Procs -> Request] /\ req[p] \in Request /\ LocalsSet(req[p])
  BY DEF TypeInv, TypeOK, LocalsOK
<1>1. CASE ProfileRead(p)
  BY <1>0, <1>1 DEF ProfileRead, ReadsRow, At, LocalsSet, Request
<1>2. CASE PasswordRead(p)
  <2>1. req[p].uid \in Registered
    BY <1>0, <1>2 DEF PasswordRead, At, LocalsSet
  <2>2. PICK current \in Passwords, new \in Passwords : PasswordRead(p)!2!(current, new)
    BY <1>2 DEF PasswordRead
  <2>3. req'[p] = [req[p] EXCEPT !.pc = "passwordSave",
                                 !.row = [users[req[p].uid] EXCEPT !.pw = new]]
    BY <1>0, <2>2
  <2>4. /\ req'[p].uid = req[p].uid /\ req'[p].pc = "passwordSave"
        /\ req'[p].row = [users[req[p].uid] EXCEPT !.pw = new]
    BY <1>0, <2>3 DEF Request
  <2>5. users' = users /\ <<req[p].uid, new>> \in chosen'
    BY <1>2, <2>2 DEF PasswordRead
  <2>6. QED BY <2>1, <2>4, <2>5 DEF ReadsRow
<1>3. CASE TokenUser(p)
  <2>1. At(p, "tokenUser") /\ users' = users /\ req[p].uid \in Registered
    BY <1>0, <1>3 DEF TokenUser, At, LocalsSet
  <2>2. CASE req[p].kind = "reset"
    <3>1. req' = [req EXCEPT ![p].pc = "tokenSave",
                             ![p].row = [users[req[p].uid] EXCEPT !.pw = req[p].new]]
      BY <1>3, <2>2 DEF TokenUser
    <3>2. /\ req'[p].uid = req[p].uid /\ req'[p].pc = "tokenSave"
          /\ req'[p].row = [users[req[p].uid] EXCEPT !.pw = req[p].new]
      BY <1>0, <3>1 DEF Request
    <3>3. req[p].new \in Passwords
      BY <1>0, <2>1, <2>2 DEF At, LocalsSet
    <3>4. QED BY <2>1, <2>2, <3>2, <3>3 DEF ReadsRow
  <2>3. CASE req[p].kind = "verify" /\ ~users[req[p].uid].verified
    <3>1. req' = [req EXCEPT ![p].pc = "tokenSave",
                             ![p].row = [users[req[p].uid] EXCEPT !.verified = TRUE]]
      BY <1>3, <2>3 DEF TokenUser
    <3>2. /\ req'[p].uid = req[p].uid /\ req'[p].pc = "tokenSave"
          /\ req'[p].row = [users[req[p].uid] EXCEPT !.verified = TRUE]
      BY <1>0, <3>1 DEF Request
    <3>3. QED BY <2>1, <2>3, <3>2 DEF ReadsRow
  <2>4. CASE req[p].kind = "verify" /\ users[req[p].uid].verified
    <3>1. req'[p].pc = "tokenDelete"
      BY <1>0, <1>3, <2>4 DEF TokenUser, Goto, Request
    <3>2. QED BY <3>1 DEF Saving, SaveLabels
  <2>5. QED BY <1>3, <2>2, <2>3, <2>4 DEF TokenUser
<1>4. CASE RegisterInsert(p)
  <2>1. PICK i \in Ids \ Registered : RegisterInsert(p)!3!(i)
    BY <1>4 DEF RegisterInsert
  <2>2. CASE i # FirstId
    <3>1. req' = [req EXCEPT ![p].pc = "openSession", ![p].uid = i]
      BY <2>1, <2>2
    <3>2. req'[p].pc = "openSession"
      BY <1>0, <3>1 DEF Request
    <3>3. QED BY <3>2 DEF Saving, SaveLabels
  <2>3. CASE i = FirstId
    <3>1. req' = [req EXCEPT ![p].pc = "promote", ![p].uid = i,
                             ![p].row = [req[p].row EXCEPT !.role = "admin"]]
      BY <2>1, <2>3
    <3>2. /\ req'[p].pc = "promote" /\ req'[p].uid = i
          /\ req'[p].row = [req[p].row EXCEPT !.role = "admin"]
      BY <1>0, <3>1 DEF Request
    <3>3. At(p, "regInsert") /\ req[p].row \in UserRow /\ Registered = {}
      BY <1>0, <1>4, <2>1, <2>3 DEF RegisterInsert, At, LocalsSet
    <3>4. QED BY <2>1, <3>2, <3>3 DEF InsertsRow
  <2>4. QED BY <2>2, <2>3
<1>5. QED BY <1>1, <1>2, <1>3, <1>4, Arrivals DEF Saving

-----------------------------------------------------------------------------
(* Identity: names and e-mail addresses.                                   *)

\* No step changes the name or the e-mail of an account, and the rows that
\* will be written back still agree with the table.
LEMMA IdentityStep ==
    ASSUME TypeInv, IdentityKept, NEW p \in Procs, Step(p)
    PROVE  /\ \A i \in Registered : /\ users'[i].name = users[i].name
                                    /\ users'[i].email = users[i].email
           /\ IdentityKept'
<1>0. users \in [Ids -> UserRow \cup {None}]
  BY DEF TypeInv, TypeOK
<1>1. ASSUME NEW i \in Registered
      PROVE  users'[i].name = users[i].name /\ users'[i].email = users[i].email
  <2>1. users[i] \in UserRow
    BY <1>0, NullIsNoRow DEF Registered
  <2>2. \A b \in BOOLEAN : /\ [users[i] EXCEPT !.banned = b].name = users[i].name
                          /\ [users[i] EXCEPT !.banned = b].email = users[i].email
    BY <2>1 DEF UserRow
  <2>3. QED BY <2>2, OneWriter DEF IdentityKept
<1>2. ASSUME NEW q \in Procs, Saving(q)'
      PROVE  /\ req'[q].row.name = users'[req'[q].uid].name
             /\ req'[q].row.email = users'[req'[q].uid].email
  <2>1. CASE q # p
    <3>1. req'[q] = req[q] /\ Saving(q) /\ req[q].uid \in Registered
      BY <1>2, <2>1, OneMoves DEF Saving, SaveLabels, TypeInv, LocalsOK, LocalsSet
    <3>2. QED BY <3>1, <1>1 DEF IdentityKept
  <2>2. CASE q = p /\ ReadsRow(p)
    <3>1. users[req[p].uid] \in UserRow
      BY <2>2, <1>0, NullIsNoRow DEF ReadsRow, Registered
    <3>2. QED BY <2>2, <3>1 DEF ReadsRow, UserRow
  <2>3. CASE q = p /\ InsertsRow(p)
    BY <1>0, <2>3 DEF InsertsRow, UserRow
  <2>4. QED BY <1>2, <2>1, <2>2, <2>3, RowsRead
<1>3. QED BY <1>1, <1>2 DEF IdentityKept

\* Accounts come from INSERTs only, and none goes.
LEMMA OnlyInsertsAdd ==
    ASSUME TypeInv, NEW p \in Procs, Step(p), ~RegisterInsert(p)
    PROVE  Registered' = Registered
<1>0. users \in [Ids -> UserRow \cup {None}]
  BY DEF TypeInv, TypeOK
<1>1. Registered' \subseteq Registered
  <2>1. CASE users' = users
    BY <2>1 DEF Registered
  <2>2. CASE Saving(p) /\ UpdateUser(req[p].uid, req[p].row)
    BY <1>0, <2>2 DEF UpdateUser, Registered, TypeInv, LocalsOK, LocalsSet, Saving, SaveLabels
  <2>3. CASE BanWrite(p)
    BY <1>0, <2>3 DEF BanWrite, Registered, TypeInv, LocalsOK, LocalsSet, At
  <2>4. CASE Unban(p)
    BY <1>0, <2>4 DEF Unban, Registered
  <2>5. QED BY <2>1, <2>2, <2>3, <2>4, UsersWriters
<1>2. Registered \subseteq Registered'
  BY OneWriter DEF Registered
<1>3. QED BY <1>1, <1>2

\* A step that adds an account is an INSERT the UNIQUE constraints let pass.
LEMMA UniqueStep ==
    ASSUME TypeInv, IdentityKept, UniqueAccounts, NEW p \in Procs, Step(p)
    PROVE  UniqueAccounts'
<1>0. users \in [Ids -> UserRow \cup {None}]
  BY DEF TypeInv, TypeOK
<1>1. CASE RegisterInsert(p)
  <2>1. PICK i \in Ids \ Registered : users' = [users EXCEPT ![i] = req[p].row]
    BY <1>1 DEF RegisterInsert
  <2>2. \A j \in Registered : users[j].email # req[p].row.email /\ users[j].name # req[p].row.name
    BY <1>1 DEF RegisterInsert, EmailFree, NameFree
  <2>3. \A j \in Ids : users'[j] = IF j = i THEN req[p].row ELSE users[j]
    BY <1>0, <2>1
  <2>4. QED BY <2>2, <2>3 DEF UniqueAccounts, Distinct, Registered
<1>2. CASE ~RegisterInsert(p)
  <2>1. \A i \in Ids : users'[i] # None => i \in Registered
    BY <1>2, OnlyInsertsAdd DEF Registered
  <2>2. QED BY <2>1, IdentityStep DEF UniqueAccounts, Distinct, Registered
<1>3. QED BY <1>1, <1>2

\* No two accounts ever share a username or an e-mail address, however
\* registrations race and however stale the rows written back are.
THEOREM AccountsStayUnique == Spec => []UniqueAccounts
<1> DEFINE Inv == TypeInv /\ IdentityKept /\ UniqueAccounts
<1>1. Init => Inv
  BY TypeInit, SeedOK DEF Init, IdentityKept, UniqueAccounts, Saving, SaveLabels, NoRequest
<1>2. Inv /\ [Next]_vars => Inv'
  <2> SUFFICES ASSUME Inv, [Next]_vars PROVE Inv'
    OBVIOUS
  <2>1. CASE \E p \in Procs : Step(p)
    BY <2>1, TypeStep, IdentityStep, UniqueStep
  <2>2. CASE Expire
    BY <2>2, TypeStep DEF Expire, IdentityKept, UniqueAccounts, Saving, SaveLabels
  <2>3. CASE UNCHANGED vars
    BY <2>3, TypeStep DEF vars, IdentityKept, UniqueAccounts, Saving, SaveLabels
  <2>4. QED BY <2>1, <2>2, <2>3 DEF Next, Step
<1>3. Inv => UniqueAccounts
  OBVIOUS
<1>4. QED BY <1>1, <1>2, <1>3, PTL DEF Spec

-----------------------------------------------------------------------------
(* Registration implements the one-step registry.                          *)

Entries == Directory(users)
Asked == [p \in Procs |-> IF Registering(p) THEN IdentityOf(req[p].row) ELSE None]

LEMMA IdentityType ==
    ASSUME NEW row \in UserRow
    PROVE  /\ IdentityOf(row) \in Identity /\ IdentityOf(row) # None
           /\ IdentityOf(row).name = row.name /\ IdentityOf(row).email = row.email
<1>1. IdentityOf(row) \in Identity
  BY DEF IdentityOf, Identity, UserRow
<1>2. QED BY <1>1, ConstantsOK DEF IdentityOf

\* What the registry is told of an account is its row.
LEMMA EntriesAreRows ==
    ASSUME TypeInv
    PROVE  /\ Registrar!Held = Registered
           /\ \A i \in Registered : /\ users[i] \in UserRow
                                   /\ Entries[i].name = users[i].name
                                   /\ Entries[i].email = users[i].email
<1>1. \A i \in Registered : users[i] \in UserRow /\ Entries[i] = IdentityOf(users[i])
  BY NullIsNoRow DEF TypeInv, TypeOK, Registered, Entries, Directory
<1>2. \A i \in Registered : Entries[i] # None
  BY <1>1, IdentityType
<1>3. Registrar!Held = Registered
  BY <1>1, <1>2 DEF Registrar!Held, Registered, Entries, Directory
<1>4. QED BY <1>1, <1>3, IdentityType

\* The look-ups and the constraints ask what the registry asks.
LEMMA TakenMeans ==
    ASSUME TypeInv, NEW row
    PROVE  Registrar!Taken(IdentityOf(row)) <=> ~(EmailFree(row.email) /\ NameFree(row.name))
<1>1. IdentityOf(row).name = row.name /\ IdentityOf(row).email = row.email
  BY DEF IdentityOf
<1>2. QED BY <1>1, EntriesAreRows DEF Registrar!Taken, Entries, EmailFree, NameFree

\* The statements of a registration that is not decided yet.
LEMMA RegisteringSteps ==
    ASSUME NEW p \in Procs, Step(p), Registering(p)
    PROVE  RegisterName(p) \/ RegisterInsert(p) \/ RegisterTaken(p) \/ (Abort(p) /\ Faults)
<1>1. ~Middleware(p) /\ ~SessionUse(p) /\ ~Settings(p) /\ ~Moderation(p)
  BY DEF Registering, At, Middleware, GetSession, GetUser, DropSession, SessionUse, Browse, Logout,
         Revoke, Settings, ProfileRead, ProfileSave, PasswordRead, PasswordSave,
         Moderation, BanRead, BanWrite, Unban
<1>2. ~Login(p) /\ ~Issue(p) /\ ~Consume(p) /\ ~Refuse(p)
  BY DEF Registering, At, Login, LoginRead, OpenSession, Issue, ForgotRead, IssueClear, IssueCreate,
         IssueFails, Consume, TokenLookup, TokenUser, TokenSave, TokenDelete, Refuse
<1>3. ~RegisterEmail(p) /\ ~Promote(p) /\ (Abort(p) => Faults)
  BY DEF Registering, At, RegisterEmail, Promote, Abort, NoRandomness
<1>4. QED BY <1>1, <1>2, <1>3 DEF Step, Register, GiveUp

\* Only an INSERT changes what the registry holds.
LEMMA SameEntries ==
    ASSUME TypeInv, IdentityKept, NEW p \in Procs, Step(p), ~RegisterInsert(p)
    PROVE  Entries' = Entries
<1>1. Registered' = Registered
  BY OnlyInsertsAdd
<1>2. \A i \in Registered : users'[i].name = users[i].name /\ users'[i].email = users[i].email
  BY IdentityStep
<1>3. \A i \in Ids : (users'[i] = None <=> users[i] = None)
  BY <1>1 DEF Registered
<1>4. QED BY <1>2, <1>3 DEF Entries, Directory, IdentityOf, Registered

\* What a step does to the pending registrations: nothing, or it sets p's.
LEMMA AskedMoves ==
    ASSUME TypeInv, NEW p \in Procs, Step(p), NEW entry,
           entry = IF Registering(p)' THEN IdentityOf(req'[p].row) ELSE None
    PROVE  Asked' = [Asked EXCEPT ![p] = entry]
<1>1. \A q \in Procs \ {p} : req'[q] = req[q]
  BY OneMoves
<1>2. QED BY <1>1 DEF Asked, Registering

\* The first statement of a registration asks.
LEMMA EmailAsks ==
    ASSUME TypeInv, IdentityKept, NEW p \in Procs, RegisterEmail(p)
    PROVE  \E entry \in Identity : Registrar!Ask(p, entry)
<1>0. Step(p) /\ req \in [Procs -> Request]
  BY DEF Step, Register, TypeInv, TypeOK
<1>1. PICK name \in Names, email \in Emails, pw \in Passwords : RegisterEmail(p)!2!(name, email, pw)
  BY DEF RegisterEmail
<1>2. PICK row : row = [name |-> name, email |-> email, pw |-> pw, role |-> "member",
                        banned |-> FALSE, verified |-> FALSE]
  OBVIOUS
<1>3. req'[p].row = row /\ req'[p].pc = "regName"
  BY <1>0, <1>1, <1>2 DEF NoRequest
<1>4. row \in UserRow
  BY <1>2 DEF UserRow, Roles
<1>5. Asked' = [Asked EXCEPT ![p] = IdentityOf(row)]
  BY <1>0, <1>3, AskedMoves DEF Registering
<1>6. Asked[p] = None
  BY DEF Asked, Registering, RegisterEmail, At
<1>7. ~RegisterInsert(p)
  BY DEF RegisterEmail, RegisterInsert, At
<1>8. Entries' = Entries
  BY <1>0, <1>7, SameEntries
<1>9. QED BY <1>4, <1>5, <1>6, <1>8, IdentityType DEF Registrar!Ask, Asked, Entries

\* The INSERT grants: the constraints have just asked the same question.
LEMMA InsertGrants ==
    ASSUME TypeInv, NEW p \in Procs, RegisterInsert(p)
    PROVE  \E i \in Ids : Registrar!Grant(p, i)
<1>0. /\ Step(p) /\ users \in [Ids -> UserRow \cup {None}] /\ req \in [Procs -> Request]
      /\ req[p].row \in UserRow /\ Registering(p)
  BY DEF Step, Register, RegisterInsert, At, Registering, TypeInv, TypeOK, LocalsOK, LocalsSet
<1>1. PICK i \in Ids \ Registered : RegisterInsert(p)!3!(i)
  BY DEF RegisterInsert
<1>2. PICK entry : entry = IdentityOf(req[p].row)
  OBVIOUS
<1>3. entry # None /\ Asked[p] = entry
  BY <1>0, <1>2, IdentityType DEF Asked
<1>4. ~Registrar!Taken(entry)
  BY <1>2, TakenMeans DEF RegisterInsert
<1>5. Registrar!Held = Registered
  BY EntriesAreRows
<1>6. Entries' = [Entries EXCEPT ![i] = entry]
  <2>1. users' = [users EXCEPT ![i] = req[p].row]
    BY <1>1
  <2>2. \A j \in Ids : users'[j] = IF j = i THEN req[p].row ELSE users[j]
    BY <1>0, <2>1
  <2>3. req[p].row # None
    BY <1>0, NullIsNoRow
  <2>4. /\ Entries' = [j \in Ids |-> IF users'[j] = None THEN None ELSE IdentityOf(users'[j])]
        /\ Entries = [j \in Ids |-> IF users[j] = None THEN None ELSE IdentityOf(users[j])]
    BY DEF Entries, Directory
  <2>5. \A j \in Ids : Entries'[j] = IF j = i THEN entry ELSE Entries[j]
    BY <1>2, <2>2, <2>3, <2>4
  <2>6. QED BY <2>4, <2>5
<1>7. Asked' = [Asked EXCEPT ![p] = None]
  <2>1. req'[p].pc \in {"promote", "openSession"}
    BY <1>0, <1>1 DEF Request
  <2>2. QED BY <1>0, <2>1, AskedMoves DEF Registering
<1>8. QED BY <1>1, <1>3, <1>4, <1>5, <1>6, <1>7 DEF Registrar!Grant, Entries, Asked

\* A refusal, or the end of a request that fails.
LEMMA TakenRefuses ==
    ASSUME TypeInv, IdentityKept, NEW p \in Procs, Registering(p),
           RegisterTaken(p) \/ (Abort(p) /\ Faults)
    PROVE  Registrar!Refuse(p)
<1>0. Step(p) /\ req \in [Procs -> Request] /\ req[p].row \in UserRow
  BY DEF Step, Register, GiveUp, Registering, TypeInv, TypeOK, LocalsOK, LocalsSet
<1>1. ~RegisterInsert(p)
  <2>1. users' = users
    BY DEF RegisterTaken, Abort
  <2>2. RegisterInsert(p) => users' # users
    BY <1>0, NullIsNoRow DEF RegisterInsert, Registered, TypeInv, TypeOK
  <2>3. QED BY <2>1, <2>2
<1>2. Entries' = Entries
  BY <1>0, <1>1, SameEntries
<1>3. Asked' = [Asked EXCEPT ![p] = None]
  <2>1. req'[p].pc = "idle"
    BY <1>0 DEF RegisterTaken, Abort, Finish, NoRequest
  <2>2. QED BY <1>0, <2>1, AskedMoves DEF Registering
<1>4. PICK entry : entry = IdentityOf(req[p].row)
  OBVIOUS
<1>5. Asked[p] = entry /\ entry # None
  BY <1>0, <1>4, IdentityType DEF Asked
<1>6. Registrar!Taken(entry) \/ Faults
  BY <1>4, TakenMeans DEF RegisterTaken
<1>7. QED BY <1>2, <1>3, <1>5, <1>6 DEF Registrar!Refuse, Entries, Asked

\* Every other step changes nothing the registry knows of.
LEMMA OthersStutter ==
    ASSUME TypeInv, IdentityKept, NEW p \in Procs, Step(p),
           ~RegisterEmail(p), ~Registering(p) \/ RegisterName(p)
    PROVE  UNCHANGED <<Entries, Asked>>
<1>0. req \in [Procs -> Request]
  BY DEF TypeInv, TypeOK
<1>1. ~RegisterInsert(p)
  BY DEF RegisterInsert, RegisterName, Registering, At
<1>2. Entries' = Entries
  BY <1>1, SameEntries
<1>3. PICK entry : entry = IF Registering(p)' THEN IdentityOf(req'[p].row) ELSE None
  OBVIOUS
<1>4. Asked' = [Asked EXCEPT ![p] = entry]
  BY <1>3, AskedMoves
<1>5. Asked[p] = entry
  <2>1. CASE RegisterName(p)
    <3>1. req'[p].pc = "regInsert" /\ req'[p].row = req[p].row
      BY <1>0, <2>1 DEF RegisterName, Goto, Request
    <3>2. QED BY <2>1, <3>1, <1>3 DEF Asked, Registering, RegisterName, At
  <2>2. CASE ~RegisterName(p)
    <3>1. ~Registering(p)'
      BY <2>2, Arrivals DEF Registering
    <3>2. QED BY <2>2, <3>1, <1>3 DEF Asked
  <2>3. QED BY <2>1, <2>2
<1>6. QED BY <1>2, <1>4, <1>5 DEF Asked

\* Registrations that overlap are decided one by one, each in one step on the
\* accounts there are, and no handler that writes a whole row back moves,
\* renames or removes an account: Accounts implements Registry.
THEOREM RegistrationIsOneStep == Spec => RegistersInOneStep
<1> DEFINE Inv == TypeInv /\ IdentityKept
<1>1. Init => Inv
  BY TypeInit DEF Init, IdentityKept, Saving, SaveLabels, NoRequest
<1>2. Inv /\ [Next]_vars => Inv'
  <2> SUFFICES ASSUME Inv, [Next]_vars PROVE Inv'
    OBVIOUS
  <2>1. CASE \E p \in Procs : Step(p)
    BY <2>1, TypeStep, IdentityStep
  <2>2. CASE Expire \/ UNCHANGED vars
    BY <2>2, TypeStep DEF Expire, vars, IdentityKept, Saving, SaveLabels
  <2>3. QED BY <2>1, <2>2 DEF Next, Step
<1>3. Init => Registrar!Init
  BY DEF Init, Registrar!Init, Registering, NoRequest
<1>4. Inv /\ [Next]_vars => [Registrar!Next]_(Registrar!vars)
  <2> SUFFICES ASSUME Inv, [Next]_vars PROVE Registrar!Next \/ UNCHANGED <<Entries, Asked>>
    BY DEF Registrar!vars, Entries, Asked
  <2>1. CASE Expire \/ UNCHANGED vars
    BY <2>1 DEF Expire, vars, Entries, Asked, Registering
  <2>2. ASSUME NEW p \in Procs, Step(p)
        PROVE  Registrar!Next \/ UNCHANGED <<Entries, Asked>>
    <3>1. CASE RegisterEmail(p)
      BY <3>1, EmailAsks DEF Registrar!Next, Identity
    <3>2. CASE RegisterInsert(p)
      BY <3>2, InsertGrants DEF Registrar!Next
    <3>3. CASE Registering(p) /\ (RegisterTaken(p) \/ (Abort(p) /\ Faults))
      BY <3>3, TakenRefuses DEF Registrar!Next
    <3>4. QED BY <2>2, <3>1, <3>2, <3>3, RegisteringSteps, OthersStutter
  <2>3. QED BY <2>1, <2>2 DEF Next, Step
<1>5. QED BY <1>1, <1>2, <1>3, <1>4, PTL DEF Spec, RegistersInOneStep, Registrar!Spec

-----------------------------------------------------------------------------
(* Authority: passwords and verification.                                  *)

AuthorityInv == TypeInv /\ RowsChosen /\ PasswordsAreChosen

\* What an account may come to say is what the rows in flight say.
LEMMA PasswordsStep ==
    ASSUME AuthorityInv, NEW p \in Procs, Step(p)
    PROVE  PasswordsAreChosen'
<1>0. /\ users \in [Ids -> UserRow \cup {None}] /\ TypeInv /\ RowsChosen /\ PasswordsAreChosen
      /\ chosen \subseteq chosen' /\ proven \subseteq proven'
  BY OneMoves DEF AuthorityInv, TypeInv, TypeOK
<1>1. ASSUME NEW i \in Registered
      PROVE  <<i, users'[i].pw>> \in chosen' /\ (users'[i].verified => i \in proven')
  <2>1. users[i] \in UserRow
    BY <1>0, NullIsNoRow DEF Registered
  <2>2. \A b \in BOOLEAN : /\ [users[i] EXCEPT !.banned = b].pw = users[i].pw
                          /\ [users[i] EXCEPT !.banned = b].verified = users[i].verified
    BY <2>1 DEF UserRow
  <2>3. /\ <<i, users[i].pw>> \in chosen'
        /\ users[i].verified => i \in proven'
        /\ Saving(p) /\ i = req[p].uid
           => <<i, req[p].row.pw>> \in chosen' /\ (req[p].row.verified => i \in proven')
    BY <1>0 DEF PasswordsAreChosen, RowsChosen
  <2>4. \/ users'[i] = users[i]
        \/ Saving(p) /\ i = req[p].uid /\ users'[i] = req[p].row
        \/ users'[i] = [users[i] EXCEPT !.banned = TRUE]
        \/ users'[i] = [users[i] EXCEPT !.banned = FALSE]
    BY <1>0, OneWriter
  <2>5. QED BY <2>2, <2>3, <2>4
<1>2. CASE RegisterInsert(p)
  <2>1. PICK i \in Ids \ Registered : RegisterInsert(p)!3!(i)
    BY <1>2 DEF RegisterInsert
  <2>2. ~req[p].row.verified
    BY <1>0, <1>2 DEF RegisterInsert, At, Registering, RowsChosen
  <2>3. \A j \in Ids : users'[j] = IF j = i THEN req[p].row ELSE users[j]
    BY <1>0, <2>1
  <2>4. <<i, req[p].row.pw>> \in chosen'
    BY <2>1
  <2>5. QED BY <1>1, <2>2, <2>3, <2>4 DEF PasswordsAreChosen, Registered
<1>3. CASE ~RegisterInsert(p)
  <2>1. \A j \in Ids : j \notin Registered => users'[j] = None
    BY <1>0, <1>3, UsersWriters DEF UpdateUser, BanWrite, Unban, Registered, Saving, SaveLabels,
       LocalsOK, LocalsSet, At, TypeInv
  <2>2. QED BY <1>1, <2>1 DEF PasswordsAreChosen, Registered
<1>4. QED BY <1>2, <1>3

\* A row a request starts to hold says what its account says, or what was
\* chosen for it.
LEMMA RowsChosenStep ==
    ASSUME AuthorityInv, NEW p \in Procs, Step(p)
    PROVE  RowsChosen'
<1>0. /\ users \in [Ids -> UserRow \cup {None}] /\ req \in [Procs -> Request]
      /\ TypeInv /\ RowsChosen /\ PasswordsAreChosen
      /\ chosen \subseteq chosen' /\ proven \subseteq proven'
      /\ \A q \in Procs : q # p => req'[q] = req[q]
  BY OneMoves DEF AuthorityInv, TypeInv, TypeOK
<1>1. ASSUME NEW q \in Procs, q # p
      PROVE  RowsChosen!(q)'
  BY <1>0, <1>1 DEF RowsChosen, Saving, SaveLabels, Registering
<1>2. Saving(p)' => /\ <<req'[p].uid, req'[p].row.pw>> \in chosen'
                    /\ req'[p].row.verified => req'[p].uid \in proven'
  <2> SUFFICES ASSUME Saving(p)'
               PROVE  /\ <<req'[p].uid, req'[p].row.pw>> \in chosen'
                      /\ req'[p].row.verified => req'[p].uid \in proven'
    OBVIOUS
  <2>1. CASE ReadsRow(p)
    <3>1. /\ users[req[p].uid] \in UserRow /\ req'[p].uid = req[p].uid
          /\ <<req[p].uid, users[req[p].uid].pw>> \in chosen'
          /\ users[req[p].uid].verified => req[p].uid \in proven'
      BY <1>0, <2>1, NullIsNoRow DEF ReadsRow, Registered, PasswordsAreChosen
    <3>2. CASE req'[p].row = users[req[p].uid]
      BY <3>1, <3>2
    <3>3. ASSUME NEW new \in Passwords,
                 req'[p].row = [users[req[p].uid] EXCEPT !.pw = new],
                 \/ <<req[p].uid, new>> \in chosen'
                 \/ At(p, "tokenUser") /\ req[p].kind = "reset" /\ new = req[p].new
          PROVE  /\ <<req'[p].uid, req'[p].row.pw>> \in chosen'
                 /\ req'[p].row.verified => req'[p].uid \in proven'
      <4>1. req'[p].row.pw = new /\ req'[p].row.verified = users[req[p].uid].verified
        BY <3>1, <3>3 DEF UserRow
      <4>2. <<req[p].uid, new>> \in chosen'
        BY <1>0, <3>3 DEF RowsChosen, At
      <4>3. QED BY <3>1, <4>1, <4>2
    <3>4. CASE /\ req'[p].row = [users[req[p].uid] EXCEPT !.verified = TRUE]
               /\ At(p, "tokenUser") /\ req[p].kind = "verify"
      <4>1. req'[p].row.pw = users[req[p].uid].pw
        BY <3>1, <3>4 DEF UserRow
      <4>2. req[p].uid \in proven'
        BY <1>0, <3>4 DEF RowsChosen, At
      <4>3. QED BY <3>1, <4>1, <4>2
    <3>5. QED BY <2>1, <3>2, <3>3, <3>4 DEF ReadsRow
  <2>2. CASE InsertsRow(p)
    <3>1. ~req[p].row.verified
      BY <1>0, <2>2 DEF InsertsRow, At, Registering, RowsChosen
    <3>2. req'[p].row.pw = req[p].row.pw /\ req'[p].row.verified = req[p].row.verified
      BY <2>2 DEF InsertsRow, UserRow
    <3>3. QED BY <2>2, <3>1, <3>2 DEF InsertsRow
  <2>3. QED BY <1>0, <2>1, <2>2, RowsRead
<1>3. Registering(p)' => ~req'[p].row.verified
  <2>1. CASE RegisterEmail(p)
    BY <1>0, <2>1 DEF RegisterEmail, NoRequest
  <2>2. CASE RegisterName(p)
    BY <1>0, <2>2 DEF RegisterName, Goto, At, Request, RowsChosen, Registering
  <2>3. QED BY <1>0, <2>1, <2>2, Arrivals DEF Registering
<1>4. ASSUME req'[p].pc = "tokenUser"
      PROVE  /\ req'[p].kind = "reset" => <<req'[p].uid, req'[p].new>> \in chosen'
             /\ req'[p].kind = "verify" => req'[p].uid \in proven'
  <2>1. PICK k \in Kinds \cap LinkTypes, t \in known \cap Tokens : TokenLookup(p)!2!(k, t)
    BY <1>0, <1>4, Arrivals DEF TokenLookup
  <2>2. PICK new \in IF k = "reset" THEN Passwords ELSE {None} : TokenLookup(p)!2!(k, t)!2!(new)
    BY <2>1
  <2>3. req'[p].uid = tokens[t].user /\ req'[p].kind = k /\ req'[p].new = new
    BY <1>0, <2>2 DEF NoRequest
  <2>4. QED BY <2>2, <2>3
<1>5. QED BY <1>1, <1>2, <1>3, <1>4 DEF RowsChosen

\* The password that opens an account was chosen at its registration, in a
\* password change that gave the password of that moment, or with a live reset
\* link of it; and no account is verified without one of its links.
THEOREM PasswordsWereChosen == Spec => []PasswordsAreChosen
<1>1. Init => AuthorityInv
  BY TypeInit DEF Init, AuthorityInv, RowsChosen, PasswordsAreChosen, Registered, Registering,
     Saving, SaveLabels, NoRequest
<1>2. AuthorityInv /\ [Next]_vars => AuthorityInv'
  <2> SUFFICES ASSUME AuthorityInv, [Next]_vars PROVE AuthorityInv'
    OBVIOUS
  <2>1. TypeInv'
    BY TypeStep DEF AuthorityInv
  <2>2. CASE \E p \in Procs : Step(p)
    BY <2>1, <2>2, PasswordsStep, RowsChosenStep DEF AuthorityInv
  <2>3. CASE Expire
    BY <2>1, <2>3 DEF Expire, AuthorityInv, RowsChosen, PasswordsAreChosen, Registered,
       Registering, Saving, SaveLabels
  <2>4. CASE UNCHANGED vars
    BY <2>1, <2>4 DEF vars, AuthorityInv, RowsChosen, PasswordsAreChosen, Registered,
       Registering, Saving, SaveLabels
  <2>5. QED BY <2>2, <2>3, <2>4 DEF Next, Step
<1>3. AuthorityInv => PasswordsAreChosen
  BY DEF AuthorityInv
<1>4. QED BY <1>1, <1>2, <1>3, PTL DEF Spec

-----------------------------------------------------------------------------
(* Links.                                                                  *)

\* What a step writes into the row of a link.
LEMMA LinkWriters ==
    ASSUME TypeInv, NEW p \in Procs, Step(p), NEW t \in Tokens
    PROVE  \/ tokens'[t] = tokens[t] \/ tokens'[t] = None
           \/ /\ At(p, "issueCreate") /\ req'[p].pc = "idle"
              /\ \E n \in LinkIds :
                   tokens'[t] = [id |-> n, user |-> req[p].uid, type |-> IssuedType(p), by |-> p]
              /\ t \notin minted /\ t \in minted'
              /\ \A x \in Tokens : x # t => tokens'[x] = tokens[x]
<1>0. tokens \in [Tokens -> TokenRow \cup {None}] /\ req \in [Procs -> Request]
  BY DEF TypeInv, TypeOK
<1>1. CASE IssueClear(p) \/ TokenDelete(p)
  BY <1>0, <1>1 DEF IssueClear, DeleteUserAuthTokensByType, TokenDelete
<1>2. CASE IssueCreate(p)
  <2>1. PICK x \in Tokens \ minted, n \in LinkIds : IssueCreate(p)!2!(x, n)
    BY <1>2 DEF IssueCreate
  <2>2. req'[p].pc = "idle" /\ At(p, "issueCreate")
    BY <1>0, <1>2 DEF IssueCreate, Finish, NoRequest
  <2>3. QED BY <1>0, <2>1, <2>2
<1>3. CASE tokens' = tokens
  BY <1>3
<1>4. tokens' = tokens \/ IssueClear(p) \/ IssueCreate(p) \/ TokenDelete(p)
  <2>1. CASE Middleware(p) \/ SessionUse(p) \/ Settings(p)
    BY <2>1 DEF Middleware, SessionUse, Settings, GetSession, GetUser, DropSession, Browse, Logout,
       Revoke, ProfileRead, ProfileSave, PasswordRead, PasswordSave
  <2>2. CASE Moderation(p) \/ Login(p) \/ Register(p)
    BY <2>2 DEF Moderation, Login, Register, BanRead, BanWrite, Unban, LoginRead, OpenSession,
       RegisterEmail, RegisterName, RegisterInsert, RegisterTaken, Promote
  <2>3. CASE Issue(p) \/ Consume(p) \/ GiveUp(p)
    BY <2>3 DEF Issue, Consume, GiveUp, ForgotRead, IssueFails, TokenLookup, TokenUser, TokenSave,
       Refuse, Abort
  <2>4. QED BY <2>1, <2>2, <2>3 DEF Step
<1>5. QED BY <1>1, <1>2, <1>3, <1>4

LinksInv == TypeInv /\ OwnLinksCleared /\ LinksFromDistinctRequests

LEMMA LinksStep ==
    ASSUME LinksInv, NEW p \in Procs, Step(p)
    PROVE  OwnLinksCleared' /\ LinksFromDistinctRequests'
<1>0. tokens \in [Tokens -> TokenRow \cup {None}] /\ req \in [Procs -> Request] /\ TypeInv
  BY DEF LinksInv, TypeInv, TypeOK
<1>1. OwnLinksCleared'
  <2> SUFFICES ASSUME NEW q \in Procs, NEW t \in Tokens, req'[q].pc = "issueCreate",
                      tokens'[t] # None, tokens'[t].by = q, tokens'[t].user = req'[q].uid
               PROVE  tokens'[t].type # IssuedType(q)'
    BY DEF OwnLinksCleared
  <2>1. CASE q = p
    <3>1. IssueClear(p) /\ req'[p] = [req[p] EXCEPT !.pc = "issueCreate"]
      BY <1>0, <2>1, Arrivals DEF IssueClear, Goto
    <3>2. req'[p].uid = req[p].uid /\ req'[p].kind = req[p].kind
      BY <1>0, <3>1 DEF Request
    <3>3. QED BY <1>0, <2>1, <3>1, <3>2
             DEF IssueClear, DeleteUserAuthTokensByType, IssuedType
  <2>2. CASE q # p
    <3>1. req'[q] = req[q]
      BY <1>0, <2>2, OneMoves
    <3>2. CASE tokens'[t].by = p
      BY <2>2, <3>2
    <3>3. CASE tokens'[t] = tokens[t]
      BY <3>1, <3>3 DEF LinksInv, OwnLinksCleared, IssuedType
    <3>4. CASE tokens'[t] # tokens[t]
      <4>1. PICK n \in LinkIds :
              tokens'[t] = [id |-> n, user |-> req[p].uid, type |-> IssuedType(p), by |-> p]
        BY <1>0, <3>4, LinkWriters
      <4>2. QED BY <3>2, <4>1
    <3>5. QED BY <3>3, <3>4
  <2>3. QED BY <2>1, <2>2
<1>2. LinksFromDistinctRequests'
  <2> SUFFICES ASSUME NEW t1 \in Tokens, NEW t2 \in Tokens, t1 # t2,
                      tokens'[t1] # None, tokens'[t2] # None,
                      tokens'[t1].user = tokens'[t2].user,
                      tokens'[t1].type = tokens'[t2].type,
                      tokens'[t1].by = tokens'[t2].by
               PROVE  FALSE
    BY DEF LinksFromDistinctRequests
  <2>1. CASE tokens'[t1] = tokens[t1] /\ tokens'[t2] = tokens[t2]
    BY <2>1 DEF LinksInv, LinksFromDistinctRequests
  <2>2. ASSUME NEW x \in Tokens, NEW y \in Tokens, x # y, tokens'[x] # tokens[x],
               tokens'[x] # None, tokens'[y] # None,
               tokens'[x].user = tokens'[y].user, tokens'[x].type = tokens'[y].type,
               tokens'[x].by = tokens'[y].by
        PROVE  FALSE
    <3>1. PICK n \in LinkIds :
            tokens'[x] = [id |-> n, user |-> req[p].uid, type |-> IssuedType(p), by |-> p]
      BY <1>0, <2>2, LinkWriters
    <3>2. At(p, "issueCreate") /\ tokens'[y] = tokens[y]
      BY <1>0, <2>2, LinkWriters
    <3>3. QED BY <2>2, <3>1, <3>2 DEF LinksInv, OwnLinksCleared, At
  <2>3. QED BY <2>1, <2>2
<1>3. QED BY <1>1, <1>2

\* A request goes on consuming the link it looked up.
LEMMA ConsumingArrivals ==
    ASSUME TypeInv, NEW p \in Procs, Step(p), Consuming(p)'
    PROVE  \/ TokenLookup(p)
           \/ /\ Consuming(p) /\ tokens' = tokens
              /\ req'[p].tok = req[p].tok /\ req'[p].link = req[p].link
<1>0. /\ req \in [Procs -> Request] /\ req[p] \in Request /\ LocalsSet(req[p])
  BY DEF TypeInv, TypeOK, LocalsOK
<1>1. TokenUser(p) => /\ Consuming(p) /\ tokens' = tokens
                      /\ req'[p].tok = req[p].tok /\ req'[p].link = req[p].link
  <2> SUFFICES ASSUME TokenUser(p)
               PROVE  req'[p].tok = req[p].tok /\ req'[p].link = req[p].link
    BY DEF TokenUser, Consuming, At
  <2>1. \/ \E row : req' = [req EXCEPT ![p].pc = "tokenSave", ![p].row = row]
        \/ req' = [req EXCEPT ![p].pc = "tokenDelete"]
    BY DEF TokenUser, Goto
  <2>2. QED BY <1>0, <2>1 DEF Request
<1>2. TokenSave(p) => /\ Consuming(p) /\ tokens' = tokens
                      /\ req'[p].tok = req[p].tok /\ req'[p].link = req[p].link
  BY <1>0 DEF TokenSave, Consuming, At, Goto, Request
<1>3. req'[p].pc \in {"tokenSave", "tokenDelete"} => TokenUser(p) \/ TokenSave(p)
  <2> DEFINE Elsewhere == req'[p].pc \notin {"tokenSave", "tokenDelete"}
  <2>1. GetSession(p) => Elsewhere
    BY <1>0 DEF GetSession, NoRequest
  <2>2. DropSession(p) \/ SessionUse(p) \/ GiveUp(p) => Elsewhere
    BY <1>0 DEF DropSession, SessionUse, Browse, Logout, Revoke, GiveUp, Refuse, Abort,
                Goto, Finish, NoRequest, Request
  <2>3. GetUser(p) => Elsewhere
    <3>1. GetUser(p) => req[p].kind \in CookieKinds
      BY <1>0 DEF GetUser, At, LocalsSet
    <3>2. GetUser(p) => req'[p].pc \in CookieKinds \cup {"dropSession"}
      BY <1>0, <3>1 DEF GetUser, Goto, Request
    <3>3. QED BY <3>2 DEF CookieKinds
  <2>4. ProfileRead(p) \/ PasswordRead(p) => Elsewhere
    <3>1. ProfileRead(p) => Elsewhere
      BY <1>0 DEF ProfileRead, Request
    <3>2. PasswordRead(p) => Elsewhere
      BY <1>0 DEF PasswordRead, Request
    <3>3. QED BY <3>1, <3>2
  <2>5. ProfileSave(p) \/ PasswordSave(p) \/ TokenDelete(p) \/ Promote(p) => Elsewhere
    BY <1>0 DEF ProfileSave, PasswordSave, TokenDelete, Promote, Goto, Finish, NoRequest, Request
  <2>6. Moderation(p) => Elsewhere
    <3>1. BanRead(p) => Elsewhere
      BY <1>0 DEF BanRead, Request
    <3>2. BanWrite(p) \/ Unban(p) => Elsewhere
      BY <1>0 DEF BanWrite, Unban, Goto, Finish, NoRequest, Request
    <3>3. QED BY <3>1, <3>2 DEF Moderation
  <2>7. LoginRead(p) \/ ForgotRead(p) \/ TokenLookup(p) \/ RegisterEmail(p) => Elsewhere
    <3>1. LoginRead(p) => Elsewhere
      BY <1>0 DEF LoginRead, NoRequest
    <3>2. ForgotRead(p) => Elsewhere
      BY <1>0 DEF ForgotRead, NoRequest
    <3>3. TokenLookup(p) => Elsewhere
      BY <1>0 DEF TokenLookup, NoRequest
    <3>4. RegisterEmail(p) => Elsewhere
      BY <1>0 DEF RegisterEmail, NoRequest
    <3>5. QED BY <3>1, <3>2, <3>3, <3>4
  <2>8. OpenSession(p) \/ IssueCreate(p) \/ IssueFails(p) \/ RegisterTaken(p) => Elsewhere
    <3>1. OpenSession(p) => Elsewhere
      BY <1>0 DEF OpenSession, Finish, NoRequest, Request
    <3>2. IssueCreate(p) \/ IssueFails(p) \/ RegisterTaken(p) => Elsewhere
      BY <1>0 DEF IssueCreate, IssueFails, RegisterTaken, Finish, NoRequest
    <3>3. QED BY <3>1, <3>2
  <2>9. IssueClear(p) \/ RegisterName(p) => Elsewhere
    BY <1>0 DEF IssueClear, RegisterName, Goto, Request
  <2>10. RegisterInsert(p) => Elsewhere
    BY <1>0 DEF RegisterInsert, Request
  <2>11. QED BY <2>1, <2>2, <2>3, <2>4, <2>5, <2>6, <2>7, <2>8, <2>9, <2>10
             DEF Step, Middleware, Settings, Login, Register, Issue, Consume
<1>4. req'[p].pc = "tokenUser" => TokenLookup(p)
  BY Arrivals
<1>5. QED BY <1>1, <1>2, <1>3, <1>4 DEF Consuming

\* The link a request consumes keeps its key until it is gone.
LEMMA LinksHeldStep ==
    ASSUME TypeInv, LinksHeld, NEW p \in Procs, Step(p)
    PROVE  LinksHeld'
<1>0. /\ tokens \in [Tokens -> TokenRow \cup {None}] /\ req \in [Procs -> Request]
      /\ minted \subseteq minted' /\ minted \subseteq Sessions \cup Tokens
      /\ known \subseteq minted
      /\ \A q \in Procs : q # p => req'[q] = req[q]
      /\ \A q \in Procs : Consuming(q) => req[q].tok \in Tokens
  BY OneMoves DEF TypeInv, TypeOK, LocalsOK, LocalsSet, Consuming
<1>1. \A t \in Tokens : tokens'[t] # None => t \in minted'
  BY <1>0, LinkWriters DEF LinksHeld
<1>2. \A t \in Tokens \cap minted : tokens'[t] # None => tokens'[t] = tokens[t]
  BY LinkWriters
<1>3. ASSUME NEW q \in Procs, Consuming(q)'
      PROVE  /\ req'[q].tok \in minted'
             /\ tokens'[req'[q].tok] # None => tokens'[req'[q].tok].id = req'[q].link
  <2>1. CASE q # p
    <3>1. req'[q] = req[q] /\ Consuming(q)
      BY <1>0, <1>3, <2>1 DEF Consuming
    <3>2. QED BY <1>0, <1>2, <3>1 DEF LinksHeld
  <2>2. CASE q = p /\ TokenLookup(p)
    <3>1. PICK k \in Kinds \cap LinkTypes, t \in known \cap Tokens : TokenLookup(p)!2!(k, t)
      BY <2>2 DEF TokenLookup
    <3>2. req'[p].tok = t /\ req'[p].link = tokens[t].id /\ tokens' = tokens
      BY <1>0, <2>2, <3>1 DEF TokenLookup, NoRequest
    <3>3. QED BY <1>0, <2>2, <3>2
  <2>3. CASE q = p /\ ~TokenLookup(p)
    <3>1. /\ Consuming(p) /\ tokens' = tokens
          /\ req'[p].tok = req[p].tok /\ req'[p].link = req[p].link
      BY <1>3, <2>3, ConsumingArrivals
    <3>2. QED BY <1>0, <2>3, <3>1 DEF LinksHeld
  <2>4. QED BY <2>1, <2>2, <2>3
<1>4. QED BY <1>1, <1>3 DEF LinksHeld

\* Whatever key its row had, a link is dead when the request that used it is
\* through with it, and no dead link works again.
THEOREM UsedLinksStayDead == Spec => UsedLinksAreDead
<1> DEFINE Inv == TypeInv /\ LinksHeld
           Dead == /\ \A p \in Procs : TokenDelete(p) => tokens'[req[p].tok] = None
                   /\ \A t \in Tokens \cap minted : tokens[t] = None => tokens'[t] = None
<1>1. Init => Inv
  BY TypeInit DEF Init, LinksHeld, Consuming, NoRequest
<1>2. Inv /\ [Next]_vars => Inv'
  <2> SUFFICES ASSUME Inv, [Next]_vars PROVE Inv'
    OBVIOUS
  <2>1. CASE \E p \in Procs : Step(p)
    BY <2>1, TypeStep, LinksHeldStep
  <2>2. CASE Expire
    BY <2>2, TypeStep DEF Expire, LinksHeld, Consuming
  <2>3. CASE UNCHANGED vars
    BY <2>3, TypeStep DEF vars, LinksHeld, Consuming
  <2>4. QED BY <2>1, <2>2, <2>3 DEF Next, Step
<1>3. Inv /\ [Next]_vars => [Dead]_vars
  <2> SUFFICES ASSUME Inv, Next PROVE Dead
    OBVIOUS
  <2>1. ASSUME NEW p \in Procs, TokenDelete(p) PROVE tokens'[req[p].tok] = None
    <3>1. Consuming(p) /\ req[p].tok \in Tokens
      BY <2>1 DEF TokenDelete, At, Consuming, TypeInv, LocalsOK, LocalsSet
    <3>2. tokens[req[p].tok] # None => tokens[req[p].tok].id = req[p].link
      BY <2>1, <3>1 DEF LinksHeld
    <3>3. QED BY <2>1, <3>1, <3>2 DEF TokenDelete
  <2>2. ASSUME NEW t \in Tokens \cap minted, tokens[t] = None PROVE tokens'[t] = None
    <3>1. CASE \E p \in Procs : Step(p)
      BY <2>2, <3>1, LinkWriters
    <3>2. CASE Expire
      BY <2>2, <3>2 DEF Expire
    <3>3. QED BY <3>1, <3>2 DEF Next, Step
  <2>3. QED BY <2>1, <2>2
<1>4. QED BY <1>1, <1>2, <1>3, PTL DEF Spec, UsedLinksAreDead

\* Two live links of one type for one account come from overlapping requests.
THEOREM LinksComeFromDistinctRequests == Spec => []LinksFromDistinctRequests
<1>1. Init => LinksInv
  BY TypeInit DEF Init, LinksInv, OwnLinksCleared, LinksFromDistinctRequests, NoRequest
<1>2. LinksInv /\ [Next]_vars => LinksInv'
  <2> SUFFICES ASSUME LinksInv, [Next]_vars PROVE LinksInv'
    OBVIOUS
  <2>1. TypeInv'
    BY TypeStep DEF LinksInv
  <2>2. CASE \E p \in Procs : Step(p)
    BY <2>1, <2>2, LinksStep DEF LinksInv
  <2>3. CASE Expire
    BY <2>1, <2>3 DEF Expire, LinksInv, OwnLinksCleared, LinksFromDistinctRequests, IssuedType
  <2>4. CASE UNCHANGED vars
    BY <2>1, <2>4 DEF vars, LinksInv, OwnLinksCleared, LinksFromDistinctRequests, IssuedType
  <2>5. QED BY <2>2, <2>3, <2>4 DEF Next, Step
<1>3. LinksInv => LinksFromDistinctRequests
  BY DEF LinksInv
<1>4. QED BY <1>1, <1>2, <1>3, PTL DEF Spec

-----------------------------------------------------------------------------
(* Roles and bans.                                                         *)

RolesInv == TypeInv /\ RolesKept /\ AdminNeverBanned

\* On an established forum a step keeps every role, and bans no admin.
LEMMA RolesStep ==
    ASSUME RolesInv, NEW p \in Procs, Step(p)
    PROVE  RolesKept' /\ AdminNeverBanned'
<1>0. /\ users \in [Ids -> UserRow \cup {None}] /\ req \in [Procs -> Request]
      /\ TypeInv /\ \A q \in Procs : LocalsSet(req[q])
  BY DEF RolesInv, TypeInv, TypeOK, LocalsOK
<1>1. \A i \in Registered : users[i] \in UserRow
  BY <1>0, NullIsNoRow DEF Registered
<1>2. ASSUME NEW i \in Registered
      PROVE  /\ i \in Registered' /\ users'[i].role = users[i].role
             /\ users'[i].role = "admin" => ~users'[i].banned
  <2>1. \A b \in BOOLEAN : /\ [users[i] EXCEPT !.banned = b].role = users[i].role
                          /\ [users[i] EXCEPT !.banned = b].banned = b
    BY <1>1 DEF UserRow
  <2>2. /\ i \in Registered'
        /\ \/ users'[i] = users[i]
           \/ Saving(p) /\ i = req[p].uid /\ users'[i] = req[p].row
           \/ /\ At(p, "banWrite") /\ i = req[p].uid
              /\ users'[i] = [users[i] EXCEPT !.banned = TRUE]
           \/ users'[i] = [users[i] EXCEPT !.banned = FALSE]
    BY <1>0, OneWriter
  <2>3. users[i].role = "admin" => ~users[i].banned
    BY DEF RolesInv, AdminNeverBanned
  <2>4. Saving(p) /\ i = req[p].uid
        => req[p].row.role = users[i].role /\ (req[p].row.role = "admin" => ~req[p].row.banned)
    BY DEF RolesInv, RolesKept
  <2>5. At(p, "banWrite") /\ i = req[p].uid => users[i].role # "admin"
    BY DEF RolesInv, RolesKept, At
  <2>6. /\ [users[i] EXCEPT !.banned = TRUE].role = users[i].role
        /\ [users[i] EXCEPT !.banned = FALSE].role = users[i].role
        /\ [users[i] EXCEPT !.banned = FALSE].banned = FALSE
    BY <2>1
  <2>7. QED BY <2>2, <2>3, <2>4, <2>5, <2>6
<1>3. FirstId \in Registered'
  BY <1>2 DEF RolesInv, RolesKept
<1>4. AdminNeverBanned'
  <2>1. CASE RegisterInsert(p)
    <3>1. PICK i \in Ids \ Registered : users' = [users EXCEPT ![i] = req[p].row]
      BY <2>1 DEF RegisterInsert
    <3>2. ~req[p].row.banned
      BY <2>1 DEF RegisterInsert, At, RolesInv, RolesKept
    <3>3. \A j \in Ids : users'[j] = IF j = i THEN req[p].row ELSE users[j]
      BY <1>0, <3>1
    <3>4. QED BY <3>2, <3>3, <1>2 DEF AdminNeverBanned, Registered
  <2>2. CASE ~RegisterInsert(p)
    <3>1. \A j \in Ids : j \notin Registered => users'[j] = None
      BY <1>0, <2>2, UsersWriters DEF UpdateUser, BanWrite, Unban, Registered, Saving, SaveLabels,
         LocalsSet, At
    <3>2. QED BY <3>1, <1>2 DEF AdminNeverBanned, Registered
  <2>3. QED BY <2>1, <2>2
<1>5. ASSUME NEW q \in Procs
      PROVE  /\ req'[q].pc # "promote"
             /\ Saving(q)' => /\ req'[q].row.role = users'[req'[q].uid].role
                              /\ req'[q].row.role = "admin" => ~req'[q].row.banned
             /\ req'[q].pc = "banWrite" => users'[req'[q].uid].role # "admin"
             /\ req'[q].pc \in {"regName", "regInsert"} => ~req'[q].row.banned
  <2>1. CASE q # p
    <3>1. req'[q] = req[q]
      BY <1>0, <2>1, OneMoves
    <3>2. Saving(q) \/ req[q].pc = "banWrite" => req[q].uid \in Registered
      BY <1>0 DEF Saving, SaveLabels, LocalsSet
    <3>3. QED BY <3>1, <3>2, <1>2 DEF RolesInv, RolesKept, Saving, SaveLabels
  <2>2. CASE q = p
    <3>1. Saving(p)' => ReadsRow(p)
      BY <1>0, RowsRead DEF InsertsRow, RolesInv, RolesKept
    <3>2. Saving(p)' => /\ req'[p].pc # "promote"
                        /\ req'[p].row.role = users'[req'[p].uid].role
                        /\ req'[p].row.role = "admin" => ~req'[p].row.banned
      BY <1>1, <3>1 DEF ReadsRow, UserRow, RolesInv, AdminNeverBanned
    <3>3. ASSUME req'[p].pc = "banWrite" PROVE users'[req'[p].uid].role # "admin"
      <4>1. PICK target \in Registered :
              /\ users[target].role # "admin"
              /\ req' = [req EXCEPT ![p].pc = "banWrite", ![p].uid = target]
        BY <1>0, <3>3, Arrivals DEF BanRead
      <4>2. req'[p].uid = target
        BY <1>0, <4>1 DEF Request
      <4>3. QED BY <1>2, <4>1, <4>2
    <3>4. ASSUME req'[p].pc \in {"regName", "regInsert"} PROVE ~req'[p].row.banned
      <4>1. CASE RegisterEmail(p)
        BY <1>0, <4>1 DEF RegisterEmail, NoRequest
      <4>2. CASE RegisterName(p)
        BY <1>0, <4>2 DEF RegisterName, Goto, At, Request, RolesInv, RolesKept
      <4>3. QED BY <1>0, <3>4, <4>1, <4>2, Arrivals
    <3>5. QED BY <2>2, <3>2, <3>3, <3>4 DEF Saving, SaveLabels
  <2>3. QED BY <2>1, <2>2
<1>6. QED BY <1>3, <1>4, <1>5 DEF RolesKept

\* On an established forum the locals of every request agree with the roles.
LEMMA RolesInvHolds ==
    ASSUME Seed[FirstId] # None
    PROVE  Spec => []RolesInv
<1>1. Init => RolesInv
  BY TypeInit, SeedOK, ConstantsOK DEF Init, RolesInv, RolesKept, AdminNeverBanned, Registered,
     Saving, SaveLabels, NoRequest
<1>2. RolesInv /\ [Next]_vars => RolesInv'
  <2> SUFFICES ASSUME RolesInv, [Next]_vars PROVE RolesInv'
    OBVIOUS
  <2>1. TypeInv'
    BY TypeStep DEF RolesInv
  <2>2. CASE \E p \in Procs : Step(p)
    BY <2>1, <2>2, RolesStep DEF RolesInv
  <2>3. CASE Expire
    BY <2>1, <2>3 DEF Expire, RolesInv, RolesKept, AdminNeverBanned, Registered, Saving, SaveLabels
  <2>4. CASE UNCHANGED vars
    BY <2>1, <2>4 DEF vars, RolesInv, RolesKept, AdminNeverBanned, Registered, Saving, SaveLabels
  <2>5. QED BY <2>2, <2>3, <2>4 DEF Next, Step
<1>3. QED BY <1>1, <1>2, PTL DEF Spec

\* On a forum whose first account is registered when the server starts, no
\* admin is ever banned: a role is constant, so the check of the ban handler
\* still holds when it writes, and no stale row joins the two columns.
THEOREM AdminsAreNeverBanned ==
    ASSUME Seed[FirstId] # None
    PROVE  Spec => []AdminNeverBanned
<1>1. Spec => []RolesInv
  BY RolesInvHolds
<1>2. RolesInv => AdminNeverBanned
  BY DEF RolesInv
<1>3. QED BY <1>1, <1>2, PTL

\* On such a forum no request promotes an account, and the rows that requests
\* are about to write back give their accounts the roles they have.
THEOREM RolesAreKept ==
    ASSUME Seed[FirstId] # None
    PROVE  Spec => []RolesKept
<1>1. Spec => []RolesInv
  BY RolesInvHolds
<1>2. RolesInv => RolesKept
  BY DEF RolesInv
<1>3. QED BY <1>1, <1>2, PTL

-----------------------------------------------------------------------------
(* Requests in flight.                                                     *)

\* Whatever other requests wrote since, the locals of a request in flight fit
\* the tables: the accounts they name exist, the rows they hold carry the name
\* and e-mail of their account and a password chosen for it, the link being
\* consumed is the row whose key was read or is gone, and the old links are
\* gone while a new one is issued.
THEOREM RequestsInFlightFit == Spec => []InFlightOK
<1> DEFINE Inv == LinksInv /\ LinksHeld /\ IdentityKept /\ AuthorityInv
<1>1. Init => Inv
  BY TypeInit DEF Init, LinksInv, OwnLinksCleared, LinksFromDistinctRequests, LinksHeld, Consuming,
     IdentityKept, AuthorityInv, RowsChosen, PasswordsAreChosen, Registered, Registering,
     Saving, SaveLabels, NoRequest
<1>2. Inv /\ [Next]_vars => Inv'
  <2> SUFFICES ASSUME Inv, [Next]_vars PROVE Inv'
    OBVIOUS
  <2>1. TypeInv /\ TypeInv'
    BY TypeStep DEF LinksInv
  <2>2. CASE \E p \in Procs : Step(p)
    BY <2>1, <2>2, LinksStep, LinksHeldStep, IdentityStep, PasswordsStep, RowsChosenStep
       DEF LinksInv, AuthorityInv
  <2>3. CASE Expire
    BY <2>1, <2>3 DEF Expire, LinksInv, OwnLinksCleared, LinksFromDistinctRequests, IssuedType,
       LinksHeld, Consuming, IdentityKept, AuthorityInv, RowsChosen, PasswordsAreChosen,
       Registered, Registering, Saving, SaveLabels
  <2>4. CASE UNCHANGED vars
    BY <2>1, <2>4 DEF vars, LinksInv, OwnLinksCleared, LinksFromDistinctRequests, IssuedType,
       LinksHeld, Consuming, IdentityKept, AuthorityInv, RowsChosen, PasswordsAreChosen,
       Registered, Registering, Saving, SaveLabels
  <2>5. QED BY <2>2, <2>3, <2>4 DEF Next, Step
<1>3. Inv => InFlightOK
  BY DEF LinksInv, TypeInv, AuthorityInv, InFlightOK
<1>4. QED BY <1>1, <1>2, <1>3, PTL DEF Spec
=============================================================================
