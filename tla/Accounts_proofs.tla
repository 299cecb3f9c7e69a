--------------------------- MODULE Accounts_proofs ---------------------------
(***************************************************************************)
(* Proofs about Accounts, for any number of accounts, sessions, links,     *)
(* goroutines, and for any initial users table ConstantsOK and SeedOK allow.*)
(***************************************************************************)
EXTENDS Accounts, TLAPS

-----------------------------------------------------------------------------
(* Types, references and locals.                                           *)

\* The idle slot is a request.
LEMMA NoRequestType == NoRequest \in Request /\ LocalsSet(NoRequest)
BY DEF NoRequest, Request, PCs, LocalsSet, SaveLabels

\* NULL is no key and no row.
LEMMA NullIsNoRow ==
    /\ None \notin Ids /\ None \notin Sessions /\ None \notin Tokens
    /\ None \notin UserRow /\ None \notin SessionRow /\ None \notin TokenRow
    /\ FirstId \in Ids
BY ConstantsOK

TablesOK ==
    /\ users \in [Ids -> UserRow \cup {None}]
    /\ sess \in [Sessions -> SessionRow \cup {None}]
    /\ tokens \in [Tokens -> TokenRow \cup {None}]
    /\ minted \subseteq Sessions \cup Tokens
    /\ known \subseteq minted
    /\ expired \subseteq minted
    /\ chosen \subseteq Ids \X Passwords
    /\ proven \subseteq Ids
    /\ RefsOK

TypeInv == TypeOK /\ RefsOK /\ LocalsOK

\* A step of p that keeps the tables well formed, deletes no account, and
\* leaves p with proper locals keeps TypeInv.
LEMMA AdvanceOne ==
    ASSUME TypeInv, NEW p \in Procs, NEW r,
           req' = [req EXCEPT ![p] = r],
           r \in Request, LocalsSet(r)',
           TablesOK', Registered \subseteq Registered', minted \subseteq minted'
    PROVE  TypeInv'
<1>1. (TypeOK /\ RefsOK)'
  BY DEF TypeInv, TypeOK, TablesOK
<1>2. ASSUME NEW q \in Procs, q # p PROVE LocalsSet(req[q])'
  <2>1. req'[q] = req[q] /\ LocalsSet(req[q])
    BY <1>2 DEF TypeInv, LocalsOK, TypeOK
  <2>2. QED BY <2>1 DEF LocalsSet
<1>3. req'[p] = r
  BY DEF TypeInv, TypeOK
<1>4. QED BY <1>1, <1>2, <1>3 DEF TypeInv, LocalsOK

\* A step that changes no table keeps the tables well formed.
LEMMA TablesKept ==
    ASSUME TypeInv, UNCHANGED <<users, sess, tokens, minted, known, expired, chosen, proven>>
    PROVE  TablesOK' /\ Registered' = Registered /\ minted' = minted
BY DEF TypeInv, TypeOK, TablesOK, RefsOK, Registered

\* The middleware keeps the tables typed and referenced, and the locals set.
LEMMA TypeMiddleware ==
    ASSUME TypeInv, NEW p \in Procs, Middleware(p)
    PROVE  TypeInv'
<1> USE NullIsNoRow, NoRequestType
<1>1. CASE GetSession(p)
  <2>1. PICK k \in Kinds \cap CookieKinds, s \in known \cap Sessions : GetSession(p)!2!(k, s)
    BY <1>1 DEF GetSession
  <2>2. TablesOK' /\ Registered' = Registered /\ minted' = minted
    BY <1>1, TablesKept DEF GetSession
  <2>3. CASE sess[s] # None /\ s \notin expired
    <3>1. PICK r : /\ req' = [req EXCEPT ![p] = r]
                   /\ r = [NoRequest EXCEPT !.pc = "getUser", !.kind = k,
                                      !.cookie = s, !.uid = sess[s].user]
      BY <2>1, <2>3
    <3>2. sess[s].user \in Registered /\ sess[s].user \in Ids /\ s \in Sessions
      BY <2>3 DEF TypeInv, RefsOK, Registered
    <3>3. r \in Request /\ LocalsSet(r)'
      BY <2>2, <3>1, <3>2 DEF NoRequest, Request, PCs, LocalsSet, SaveLabels
    <3>4. QED BY <2>2, <3>1, <3>3, AdvanceOne
  <2>4. CASE sess[s] = None \/ s \in expired
    <3>1. PICK r : /\ req' = [req EXCEPT ![p] = r]
                   /\ r = [NoRequest EXCEPT !.pc = "logout", !.kind = k, !.cookie = s]
      BY <2>1, <2>4
    <3>2. r \in Request /\ LocalsSet(r)'
      BY <2>2, <3>1 DEF NoRequest, Request, PCs, LocalsSet, SaveLabels
    <3>3. QED BY <2>2, <3>1, <3>2, AdvanceOne
  <2>5. QED BY <2>3, <2>4
<1>2. CASE GetUser(p)
  <2>1. TablesOK' /\ Registered' = Registered /\ minted' = minted
    BY <1>2, TablesKept DEF GetUser
  <2>2. /\ req[p] \in Request /\ LocalsSet(req[p]) /\ At(p, "getUser")
        /\ users[req[p].uid] \in UserRow
    BY <1>2 DEF GetUser, At, TypeInv, TypeOK, LocalsOK, LocalsSet, SaveLabels, Registered
  <2>3. PICK r : /\ req' = [req EXCEPT ![p] = r]
                 /\ \/ r = [req[p] EXCEPT !.pc = "dropSession"]
                    \/ r = [req[p] EXCEPT !.pc = req[p].kind, !.role = users[req[p].uid].role]
    BY <1>2 DEF GetUser, Goto
  <2>4. req[p].kind \in CookieKinds /\ req[p].uid \in Registered /\ users[req[p].uid].role \in Roles
    BY <2>2 DEF At, LocalsSet, UserRow
  <2>5. r \in Request /\ r.uid = req[p].uid /\ r.pc \in CookieKinds \cup {"dropSession"}
    <3>1. CASE r = [req[p] EXCEPT !.pc = "dropSession"]
      BY <2>2, <3>1 DEF Request, PCs
    <3>2. CASE r = [req[p] EXCEPT !.pc = req[p].kind, !.role = users[req[p].uid].role]
      BY <2>2, <2>4, <3>2 DEF Request, PCs, CookieKinds
    <3>3. QED BY <2>3, <3>1, <3>2
  <2>6. LocalsSet(r)'
    BY <2>1, <2>4, <2>5 DEF LocalsSet, SaveLabels, CookieKinds
  <2>7. QED BY <2>1, <2>3, <2>5, <2>6, AdvanceOne
<1>3. CASE DropSession(p)
  <2>1. TablesOK' /\ Registered' = Registered /\ minted' = minted
    BY <1>3 DEF DropSession, DeleteSession, TypeInv, TypeOK, TablesOK, RefsOK, Registered
  <2>2. PICK r : req' = [req EXCEPT ![p] = r] /\ r \in {NoRequest, [req[p] EXCEPT !.pc = "logout"]}
    BY <1>3 DEF DropSession, Goto, Finish
  <2>3. r \in Request /\ LocalsSet(r)'
    BY <2>1, <2>2 DEF TypeInv, TypeOK, Request, PCs, LocalsSet, SaveLabels, NoRequest
  <2>4. QED BY <2>1, <2>2, <2>3, AdvanceOne
<1>4. QED BY <1>1, <1>2, <1>3 DEF Middleware

\* So do logout, the last statement of a revocation, and pages that only read.
LEMMA TypeSessionUse ==
    ASSUME TypeInv, NEW p \in Procs, SessionUse(p)
    PROVE  TypeInv'
<1>1. req' = [req EXCEPT ![p] = NoRequest]
  BY DEF SessionUse, Browse, Logout, Revoke, Finish
<1>2. TablesOK' /\ Registered' = Registered /\ minted' = minted
  BY DEF SessionUse, Browse, Logout, Revoke, DeleteSession, DeleteUserSessions,
         TypeInv, TypeOK, TablesOK, RefsOK, Registered
<1>3. LocalsSet(NoRequest)'
  BY DEF LocalsSet, NoRequest, SaveLabels
<1>4. QED BY <1>1, <1>2, <1>3, NoRequestType, AdvanceOne

\* Writing a row over an existing account keeps every table well formed.
LEMMA UpdateUserKeeps ==
    ASSUME TypeInv, NEW i \in Registered, NEW row \in UserRow, UpdateUser(i, row),
           UNCHANGED <<sess, tokens, minted, known, expired, chosen, proven>>
    PROVE  TablesOK' /\ Registered' = Registered /\ minted' = minted
<1>1. \A j \in Ids : users'[j] = IF j = i THEN row ELSE users[j]
  BY DEF UpdateUser, TypeInv, TypeOK, Registered
<1>2. Registered' = Registered
  BY <1>1, NullIsNoRow DEF Registered
<1>3. QED BY <1>2, NullIsNoRow DEF UpdateUser, TypeInv, TypeOK, TablesOK, RefsOK, Registered

\* The settings handlers keep it too.
LEMMA TypeSettings ==
    ASSUME TypeInv, NEW p \in Procs, Settings(p)
    PROVE  TypeInv'
<1>0. req[p] \in Request /\ LocalsSet(req[p])
  BY DEF TypeInv, TypeOK, LocalsOK
<1>1. CASE ProfileRead(p)
  <2>1. PICK r : /\ req' = [req EXCEPT ![p] = r]
                 /\ r = [req[p] EXCEPT !.pc = "profileSave", !.row = users[req[p].uid]]
    BY <1>1 DEF ProfileRead
  <2>2. TablesOK' /\ Registered' = Registered /\ minted' = minted
    BY <1>1, TablesKept DEF ProfileRead
  <2>3. r \in Request /\ LocalsSet(r)'
    BY <1>0, <1>1, <2>1, <2>2 DEF ProfileRead, At, TypeInv, TypeOK, Registered,
                            Request, PCs, LocalsSet, SaveLabels
  <2>4. QED BY <2>1, <2>2, <2>3, AdvanceOne
<1>2. CASE ProfileSave(p) \/ PasswordSave(p)
  <2>1. PICK r : /\ req' = [req EXCEPT ![p] = r]
                 /\ r \in {NoRequest, [req[p] EXCEPT !.pc = "revoke"]}
    BY <1>2 DEF ProfileSave, PasswordSave, Goto, Finish
  <2>2. req[p].uid \in Registered /\ req[p].row \in UserRow
    BY <1>0, <1>2 DEF ProfileSave, PasswordSave, At, LocalsSet, SaveLabels
  <2>3. TablesOK' /\ Registered' = Registered /\ minted' = minted
    BY <1>2, <2>2, UpdateUserKeeps DEF ProfileSave, PasswordSave
  <2>4. r \in Request /\ LocalsSet(r)'
    BY <1>0, <2>1, <2>2, <2>3, NoRequestType DEF Request, PCs, LocalsSet, SaveLabels, NoRequest
  <2>5. QED BY <2>1, <2>3, <2>4, AdvanceOne
<1>3. CASE PasswordRead(p)
  <2>0. PICK current \in Passwords, new \in Passwords : PasswordRead(p)!2!(current, new)
    BY <1>3 DEF PasswordRead
  <2>1. PICK r : /\ req' = [req EXCEPT ![p] = r]
                 /\ r = [req[p] EXCEPT !.pc = "passwordSave",
                                !.row = [users[req[p].uid] EXCEPT !.pw = new]]
    BY <2>0
  <2>2. req[p].uid \in Registered /\ r.row \in UserRow
    BY <1>0, <1>3, <2>1 DEF PasswordRead, At, LocalsSet, TypeInv, TypeOK, Registered, UserRow,
       Request
  <2>a. chosen' \subseteq Ids \X Passwords
    BY <2>0, <2>2 DEF TypeInv, TypeOK, Registered
  <2>3. TablesOK' /\ Registered' = Registered /\ minted' = minted
    BY <1>3, <2>2, <2>a DEF PasswordRead, TypeInv, TypeOK, TablesOK, RefsOK, Registered
  <2>4. r \in Request /\ LocalsSet(r)'
    BY <1>0, <2>1, <2>2, <2>3 DEF Registered, Request, PCs, LocalsSet, SaveLabels
  <2>5. QED BY <2>1, <2>3, <2>4, AdvanceOne
<1>4. QED BY <1>1, <1>2, <1>3 DEF Settings

\* So do ban and unban, which write one column of another account.
LEMMA TypeModeration ==
    ASSUME TypeInv, NEW p \in Procs, Moderation(p)
    PROVE  TypeInv'
<1>0. req[p] \in Request /\ LocalsSet(req[p])
  BY DEF TypeInv, TypeOK, LocalsOK
<1>1. CASE BanRead(p)
  <2>1. PICK target, r :
          /\ target \in Registered
          /\ req' = [req EXCEPT ![p] = r]
          /\ r = [req[p] EXCEPT !.pc = "banWrite", !.uid = target]
    BY <1>1 DEF BanRead
  <2>2. TablesOK' /\ Registered' = Registered /\ minted' = minted
    BY <1>1, TablesKept DEF BanRead
  <2>3. r \in Request /\ LocalsSet(r)'
    BY <1>0, <2>1, <2>2 DEF Registered, Request, PCs, LocalsSet, SaveLabels
  <2>4. QED BY <2>1, <2>2, <2>3, AdvanceOne
<1>2. CASE BanWrite(p) \/ Unban(p)
  <2>1. PICK r : /\ req' = [req EXCEPT ![p] = r]
                 /\ \/ r = NoRequest
                    \/ req[p].pc = "banWrite" /\ r = [req[p] EXCEPT !.pc = "revoke"]
    BY <1>2 DEF BanWrite, Unban, Goto, Finish, At
  <2>2. PICK i \in Registered, b \in BOOLEAN : users' = [users EXCEPT ![i].banned = b]
    <3>1. CASE BanWrite(p)
      <4>1. req[p].uid \in Registered
        BY <1>0, <3>1 DEF BanWrite, At, LocalsSet
      <4>2. QED BY <3>1, <4>1 DEF BanWrite
    <3>2. CASE Unban(p)
      BY <3>2 DEF Unban
    <3>3. QED BY <1>2, <3>1, <3>2
  <2>3. UpdateUser(i, [users[i] EXCEPT !.banned = b]) /\ [users[i] EXCEPT !.banned = b] \in UserRow
    BY <2>2 DEF UpdateUser, UserRow, TypeInv, TypeOK, Registered
  <2>4. PICK row : row = [users[i] EXCEPT !.banned = b]
    OBVIOUS
  <2>5. TablesOK' /\ Registered' = Registered /\ minted' = minted
    BY <1>2, <2>3, <2>4, UpdateUserKeeps DEF BanWrite, Unban
  <2>6. r \in Request /\ LocalsSet(r)'
    BY <1>0, <2>1, <2>5, NoRequestType DEF Request, PCs, LocalsSet, SaveLabels, NoRequest
  <2>7. QED BY <2>1, <2>5, <2>6, AdvanceOne
<1>3. QED BY <1>1, <1>2 DEF Moderation

\* Login and the opening of a session, which refers to an existing account.
LEMMA TypeLogin ==
    ASSUME TypeInv, NEW p \in Procs, Login(p)
    PROVE  TypeInv'
<1>0. req[p] \in Request /\ LocalsSet(req[p])
  BY DEF TypeInv, TypeOK, LocalsOK
<1>1. CASE LoginRead(p)
  <2>1. PICK i, r :
          /\ i \in Registered
          /\ req' = [req EXCEPT ![p] = r]
          /\ r = [NoRequest EXCEPT !.pc = "openSession", !.kind = "login",
                                   !.uid = i, !.row = users[i]]
    BY <1>1 DEF LoginRead
  <2>2. TablesOK' /\ Registered' = Registered /\ minted' = minted
    BY <1>1, TablesKept DEF LoginRead
  <2>3. r \in Request /\ LocalsSet(r)'
    BY <2>1, <2>2 DEF TypeInv, TypeOK, Registered, Request, PCs, LocalsSet, SaveLabels,
                      NoRequest, GuestKinds
  <2>4. QED BY <2>1, <2>2, <2>3, AdvanceOne
<1>2. CASE OpenSession(p)
  <2>1. PICK s \in Sessions \ minted : OpenSession(p)!2!(s)
    BY <1>2 DEF OpenSession
  <2>2. req[p].uid \in Registered /\ req[p].row \in UserRow
    BY <1>0, <1>2 DEF OpenSession, At, LocalsSet
  <2>3. sess' \in [Sessions -> SessionRow \cup {None}]
    <3>1. [user |-> req[p].uid, under |-> req[p].row.pw] \in SessionRow
      BY <2>2 DEF SessionRow, UserRow, Registered
    <3>2. QED BY <2>1, <3>1 DEF TypeInv, TypeOK
  <2>4. minted \subseteq minted' /\ minted' \subseteq Sessions \cup Tokens
        /\ known' \subseteq minted'
    BY <2>1 DEF TypeInv, TypeOK
  <2>5. Registered' = Registered
    BY <1>2 DEF OpenSession, Registered
  <2>6. \A x \in Sessions : sess'[x] # None => sess'[x].user \in Registered
    BY <2>1, <2>2 DEF TypeInv, TypeOK, RefsOK
  <2>7. TablesOK'
    BY <1>2, <2>3, <2>4, <2>5, <2>6 DEF OpenSession, TypeInv, TypeOK, TablesOK, RefsOK
  <2>8. PICK r : /\ req' = [req EXCEPT ![p] = r]
                 /\ r \in {NoRequest, [req[p] EXCEPT !.pc = "issueClear", !.cookie = s]}
    BY <2>1 DEF Finish
  <2>9. r \in Request /\ LocalsSet(r)'
    <3>1. CASE r = NoRequest
      BY <3>1, NoRequestType DEF LocalsSet, SaveLabels, NoRequest
    <3>2. CASE r = [req[p] EXCEPT !.pc = "issueClear", !.cookie = s]
      <4>1. s \in minted' /\ r \in Request
        BY <1>0, <2>1, <3>2 DEF Request, PCs
      <4>2. r.pc = "issueClear" /\ r.uid = req[p].uid /\ r.cookie = s
        BY <1>0, <3>2 DEF Request
      <4>3. QED BY <2>2, <2>5, <4>1, <4>2 DEF LocalsSet, SaveLabels
    <3>3. QED BY <2>8, <3>1, <3>2
  <2>10. QED BY <2>4, <2>5, <2>7, <2>8, <2>9, AdvanceOne
<1>3. QED BY <1>1, <1>2 DEF Login

\* Registration: a new row under an unused key.
LEMMA TypeRegister ==
    ASSUME TypeInv, NEW p \in Procs, Register(p)
    PROVE  TypeInv'
<1>0. req[p] \in Request /\ LocalsSet(req[p])
  BY DEF TypeInv, TypeOK, LocalsOK
<1>1. CASE RegisterEmail(p)
  <2>1. PICK name \in Names, email \in Emails, pw \in Passwords :
          RegisterEmail(p)!2!(name, email, pw)
    BY <1>1 DEF RegisterEmail
  <2>2. PICK row : row = [name |-> name, email |-> email, pw |-> pw, role |-> "member",
                          banned |-> FALSE, verified |-> FALSE]
    OBVIOUS
  <2>3. row \in UserRow
    BY <2>2 DEF UserRow, Roles
  <2>4. PICK r : /\ req' = [req EXCEPT ![p] = r]
                 /\ r = [NoRequest EXCEPT !.pc = "regName", !.kind = "register", !.row = row]
    BY <2>1, <2>2
  <2>5. TablesOK' /\ Registered' = Registered /\ minted' = minted
    BY <1>1, TablesKept DEF RegisterEmail
  <2>6. r \in Request /\ LocalsSet(r)'
    BY <2>3, <2>4, <2>5 DEF Request, PCs, LocalsSet, SaveLabels, NoRequest, GuestKinds
  <2>7. QED BY <2>4, <2>5, <2>6, AdvanceOne
<1>2. CASE RegisterName(p) \/ RegisterTaken(p)
  <2>1. PICK r : /\ req' = [req EXCEPT ![p] = r]
                 /\ \/ r = NoRequest
                    \/ req[p].pc = "regName" /\ r = [req[p] EXCEPT !.pc = "regInsert"]
    BY <1>2 DEF RegisterName, RegisterTaken, Goto, Finish, At
  <2>2. TablesOK' /\ Registered' = Registered /\ minted' = minted
    BY <1>2, TablesKept DEF RegisterName, RegisterTaken
  <2>3. r \in Request /\ LocalsSet(r)'
    BY <1>0, <2>1, <2>2, NoRequestType DEF Request, PCs, LocalsSet, SaveLabels, NoRequest
  <2>4. QED BY <2>1, <2>2, <2>3, AdvanceOne
<1>3. CASE RegisterInsert(p)
  <2>1. PICK i \in Ids \ Registered : RegisterInsert(p)!3!(i)
    BY <1>3 DEF RegisterInsert
  <2>2. req[p].row \in UserRow
    BY <1>0, <1>3 DEF RegisterInsert, At, LocalsSet
  <2>3. \A j \in Ids : users'[j] = IF j = i THEN req[p].row ELSE users[j]
    BY <2>1 DEF TypeInv, TypeOK
  <2>4. Registered' = Registered \cup {i}
    BY <2>2, <2>3, NullIsNoRow DEF Registered
  <2>5. users' \in [Ids -> UserRow \cup {None}]
    BY <2>1, <2>2 DEF TypeInv, TypeOK
  <2>a. chosen' \subseteq Ids \X Passwords
    BY <2>1, <2>2 DEF TypeInv, TypeOK, UserRow
  <2>6. TablesOK' /\ minted' = minted
    BY <1>3, <2>4, <2>5, <2>a DEF RegisterInsert, TypeInv, TypeOK, TablesOK, RefsOK
  <2>7. PICK r : /\ req' = [req EXCEPT ![p] = r]
                 /\ \/ r = [req[p] EXCEPT !.pc = "openSession", !.uid = i]
                    \/ r = [req[p] EXCEPT !.pc = "promote", !.uid = i,
                                          !.row = [req[p].row EXCEPT !.role = "admin"]]
    <3>1. CASE i = FirstId
      <4>1. req' = [req EXCEPT ![p].pc = "promote", ![p].uid = i,
                               ![p].row = [req[p].row EXCEPT !.role = "admin"]]
        BY <2>1, <3>1
      <4>2. QED BY <4>1
    <3>2. CASE i # FirstId
      <4>1. req' = [req EXCEPT ![p].pc = "openSession", ![p].uid = i]
        BY <2>1, <3>2
      <4>2. QED BY <4>1
    <3>3. QED BY <3>1, <3>2
  <2>8. [req[p].row EXCEPT !.role = "admin"] \in UserRow
    BY <2>2 DEF UserRow, Roles
  <2>9. r \in Request /\ r.row \in UserRow /\ r.uid = i /\ r.pc \in {"openSession", "promote"}
    <3>1. CASE r = [req[p] EXCEPT !.pc = "openSession", !.uid = i]
      BY <1>0, <2>1, <2>2, <3>1 DEF Request, PCs
    <3>2. CASE r = [req[p] EXCEPT !.pc = "promote", !.uid = i,
                                  !.row = [req[p].row EXCEPT !.role = "admin"]]
      BY <1>0, <2>1, <2>8, <3>2 DEF Request, PCs
    <3>3. QED BY <2>7, <3>1, <3>2
  <2>10. LocalsSet(r)'
    BY <2>1, <2>4, <2>9 DEF LocalsSet, SaveLabels
  <2>11. QED BY <2>4, <2>6, <2>7, <2>9, <2>10, AdvanceOne
<1>4. CASE Promote(p)
  <2>1. PICK r : /\ req' = [req EXCEPT ![p] = r]
                 /\ r = [req[p] EXCEPT !.pc = "openSession"]
    BY <1>4 DEF Promote, Goto
  <2>2. req[p].uid \in Registered /\ req[p].row \in UserRow
    BY <1>0, <1>4 DEF Promote, At, LocalsSet, SaveLabels
  <2>3. TablesOK' /\ Registered' = Registered /\ minted' = minted
    BY <1>4, <2>2, UpdateUserKeeps DEF Promote
  <2>4. r \in Request /\ LocalsSet(r)'
    BY <1>0, <2>1, <2>2, <2>3 DEF Request, PCs, LocalsSet, SaveLabels
  <2>5. QED BY <2>1, <2>3, <2>4, AdvanceOne
<1>5. QED BY <1>1, <1>2, <1>3, <1>4 DEF Register

\* Issuing a link: the tokens table changes, and always refers to the account.
LEMMA TypeIssue ==
    ASSUME TypeInv, NEW p \in Procs, Issue(p)
    PROVE  TypeInv'
<1>0. req[p] \in Request /\ LocalsSet(req[p])
  BY DEF TypeInv, TypeOK, LocalsOK
<1>1. CASE ForgotRead(p)
  <2>1. PICK i, r :
          /\ i \in Registered
          /\ req' = [req EXCEPT ![p] = r]
          /\ r = [NoRequest EXCEPT !.pc = "issueClear", !.kind = "forgot", !.uid = i]
    BY <1>1 DEF ForgotRead
  <2>2. TablesOK' /\ Registered' = Registered /\ minted' = minted
    BY <1>1, TablesKept DEF ForgotRead
  <2>3. r \in Request /\ LocalsSet(r)'
    BY <2>1, <2>2 DEF Registered, Request, PCs, LocalsSet, SaveLabels, NoRequest, GuestKinds
  <2>4. QED BY <2>1, <2>2, <2>3, AdvanceOne
<1>2. CASE IssueClear(p)
  <2>1. PICK r : req' = [req EXCEPT ![p] = r] /\ r = [req[p] EXCEPT !.pc = "issueCreate"]
    BY <1>2 DEF IssueClear, Goto
  <2>2. TablesOK' /\ Registered' = Registered /\ minted' = minted
    BY <1>2 DEF IssueClear, DeleteUserAuthTokensByType, TypeInv, TypeOK, TablesOK, RefsOK,
       Registered
  <2>3. r \in Request /\ LocalsSet(r)'
    BY <1>0, <1>2, <2>1, <2>2 DEF IssueClear, At, Request, PCs, LocalsSet, SaveLabels
  <2>4. QED BY <2>1, <2>2, <2>3, AdvanceOne
<1>3. CASE IssueCreate(p)
  <2>1. PICK t \in Tokens \ minted, n \in LinkIds : IssueCreate(p)!2!(t, n)
    BY <1>3 DEF IssueCreate
  <2>2. req[p].uid \in Registered /\ Delivered(p) \subseteq minted
    BY <1>0, <1>3 DEF IssueCreate, At, LocalsSet, Delivered
  <2>3. tokens' \in [Tokens -> TokenRow \cup {None}]
    <3>1. [id |-> n, user |-> req[p].uid, type |-> IssuedType(p), by |-> p] \in TokenRow
      BY <2>1, <2>2 DEF TokenRow, LinkIds, Registered, IssuedType, LinkTypes
    <3>2. QED BY <2>1, <3>1 DEF TypeInv, TypeOK
  <2>4. minted \subseteq minted' /\ minted' \subseteq Sessions \cup Tokens
        /\ known' \subseteq minted'
    BY <2>1, <2>2 DEF TypeInv, TypeOK
  <2>5. Registered' = Registered
    BY <1>3 DEF IssueCreate, Registered
  <2>6. \A x \in Tokens : tokens'[x] # None => tokens'[x].user \in Registered
    BY <2>1, <2>2 DEF TypeInv, TypeOK, RefsOK
  <2>7. TablesOK'
    BY <1>3, <2>3, <2>4, <2>5, <2>6 DEF IssueCreate, TypeInv, TypeOK, TablesOK, RefsOK
  <2>8. req' = [req EXCEPT ![p] = NoRequest] /\ LocalsSet(NoRequest)'
    BY <1>3 DEF IssueCreate, Finish, LocalsSet, NoRequest, SaveLabels
  <2>9. QED BY <2>4, <2>5, <2>7, <2>8, NoRequestType, AdvanceOne
<1>4. CASE IssueFails(p)
  <2>1. req' = [req EXCEPT ![p] = NoRequest] /\ LocalsSet(NoRequest)'
    BY <1>4 DEF IssueFails, Finish, LocalsSet, NoRequest, SaveLabels
  <2>2. Delivered(p) \subseteq minted
    BY <1>0, <1>4 DEF IssueFails, At, LocalsSet, Delivered
  <2>3. TablesOK' /\ Registered' = Registered /\ minted' = minted
    BY <1>4, <2>2 DEF IssueFails, TypeInv, TypeOK, TablesOK, RefsOK, Registered
  <2>4. QED BY <2>1, <2>3, NoRequestType, AdvanceOne
<1>5. QED BY <1>1, <1>2, <1>3, <1>4 DEF Issue

\* Consuming a link.
LEMMA TypeConsume ==
    ASSUME TypeInv, NEW p \in Procs, Consume(p)
    PROVE  TypeInv'
<1>0. req[p] \in Request /\ LocalsSet(req[p])
  BY DEF TypeInv, TypeOK, LocalsOK
<1>1. CASE TokenLookup(p)
  <2>1. PICK k \in Kinds \cap LinkTypes, t \in known \cap Tokens : TokenLookup(p)!2!(k, t)
    BY <1>1 DEF TokenLookup
  <2>2. tokens[t].user \in Registered /\ tokens[t] \in TokenRow
    BY <2>1 DEF UsableToken, TypeInv, TypeOK, RefsOK
  <2>3. PICK new \in IF k = "reset" THEN Passwords ELSE {None} : TokenLookup(p)!2!(k, t)!2!(new)
    BY <2>1
  <2>4. PICK r : /\ req' = [req EXCEPT ![p] = r]
                 /\ r = [NoRequest EXCEPT !.pc = "tokenUser", !.kind = k,
                                          !.uid = tokens[t].user, !.tok = t,
                                          !.link = tokens[t].id, !.new = new]
    BY <2>3
  <2>5. chosen' \subseteq Ids \X Passwords /\ proven' \subseteq Ids
    BY <2>2, <2>3 DEF TypeInv, TypeOK, Registered
  <2>6. TablesOK' /\ Registered' = Registered /\ minted' = minted
    BY <1>1, <2>5 DEF TokenLookup, TypeInv, TypeOK, TablesOK, RefsOK, Registered
  <2>7. tokens[t].id \in Nat /\ new \in Passwords \cup {None}
    BY <2>2, <2>3 DEF TokenRow
  <2>8. r \in Request
    BY <2>2, <2>4, <2>7 DEF Registered, Request, PCs, NoRequest, GuestKinds, LinkTypes
  <2>9. /\ r.pc = "tokenUser" /\ r.uid = tokens[t].user
        /\ r.tok \in Tokens /\ r.kind \in LinkTypes
        /\ r.kind = "reset" => r.new \in Passwords
    BY <2>3, <2>4 DEF NoRequest, LinkTypes
  <2>10. LocalsSet(r)'
    BY <2>2, <2>6, <2>9 DEF LocalsSet, SaveLabels
  <2>11. QED BY <2>4, <2>6, <2>8, <2>10, AdvanceOne
<1>2. CASE TokenUser(p)
  <2>1. req[p].uid \in Registered /\ users[req[p].uid] \in UserRow
    BY <1>0, <1>2 DEF TokenUser, At, LocalsSet, TypeInv, TypeOK, Registered
  <2>2. PICK row, r :
          /\ row \in UserRow
          /\ req' = [req EXCEPT ![p] = r]
          /\ \/ r = [req[p] EXCEPT !.pc = "tokenSave", !.row = row]
             \/ r = [req[p] EXCEPT !.pc = "tokenDelete"]
    <3>1. CASE req[p].kind = "reset"
      <4>1. req' = [req EXCEPT ![p].pc = "tokenSave",
                               ![p].row = [users[req[p].uid] EXCEPT !.pw = req[p].new]]
        BY <1>2, <3>1 DEF TokenUser
      <4>2. [users[req[p].uid] EXCEPT !.pw = req[p].new] \in UserRow
        BY <1>0, <1>2, <2>1, <3>1 DEF UserRow, TokenUser, At, LocalsSet
      <4>3. QED BY <4>1, <4>2
    <3>2. CASE req[p].kind # "reset" /\ ~users[req[p].uid].verified
      <4>1. req' = [req EXCEPT ![p].pc = "tokenSave",
                               ![p].row = [users[req[p].uid] EXCEPT !.verified = TRUE]]
        BY <1>2, <3>2 DEF TokenUser
      <4>2. [users[req[p].uid] EXCEPT !.verified = TRUE] \in UserRow
        BY <2>1 DEF UserRow
      <4>3. QED BY <4>1, <4>2
    <3>3. CASE req[p].kind # "reset" /\ users[req[p].uid].verified
      BY <1>2, <2>1, <3>3 DEF TokenUser, Goto
    <3>4. QED BY <3>1, <3>2, <3>3
  <2>3. TablesOK' /\ Registered' = Registered /\ minted' = minted
    BY <1>2, TablesKept DEF TokenUser
  <2>4. req[p].tok \in Tokens /\ req[p].kind \in LinkTypes
    BY <1>0, <1>2 DEF TokenUser, At, LocalsSet
  <2>5. /\ r \in Request /\ r.uid = req[p].uid /\ r.tok = req[p].tok /\ r.kind = req[p].kind
        /\ \/ r.pc = "tokenSave" /\ r.row \in UserRow
           \/ r.pc = "tokenDelete"
    <3>1. CASE r = [req[p] EXCEPT !.pc = "tokenSave", !.row = row]
      BY <1>0, <2>2, <3>1 DEF Request, PCs
    <3>2. CASE r = [req[p] EXCEPT !.pc = "tokenDelete"]
      BY <1>0, <3>2 DEF Request, PCs
    <3>3. QED BY <2>2, <3>1, <3>2
  <2>6. LocalsSet(r)'
    BY <2>1, <2>3, <2>4, <2>5 DEF LocalsSet, SaveLabels
  <2>7. QED BY <2>2, <2>3, <2>5, <2>6, AdvanceOne
<1>3. CASE TokenSave(p)
  <2>1. PICK r : req' = [req EXCEPT ![p] = r] /\ r = [req[p] EXCEPT !.pc = "tokenDelete"]
    BY <1>3 DEF TokenSave, Goto
  <2>2. req[p].uid \in Registered /\ req[p].row \in UserRow
    BY <1>0, <1>3 DEF TokenSave, At, LocalsSet, SaveLabels
  <2>3. TablesOK' /\ Registered' = Registered /\ minted' = minted
    BY <1>3, <2>2, UpdateUserKeeps DEF TokenSave
  <2>4. r \in Request /\ LocalsSet(r)'
    BY <1>0, <1>3, <2>1, <2>2, <2>3 DEF TokenSave, At, Request, PCs, LocalsSet, SaveLabels
  <2>5. QED BY <2>1, <2>3, <2>4, AdvanceOne
<1>4. CASE TokenDelete(p)
  <2>1. PICK r : /\ req' = [req EXCEPT ![p] = r]
                 /\ r \in {NoRequest, [req[p] EXCEPT !.pc = "revoke"]}
    BY <1>4 DEF TokenDelete, Goto, Finish
  <2>2. TablesOK' /\ Registered' = Registered /\ minted' = minted
    BY <1>4 DEF TokenDelete, TypeInv, TypeOK, TablesOK, RefsOK, Registered
  <2>3. req[p].uid \in Registered
    BY <1>0, <1>4 DEF TokenDelete, At, LocalsSet
  <2>4. r \in Request /\ LocalsSet(r)'
    BY <1>0, <2>1, <2>2, <2>3, NoRequestType DEF Request, PCs, LocalsSet, SaveLabels, NoRequest
  <2>5. QED BY <2>1, <2>2, <2>4, AdvanceOne
<1>5. QED BY <1>1, <1>2, <1>3, <1>4 DEF Consume

\* A request that gives up, and the clock.
LEMMA TypeGiveUp ==
    ASSUME TypeInv, NEW p \in Procs, GiveUp(p)
    PROVE  TypeInv'
<1>1. req' = [req EXCEPT ![p] = NoRequest] /\ LocalsSet(NoRequest)'
  BY DEF GiveUp, Refuse, Abort, Finish, LocalsSet, NoRequest, SaveLabels
<1>2. TablesOK' /\ Registered' = Registered /\ minted' = minted
  BY TablesKept DEF GiveUp, Refuse, Abort
<1>3. QED BY <1>1, <1>2, NoRequestType, AdvanceOne

LEMMA TypeExpire ==
    ASSUME TypeInv, Expire
    PROVE  TypeInv'
BY DEF Expire, TypeInv, TypeOK, RefsOK, LocalsOK, LocalsSet, Registered

LEMMA TypeStep ==
    ASSUME TypeInv, [Next]_vars
    PROVE  TypeInv'
<1>1. CASE Next
  BY <1>1, TypeMiddleware, TypeSessionUse, TypeSettings, TypeModeration, TypeLogin,
     TypeRegister, TypeIssue, TypeConsume, TypeGiveUp, TypeExpire DEF Next
<1>2. CASE UNCHANGED vars
  BY <1>2 DEF vars, TypeInv, TypeOK, RefsOK, LocalsOK, LocalsSet, Registered
<1>3. QED BY <1>1, <1>2

LEMMA TypeInit == Init => TypeInv
<1> SUFFICES ASSUME Init PROVE TypeInv
  OBVIOUS
<1>1. TypeOK
  <2>1. /\ \A i \in Ids : Seed[i] # None => Seed[i].pw \in Passwords
        /\ Seed \in [Ids -> UserRow \cup {None}]
    BY SeedOK DEF UserRow
  <2>2. chosen \subseteq Ids \X Passwords /\ proven \subseteq Ids
    BY <2>1 DEF Init
  <2>3. QED BY <2>1, <2>2, NoRequestType DEF Init, TypeOK
<1>2. RefsOK /\ LocalsOK
  BY NoRequestType DEF Init, RefsOK, LocalsOK
<1>3. QED BY <1>1, <1>2 DEF TypeInv

\* Every variable keeps its type; in particular no statement of a handler is
\* ever applied to an account that does not exist.
THEOREM TypeCorrect == Spec => []TypeOK
<1>1. TypeInv => TypeOK
  BY DEF TypeInv
<1>2. QED BY <1>1, TypeInit, TypeStep, PTL DEF Spec
=============================================================================
