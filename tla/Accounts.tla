------------------------------ MODULE Accounts ------------------------------
(***************************************************************************)
(* Accounts, sessions and e-mailed links of the forum (internal/auth and   *)
(* the handlers that drive it: handler/auth.go, handler/settings.go, the   *)
(* ban handlers of handler/user.go and handler/moderation.go, and the      *)
(* middleware that resolves a cookie, middleware/auth.go).                 *)
(*                                                                         *)
(* net/http runs every request in a goroutine of its own and every call of *)
(* the store is one auto-committed SQL statement, so a request is a        *)
(* process and one action is one statement, with the checks the handler    *)
(* makes on its result.  Two requests interleave between any two           *)
(* statements.  A handler that loads a row, changes a field and calls      *)
(* UpdateUser writes back EVERY column it loaded.                          *)
(***************************************************************************)
EXTENDS Integers, FiniteSets

CONSTANTS
    Ids,        \* primary keys of the users table
    FirstId,    \* the key SQLite hands out first, id = 1
    Names,      \* usernames
    Emails,     \* e-mail addresses, already trimmed and lower-cased
    Passwords,  \* passwords; a hash is identified with the password it accepts
    Sessions,   \* random session ids
    Tokens,     \* random raw tokens of verification and reset links
    Procs,      \* request goroutines
    Kinds,      \* the request kinds clients send
    Seed,       \* the users table when the server starts
    Faults,     \* TRUE: a request may be cut off (SQL error, cancel, crash)
    None        \* SQL NULL / Go nil

Roles == {"admin", "moderator", "member"}
CanModerate(role) == role \in {"admin", "moderator"}

LinkTypes == {"verify", "reset"}

\* The columns of a users row that some handler decides on.
UserRow == [name : Names, email : Emails, pw : Passwords, role : Roles,
            banned : BOOLEAN, verified : BOOLEAN]
\* Those that say who the account is.
Identity == [name : Names, email : Emails]
\* A sessions row; under is history: the password the login compared.
SessionRow == [user : Ids, under : Passwords]
\* An auth_tokens row and its key; by is history: the request slot that
\* created it.
TokenRow == [id : Nat, user : Ids, type : LinkTypes, by : Procs]

\* Every link takes a fresh random value, so there are never more keys.
LinkIds == 1 .. Cardinality(Tokens)

GuestKinds  == {"register", "login", "forgot", "reset", "verify"}
CookieKinds == {"browse", "logout", "profile", "password", "ban", "unban"}

Distinct(table) ==
    \A i, j \in Ids :
        /\ i # j /\ table[i] # None /\ table[j] # None
        => table[i].name # table[j].name /\ table[i].email # table[j].email

ASSUME ConstantsOK ==
    /\ FirstId \in Ids
    /\ Kinds \subseteq GuestKinds \cup CookieKinds
    /\ Faults \in BOOLEAN
    /\ Sessions \cap Tokens = {}
    /\ None \notin Ids \cup Sessions \cup Tokens
                  \cup UserRow \cup Identity \cup SessionRow \cup TokenRow

\* A table the program can have left behind: the first account exists before
\* any other, and it is the one Register promoted.
ASSUME SeedOK ==
    /\ Seed \in [Ids -> UserRow \cup {None}]
    /\ Distinct(Seed)
    /\ Seed[FirstId] = None => \A i \in Ids : Seed[i] = None
    /\ Seed[FirstId] # None => Seed[FirstId].role = "admin"
    /\ \A i \in Ids : Seed[i] # None /\ Seed[i].role = "admin"
                      => ~Seed[i].banned

VARIABLES
    users,    \* users table: id -> row
    sess,     \* sessions table: session id -> row
    tokens,   \* auth_tokens table: raw token (its hash) -> row
    minted,   \* random ids generated so far
    known,    \* random ids a client holds, as a cookie or from an e-mail
    expired,  \* random ids whose expires_at has passed
    chosen,   \* history: <<account, password>> that its holder chose
    proven,   \* history: accounts for which a live verification link was shown
    req       \* the request each goroutine is serving

vars == <<users, sess, tokens, minted, known, expired, chosen, proven, req>>

-----------------------------------------------------------------------------
(* Requests.                                                               *)

PCs == {"idle", "getUser", "dropSession", "browse", "logout",
        "profile", "profileSave", "password", "passwordSave",
        "ban", "banWrite", "unban", "regName", "regInsert", "promote",
        "openSession", "issueClear", "issueCreate",
        "tokenUser", "tokenSave", "tokenDelete", "revoke"}

\* The locals of a handler.  row is the *model.User it loaded (or is about to
\* insert), uid the account it works on, role the role the middleware read,
\* tok the link presented, link the key of the row it was found in, and new
\* the password of the reset form.
Request == [pc : PCs, kind : GuestKinds \cup CookieKinds \cup {None},
            cookie : Sessions \cup {None}, role : Roles \cup {None},
            uid : Ids \cup {None}, row : UserRow \cup {None},
            tok : Tokens \cup {None}, link : Nat \cup {None},
            new : Passwords \cup {None}]

NoRequest == [pc |-> "idle", kind |-> None, cookie |-> None, role |-> None,
              uid |-> None, row |-> None, tok |-> None, link |-> None,
              new |-> None]

Registered == {i \in Ids : users[i] # None}

At(p, label) == req[p].pc = label
Goto(p, label) == req' = [req EXCEPT ![p].pc = label]
Finish(p) == req' = [req EXCEPT ![p] = NoRequest]

\* The labels at which a request holds a row it will write back whole.
SaveLabels == {"profileSave", "passwordSave", "promote", "tokenSave"}
Saving(p) == req[p].pc \in SaveLabels

-----------------------------------------------------------------------------
(* Statements of the store that several handlers use.                      *)

\* UPDATE users SET <every column> WHERE id = i.
UpdateUser(i, row) == users' = [users EXCEPT ![i] = row]

DeleteSession(s) == sess' = [sess EXCEPT ![s] = None]

DeleteUserSessions(i) ==
    sess' = [s \in Sessions |->
                IF sess[s] # None /\ sess[s].user = i THEN None ELSE sess[s]]

\* Mutant: only links that have already expired are deleted.
DeleteExpiredOfType(i, type) ==
    tokens' = [t \in Tokens |->
                 IF /\ tokens[t] # None /\ tokens[t].user = i /\ tokens[t].type = type
                    /\ t \in expired
                 THEN None ELSE tokens[t]]

DeleteUserAuthTokensByType(i, type) ==
    tokens' = [t \in Tokens |->
                 IF tokens[t] # None /\ tokens[t].user = i /\ tokens[t].type = type
                 THEN None ELSE tokens[t]]

\* WHERE token_hash = ? AND type = ?, and nil for a row that has expired.
UsableToken(t, type) ==
    tokens[t] # None /\ tokens[t].type = type /\ t \notin expired

\* SQLite: auth_tokens.id is an INTEGER PRIMARY KEY without AUTOINCREMENT, so
\* a new row gets the key after the largest one in the table.
NextLinkId(n) ==
    LET ids == {tokens[t].id : t \in {u \in Tokens : tokens[u] # None}} IN
    /\ \A id \in ids : id < n
    /\ n = 1 \/ n - 1 \in ids

-----------------------------------------------------------------------------
(* The auth middleware: session cookie, session row, user row, ban check.  *)
(* A kind that ignores the viewer (login, register, links) is modelled      *)
(* without it: its cookie is a browse request that precedes it.            *)

GetSession(p) ==
    /\ At(p, "idle")
    /\ \E k \in Kinds \cap CookieKinds, s \in known \cap Sessions :
         \/ /\ sess[s] # None /\ s \notin expired
            /\ req' = [req EXCEPT ![p] = [NoRequest EXCEPT
                         !.pc = "getUser", !.kind = k, !.cookie = s,
                         !.uid = sess[s].user]]
         \/ \* No valid session: a guest, whose only effective request is logout.
            /\ sess[s] = None \/ s \in expired
            /\ k = "logout"
            /\ req' = [req EXCEPT ![p] = [NoRequest EXCEPT
                         !.pc = "logout", !.kind = k, !.cookie = s]]
    /\ UNCHANGED <<users, sess, tokens, minted, known, expired, chosen, proven>>

GetUser(p) ==
    /\ At(p, "getUser")
    /\ LET u == users[req[p].uid] IN
         \/ u.banned /\ Goto(p, "dropSession")
         \/ /\ ~u.banned
            /\ req' = [req EXCEPT ![p].pc = req[p].kind, ![p].role = u.role]
    /\ UNCHANGED <<users, sess, tokens, minted, known, expired, chosen, proven>>

\* A banned user's session row is deleted; the request goes on as a guest.
DropSession(p) ==
    /\ At(p, "dropSession")
    /\ DeleteSession(req[p].cookie)
    /\ IF req[p].kind = "logout" THEN Goto(p, "logout") ELSE Finish(p)
    /\ UNCHANGED <<users, tokens, minted, known, expired, chosen, proven>>

\* Any page that only reads.
Browse(p) ==
    /\ At(p, "browse")
    /\ Finish(p)
    /\ UNCHANGED <<users, sess, tokens, minted, known, expired, chosen, proven>>

Logout(p) ==
    /\ At(p, "logout")
    /\ DeleteSession(req[p].cookie)
    /\ Finish(p)
    /\ UNCHANGED <<users, tokens, minted, known, expired, chosen, proven>>

-----------------------------------------------------------------------------
(* Settings: the profile and password sections.                            *)

ProfileRead(p) ==
    /\ At(p, "profile")
    /\ req' = [req EXCEPT ![p].pc = "profileSave", ![p].row = users[req[p].uid]]
    /\ UNCHANGED <<users, sess, tokens, minted, known, expired, chosen, proven>>

\* Display name, signature and avatar are the only fields the handler sets;
\* they are not modelled, the columns it writes back with them are.
ProfileSave(p) ==
    /\ At(p, "profileSave")
    /\ UpdateUser(req[p].uid, req[p].row)
    /\ Finish(p)
    /\ UNCHANGED <<sess, tokens, minted, known, expired, chosen, proven>>

\* Mutant: the current password is not compared.
PasswordReadUnchecked(p) ==
    /\ At(p, "password")
    /\ \E new \in Passwords :
         req' = [req EXCEPT ![p].pc = "passwordSave",
                            ![p].row = [users[req[p].uid] EXCEPT !.pw = new]]
    /\ UNCHANGED <<users, sess, tokens, minted, known, expired, chosen, proven>>

PasswordRead(p) ==
    /\ At(p, "password")
    /\ \E current, new \in Passwords :
         /\ users[req[p].uid].pw = current
         /\ chosen' = chosen \cup {<<req[p].uid, new>>}
         /\ req' = [req EXCEPT ![p].pc = "passwordSave",
                               ![p].row = [users[req[p].uid] EXCEPT !.pw = new]]
    /\ UNCHANGED <<users, sess, tokens, minted, known, expired, proven>>

PasswordSave(p) ==
    /\ At(p, "passwordSave")
    /\ UpdateUser(req[p].uid, req[p].row)
    /\ Goto(p, "revoke")
    /\ UNCHANGED <<sess, tokens, minted, known, expired, chosen, proven>>

\* Shared last statement of a password change, a reset and a ban.
Revoke(p) ==
    /\ At(p, "revoke")
    /\ DeleteUserSessions(req[p].uid)
    /\ Finish(p)
    /\ UNCHANGED <<users, tokens, minted, known, expired, chosen, proven>>

-----------------------------------------------------------------------------
(* Moderation: ban and unban.                                              *)

\* Mutant: the target's role is not checked.
BanReadAnyRole(p) ==
    /\ At(p, "ban")
    /\ CanModerate(req[p].role)
    /\ \E target \in Registered :
         req' = [req EXCEPT ![p].pc = "banWrite", ![p].uid = target]
    /\ UNCHANGED <<users, sess, tokens, minted, known, expired, chosen, proven>>

BanRead(p) ==
    /\ At(p, "ban")
    /\ CanModerate(req[p].role)
    /\ \E target \in Registered :
         /\ users[target].role # "admin"
         /\ req' = [req EXCEPT ![p].pc = "banWrite", ![p].uid = target]
    /\ UNCHANGED <<users, sess, tokens, minted, known, expired, chosen, proven>>

BanWrite(p) ==
    /\ At(p, "banWrite")
    /\ users' = [users EXCEPT ![req[p].uid].banned = TRUE]
    /\ Goto(p, "revoke")
    /\ UNCHANGED <<sess, tokens, minted, known, expired, chosen, proven>>

\* The lookup by username only maps a name to its immutable id.
Unban(p) ==
    /\ At(p, "unban")
    /\ CanModerate(req[p].role)
    /\ \E target \in Registered : users' = [users EXCEPT ![target].banned = FALSE]
    /\ Finish(p)
    /\ UNCHANGED <<sess, tokens, minted, known, expired, chosen, proven>>

-----------------------------------------------------------------------------
(* Login and registration.                                                 *)

\* An unknown e-mail, a wrong password or a banned account ends the request
\* here, with no effect.
LoginRead(p) ==
    /\ At(p, "idle") /\ "login" \in Kinds
    /\ \E i \in Registered, email \in Emails, pw \in Passwords :
         /\ users[i].email = email
         /\ users[i].pw = pw
         /\ ~users[i].banned
         /\ req' = [req EXCEPT ![p] = [NoRequest EXCEPT !.pc = "openSession",
                       !.kind = "login", !.uid = i, !.row = users[i]]]
    /\ UNCHANGED <<users, sess, tokens, minted, known, expired, chosen, proven>>

\* Login answers with the cookie at once, Register after the verification mail.
OpenSession(p) ==
    /\ At(p, "openSession")
    /\ \E s \in Sessions \ minted :
         /\ sess' = [sess EXCEPT ![s] = [user |-> req[p].uid, under |-> req[p].row.pw]]
         /\ minted' = minted \cup {s}
         /\ \/ /\ req[p].kind = "login"
               /\ known' = known \cup {s}
               /\ Finish(p)
            \/ /\ req[p].kind = "register"
               /\ req' = [req EXCEPT ![p].pc = "issueClear", ![p].cookie = s]
               /\ UNCHANGED known
    /\ UNCHANGED <<users, tokens, expired, chosen, proven>>

EmailFree(email) == \A i \in Registered : users[i].email # email
NameFree(name) == \A i \in Registered : users[i].name # name

RegisterEmail(p) ==
    /\ At(p, "idle") /\ "register" \in Kinds
    /\ \E name \in Names, email \in Emails, pw \in Passwords :
         /\ EmailFree(email)
         /\ req' = [req EXCEPT ![p] = [NoRequest EXCEPT !.pc = "regName",
                       !.kind = "register",
                       !.row = [name |-> name, email |-> email, pw |-> pw,
                                role |-> "member", banned |-> FALSE,
                                verified |-> FALSE]]]
    /\ UNCHANGED <<users, sess, tokens, minted, known, expired, chosen, proven>>

RegisterName(p) ==
    /\ At(p, "regName")
    /\ NameFree(req[p].row.name)
    /\ Goto(p, "regInsert")
    /\ UNCHANGED <<users, sess, tokens, minted, known, expired, chosen, proven>>

\* Mutant: no UNIQUE constraint, only the two lookups.
RegisterInsertUnconstrained(p) ==
    /\ At(p, "regInsert")
    /\ \E i \in Ids \ Registered :
         /\ i = FirstId <=> Registered = {}
         /\ users' = [users EXCEPT ![i] = req[p].row]
         /\ req' = [req EXCEPT ![p].pc = "openSession", ![p].uid = i]
    /\ UNCHANGED <<sess, tokens, minted, known, expired, chosen, proven>>

\* Mutant: the id of the inserted row is not read back.
RegisterInsertNoId(p) ==
    /\ At(p, "regInsert")
    /\ EmailFree(req[p].row.email) /\ NameFree(req[p].row.name)
    /\ \E i \in Ids \ Registered :
         /\ i = FirstId <=> Registered = {}
         /\ users' = [users EXCEPT ![i] = req[p].row]
    /\ Goto(p, "openSession")
    /\ UNCHANGED <<sess, tokens, minted, known, expired, chosen, proven>>

\* The UNIQUE constraints of the users table decide the race of two
\* registrations; the id is FirstId exactly when the table is empty.
RegisterInsert(p) ==
    /\ At(p, "regInsert")
    /\ EmailFree(req[p].row.email) /\ NameFree(req[p].row.name)
    /\ \E i \in Ids \ Registered :
         /\ i = FirstId <=> Registered = {}
         /\ users' = [users EXCEPT ![i] = req[p].row]
         /\ chosen' = chosen \cup {<<i, req[p].row.pw>>}
         /\ \/ /\ i = FirstId
               /\ req' = [req EXCEPT ![p].pc = "promote", ![p].uid = i,
                                     ![p].row = [req[p].row EXCEPT !.role = "admin"]]
            \/ /\ i # FirstId
               /\ req' = [req EXCEPT ![p].pc = "openSession", ![p].uid = i]
    /\ UNCHANGED <<sess, tokens, minted, known, expired, proven>>

\* ErrUsernameTaken from the second lookup, or either sentinel from the
\* constraint.
RegisterTaken(p) ==
    /\ \/ At(p, "regName") /\ ~NameFree(req[p].row.name)
       \/ /\ At(p, "regInsert")
          /\ ~EmailFree(req[p].row.email) \/ ~NameFree(req[p].row.name)
    /\ Finish(p)
    /\ UNCHANGED <<users, sess, tokens, minted, known, expired, chosen, proven>>

Promote(p) ==
    /\ At(p, "promote")
    /\ UpdateUser(req[p].uid, req[p].row)
    /\ Goto(p, "openSession")
    /\ UNCHANGED <<sess, tokens, minted, known, expired, chosen, proven>>

-----------------------------------------------------------------------------
(* E-mailed links: issuing and consuming.                                  *)

\* The confirmation page is the same for an unknown or banned account, but
\* nothing is issued.
ForgotRead(p) ==
    /\ At(p, "idle") /\ "forgot" \in Kinds
    /\ \E i \in Registered, email \in Emails :
         /\ users[i].email = email
         /\ ~users[i].banned
         /\ req' = [req EXCEPT ![p] = [NoRequest EXCEPT !.pc = "issueClear",
                       !.kind = "forgot", !.uid = i]]
    /\ UNCHANGED <<users, sess, tokens, minted, known, expired, chosen, proven>>

IssuedType(p) == IF req[p].kind = "register" THEN "verify" ELSE "reset"

\* What the response hands over: Register sets its cookie even when issuing
\* or mailing the link failed.
Delivered(p) == IF req[p].kind = "register" THEN {req[p].cookie} ELSE {}

\* Mutant: a new link leaves the earlier ones alone.
IssueWithoutClear(p) ==
    /\ At(p, "issueClear")
    /\ Goto(p, "issueCreate")
    /\ UNCHANGED <<users, sess, tokens, minted, known, expired, chosen, proven>>

IssueClear(p) ==
    /\ At(p, "issueClear")
    /\ DeleteUserAuthTokensByType(req[p].uid, IssuedType(p))
    /\ Goto(p, "issueCreate")
    /\ UNCHANGED <<users, sess, minted, known, expired, chosen, proven>>

IssueCreate(p) ==
    /\ At(p, "issueCreate")
    /\ \E t \in Tokens \ minted, n \in LinkIds :
         /\ NextLinkId(n)
         /\ tokens' = [tokens EXCEPT
                ![t] = [id |-> n, user |-> req[p].uid, type |-> IssuedType(p),
                        by |-> p]]
         /\ minted' = minted \cup {t}
         /\ known' = known \cup {t} \cup Delivered(p)
    /\ Finish(p)
    /\ UNCHANGED <<users, sess, expired, chosen, proven>>

IssueFails(p) ==
    /\ Faults
    /\ At(p, "issueClear") \/ At(p, "issueCreate")
    /\ known' = known \cup Delivered(p)
    /\ Finish(p)
    /\ UNCHANGED <<users, sess, tokens, minted, expired, chosen, proven>>

\* The first statement of ConsumeReset, whose form brings the new password,
\* and of ConsumeVerification.  An unknown, expired or wrong-type token ends the
\* request with no effect.
TokenLookup(p) ==
    /\ At(p, "idle")
    /\ \E k \in Kinds \cap LinkTypes, t \in known \cap Tokens :
         /\ UsableToken(t, k)
         /\ \E new \in IF k = "reset" THEN Passwords ELSE {None} :
              /\ req' = [req EXCEPT ![p] = [NoRequest EXCEPT !.pc = "tokenUser",
                            !.kind = k, !.uid = tokens[t].user, !.tok = t,
                            !.link = tokens[t].id, !.new = new]]
              /\ \/ /\ k = "reset"
                    /\ chosen' = chosen \cup {<<tokens[t].user, new>>}
                    /\ UNCHANGED proven
                 \/ /\ k = "verify"
                    /\ proven' = proven \cup {tokens[t].user}
                    /\ UNCHANGED chosen
    /\ UNCHANGED <<users, sess, tokens, minted, known, expired>>

\* The second one.  An account already verified is not written again.
TokenUser(p) ==
    /\ At(p, "tokenUser")
    /\ LET u == users[req[p].uid] IN
         \/ /\ req[p].kind = "reset"
            /\ req' = [req EXCEPT ![p].pc = "tokenSave",
                                  ![p].row = [u EXCEPT !.pw = req[p].new]]
         \/ /\ req[p].kind = "verify" /\ ~u.verified
            /\ req' = [req EXCEPT ![p].pc = "tokenSave",
                                  ![p].row = [u EXCEPT !.verified = TRUE]]
         \/ /\ req[p].kind = "verify" /\ u.verified
            /\ Goto(p, "tokenDelete")
    /\ UNCHANGED <<users, sess, tokens, minted, known, expired, chosen, proven>>

TokenSave(p) ==
    /\ At(p, "tokenSave")
    /\ UpdateUser(req[p].uid, req[p].row)
    /\ Goto(p, "tokenDelete")
    /\ UNCHANGED <<sess, tokens, minted, known, expired, chosen, proven>>

\* Mutant: only a verification deletes its link, a reset relies on the next
\* request for a link to do it.
TokenDeleteVerifyOnly(p) ==
    /\ At(p, "tokenDelete")
    /\ tokens' = [t \in Tokens |->
                    IF /\ tokens[t] # None /\ tokens[t].id = req[p].link
                       /\ req[p].kind = "verify"
                    THEN None ELSE tokens[t]]
    /\ IF req[p].kind = "reset" THEN Goto(p, "revoke") ELSE Finish(p)
    /\ UNCHANGED <<users, sess, minted, known, expired, chosen, proven>>

\* DELETE ... WHERE id = ?: the key the look-up read, which by now may have
\* been handed out again to a newer link.
TokenDelete(p) ==
    /\ At(p, "tokenDelete")
    /\ tokens' = [t \in Tokens |->
                    IF tokens[t] # None /\ tokens[t].id = req[p].link
                    THEN None ELSE tokens[t]]
    /\ IF req[p].kind = "reset" THEN Goto(p, "revoke") ELSE Finish(p)
    /\ UNCHANGED <<users, sess, minted, known, expired, chosen, proven>>

-----------------------------------------------------------------------------
(* Early returns, failures and time.                                       *)

\* A handler refuses before it writes: a viewer who may not moderate, no such
\* target or an admin target, a wrong current password, a failed validation.
Refuse(p) ==
    /\ req[p].pc \in {"ban", "unban", "password", "profileSave"}
    /\ Finish(p)
    /\ UNCHANGED <<users, sess, tokens, minted, known, expired, chosen, proven>>

\* The finite stock of random values is used up.
NoRandomness(p) ==
    \/ At(p, "openSession") /\ Sessions \subseteq minted
    \/ At(p, "issueCreate") /\ Tokens \subseteq minted

\* A statement fails, the client goes away or the process stops: what was
\* written stays, the rest of the handler never runs.
Abort(p) ==
    /\ ~At(p, "idle")
    /\ Faults \/ NoRandomness(p)
    /\ Finish(p)
    /\ UNCHANGED <<users, sess, tokens, minted, known, expired, chosen, proven>>

Expire ==
    /\ \E x \in minted \ expired : expired' = expired \cup {x}
    /\ UNCHANGED <<users, sess, tokens, minted, known, chosen, proven, req>>

Init ==
    /\ users = Seed
    /\ sess = [s \in Sessions |-> None]
    /\ tokens = [t \in Tokens |-> None]
    /\ minted = {} /\ known = {} /\ expired = {}
    /\ chosen = {<<i, Seed[i].pw>> : i \in {j \in Ids : Seed[j] # None}}
    /\ proven = {i \in Ids : Seed[i] # None /\ Seed[i].verified}
    /\ req = [p \in Procs |-> NoRequest]

Middleware(p) == GetSession(p) \/ GetUser(p) \/ DropSession(p)
SessionUse(p) == Browse(p) \/ Logout(p) \/ Revoke(p)
Settings(p) == ProfileRead(p) \/ ProfileSave(p) \/ PasswordRead(p) \/ PasswordSave(p)
Moderation(p) == BanRead(p) \/ BanWrite(p) \/ Unban(p)
Login(p) == LoginRead(p) \/ OpenSession(p)
Register(p) == RegisterEmail(p) \/ RegisterName(p) \/ RegisterInsert(p)
               \/ RegisterTaken(p) \/ Promote(p)
Issue(p) == ForgotRead(p) \/ IssueClear(p) \/ IssueCreate(p) \/ IssueFails(p)
Consume(p) == TokenLookup(p) \/ TokenUser(p) \/ TokenSave(p) \/ TokenDelete(p)
GiveUp(p) == Refuse(p) \/ Abort(p)

Next ==
    \/ \E p \in Procs :
         \/ Middleware(p) \/ SessionUse(p) \/ Settings(p) \/ Moderation(p)
         \/ Login(p) \/ Register(p) \/ Issue(p) \/ Consume(p) \/ GiveUp(p)
    \/ Expire

Spec == Init /\ [][Next]_vars

-----------------------------------------------------------------------------
(* Properties.                                                             *)

TypeOK ==
    /\ users \in [Ids -> UserRow \cup {None}]
    /\ sess \in [Sessions -> SessionRow \cup {None}]
    /\ tokens \in [Tokens -> TokenRow \cup {None}]
    /\ minted \subseteq Sessions \cup Tokens
    /\ known \subseteq minted
    /\ expired \subseteq minted
    /\ chosen \subseteq Ids \X Passwords
    /\ proven \subseteq Ids
    /\ req \in [Procs -> Request]

\* No two accounts share a username or an e-mail address, whatever
\* registrations race between their lookups and their INSERT, and whatever
\* stale rows are written back over the table.
UniqueAccounts == Distinct(users)

IdentityOf(row) == [name |-> row.name, email |-> row.email]

\* Who the accounts of a users table are.
Directory(table) == [i \in Ids |-> IF table[i] = None THEN None ELSE IdentityOf(table[i])]

Registering(p) == req[p].pc \in {"regName", "regInsert"}

Registrar == INSTANCE Registry WITH
    First <- FirstId, Clients <- Procs, Opening <- Directory(Seed), MayFail <- Faults,
    directory <- Directory(users),
    asked <- [p \in Procs |-> IF Registering(p) THEN IdentityOf(req[p].row) ELSE None]

\* A registration, two look-ups and an INSERT with other requests between
\* them, is decided in one step: it adds an account whose name and address
\* nobody had, or is refused because one of them was taken.  No row written
\* back, however old, renames, moves or removes an account.
RegistersInOneStep == Registrar!Spec

\* The account that administers the forum cannot be shut out: no admin is
\* ever banned, although a ban checks the target's role in one statement and
\* writes in another, and although saves write role and ban together from a
\* row read earlier.
AdminNeverBanned ==
    \A i \in Registered : users[i].role = "admin" => ~users[i].banned

\* Two live links of the same type for one account were created by requests
\* that overlapped: a slot serves one request at a time, and a request that
\* ran after another one deleted that one's link before creating its own.
LinksFromDistinctRequests ==
    \A t1, t2 \in Tokens :
        /\ tokens[t1] # None /\ tokens[t2] # None
        /\ tokens[t1].user = tokens[t2].user
        /\ tokens[t1].type = tokens[t2].type
        /\ tokens[t1].by = tokens[t2].by
        => t1 = t2

\* The password that opens an account is one its holder chose: when it was
\* registered, in a password change that gave the password of that moment, or
\* with a reset link live at the time.  An account is verified only if a live
\* verification link of it was shown.  Rows of other accounts, rows read before
\* a change and links presented twice never put anything else there.  What a
\* stale row can do, and this allows, is to bring back an earlier choice:
\* ProfileSaveKeepsTheRest fails.
PasswordsAreChosen ==
    \A i \in Registered :
        /\ <<i, users[i].pw>> \in chosen
        /\ users[i].verified => i \in proven

\* A link that a request has used is dead once the request deleted it, and a
\* link that died never works again: although the row is deleted by the key
\* that a look-up read two statements before, which the next link may have
\* been given, and although two requests may use one link at the same time.
UsedLinksAreDead ==
    [][/\ \A p \in Procs : TokenDelete(p) => tokens'[req[p].tok] = None
       /\ \A t \in Tokens \cap minted : tokens[t] = None => tokens'[t] = None
      ]_vars

(* The inductive invariant of Accounts_proofs: what a request's locals say   *)
(* of the tables while other requests write to them.                         *)

\* Accounts are never deleted, so what refers to one keeps a referent.
RefsOK ==
    /\ \A s \in Sessions : sess[s] # None => sess[s].user \in Registered
    /\ \A t \in Tokens : tokens[t] # None => tokens[t].user \in Registered

\* The locals that the label of a request needs are set.
LocalsSet(r) ==
    /\ r.pc \notin {"idle", "logout", "regName", "regInsert"} => r.uid \in Registered
    /\ r.pc \in SaveLabels \cup {"regName", "regInsert", "openSession"}
       => r.row \in UserRow
    /\ r.pc = "getUser" => r.kind \in CookieKinds
    /\ r.pc \in {"tokenUser", "tokenSave", "tokenDelete"}
       => r.tok \in Tokens /\ r.kind \in LinkTypes
    /\ r.pc = "tokenUser" /\ r.kind = "reset" => r.new \in Passwords
    /\ r.pc \in {"issueClear", "issueCreate"} /\ r.kind = "register"
       => r.cookie \in minted

LocalsOK == \A p \in Procs : LocalsSet(req[p])

\* A row about to be written back has the name and e-mail of its account,
\* however old the row is: no statement changes either.
IdentityKept ==
    \A p \in Procs : Saving(p) => /\ req[p].row.name = users[req[p].uid].name
                                 /\ req[p].row.email = users[req[p].uid].email

\* On an established forum roles are constant and a row that says admin does
\* not say banned; the target of a ban in progress is no admin.
RolesKept ==
    /\ FirstId \in Registered
    /\ \A p \in Procs :
        /\ req[p].pc # "promote"
        /\ Saving(p) => /\ req[p].row.role = users[req[p].uid].role
                        /\ req[p].row.role = "admin" => ~req[p].row.banned
        /\ req[p].pc = "banWrite" => users[req[p].uid].role # "admin"
        /\ req[p].pc \in {"regName", "regInsert"} => ~req[p].row.banned

\* Between its two statements an issuing request owns no link of the type.
OwnLinksCleared ==
    \A p \in Procs, t \in Tokens :
        /\ req[p].pc = "issueCreate"
        /\ tokens[t] # None /\ tokens[t].by = p /\ tokens[t].user = req[p].uid
        => tokens[t].type # IssuedType(p)

\* A row about to be written has a password chosen for its account, and says
\* verified only of an account whose link was shown; the form of a reset and
\* the link of a verification are accounted for from the look-up on.
RowsChosen ==
    \A p \in Procs :
        /\ Saving(p) => /\ <<req[p].uid, req[p].row.pw>> \in chosen
                        /\ req[p].row.verified => req[p].uid \in proven
        /\ Registering(p) => ~req[p].row.verified
        /\ req[p].pc = "tokenUser" /\ req[p].kind = "reset"
           => <<req[p].uid, req[p].new>> \in chosen
        /\ req[p].pc = "tokenUser" /\ req[p].kind = "verify"
           => req[p].uid \in proven

Consuming(p) == req[p].pc \in {"tokenUser", "tokenSave", "tokenDelete"}

\* The link a request consumes is still the row whose key it read, or gone.
LinksHeld ==
    /\ \A t \in Tokens : tokens[t] # None => t \in minted
    /\ \A p \in Procs :
         Consuming(p) => /\ req[p].tok \in minted
                         /\ tokens[req[p].tok] # None
                            => tokens[req[p].tok].id = req[p].link

\* Every local of a request in flight still fits the tables it will be
\* written into, whatever ran since it was read.
InFlightOK ==
    RefsOK /\ LocalsOK /\ IdentityKept /\ OwnLinksCleared /\ RowsChosen /\ LinksHeld

\* Claim of handler/settings.go: the profile handler re-reads the user so
\* that its changes apply on top of the current row, that is, saving a
\* profile leaves the password, role, ban and verification as they are.
ProfileSaveKeepsTheRest ==
    [][\A p \in Procs : ProfileSave(p) => users' = users]_vars
=============================================================================
