------------------------------ MODULE Settings ------------------------------
(***************************************************************************)
(* The forum settings: one JSON value in one row of the settings table     *)
(* (store/sqlite/settings.go), read by every handler that needs them and   *)
(* rewritten as a whole by the admin form (handler/admin.go).  Two of the  *)
(* fields stand for all: the attachment types, which like every number     *)
(* keep their value when the form leaves them blank, and the keyword       *)
(* blocklist, which the form always replaces.                              *)
(***************************************************************************)
EXTENDS Integers, FiniteSets

CONSTANTS
    Types,     \* attachment types the program knows; all are allowed by default
    Words,     \* words an admin may block
    Users,     \* accounts that are signed in
    Exts,      \* image formats of avatars
    MaxPost,   \* bound on post keys
    MaxRow,    \* bound on attachment keys
    Files,     \* names the upload directory may give to files
    MaxFiles,  \* attachments accepted with one post
    Procs,     \* request goroutines
    KindSets,  \* the mixes of requests clients may send
    Faults,    \* TRUE: a statement or a write may fail, a request may be cut off
    None       \* SQL NULL / Go nil

PostIds == 1 .. MaxPost
RowIds == 1 .. MaxRow
AllKinds == {"settings", "submit", "edit", "view", "purge", "attach", "serve", "profile"}

Rules == [types : (SUBSET Types) \ {{}}, words : SUBSET Words]

ASSUME SettingsOK ==
    /\ Types # {}
    /\ MaxPost \in Nat /\ MaxRow \in Nat /\ MaxFiles \in Nat
    /\ KindSets \subseteq SUBSET AllKinds
    /\ Faults \in BOOLEAN
    /\ None \notin Types \cup Words \cup Users \cup Exts \cup Files
    /\ None \notin PostIds \cup RowIds \cup Rules

VARIABLES
    settings,  \* the row of the settings table, None before the first save
    kinds,     \* the requests clients send in this behaviour; never changes
    req        \* the request each goroutine is serving

settingsVars == <<settings, kinds, req>>

-----------------------------------------------------------------------------

\* rules: the settings a handler has read, or is about to save; throughout:
\* history, the words blocked ever since the request began, none once its read
\* of the settings has failed.  The other fields are those of Submissions.
Request(pcs) ==
    [pc : pcs, rules : Rules \cup {None}, throughout : SUBSET Words,
     word : Words \cup {None}, mod : BOOLEAN, held : BOOLEAN, post : PostIds \cup {None},
     type : Types \cup {None}, file : Files \cup {None}, left : 0 .. MaxFiles,
     user : Users \cup {None}, ext : Exts \cup {None}]

NoRequest == [pc |-> "idle", rules |-> None, throughout |-> {}, word |-> None,
              mod |-> FALSE, held |-> FALSE, post |-> None, type |-> None, file |-> None,
              left |-> 0, user |-> None, ext |-> None]

At(p, label) == req[p].pc = label
Finish(p) == req' = [req EXCEPT ![p] = NoRequest]
Start(p, kind, r) == At(p, "idle") /\ kind \in kinds /\ req' = [req EXCEPT ![p] = r]

Defaults == [types |-> Types, words |-> {}]
Stored == IF settings = None THEN Defaults ELSE settings

\* What GetSettings may return: any error of the query is taken for a missing
\* row and answered with the defaults.
GetSettings == {Stored} \cup (IF Faults THEN {Defaults} ELSE {})

-----------------------------------------------------------------------------
(* The admin form.  A form with an invalid field saves nothing.            *)

\* The settings read, with the fields of the form written over them.
Merged(old, types, words) ==
    [types |-> IF types = None THEN old.types ELSE types, words |-> words]

UpdateSettingsRead(p) ==
    /\ \E old \in GetSettings, words \in SUBSET Words,
          types \in ((SUBSET Types) \ {{}}) \cup {None} :
         Start(p, "settings",
               [NoRequest EXCEPT !.pc = "saveSettings", !.rules = Merged(old, types, words)])
    /\ UNCHANGED <<settings, kinds>>

\* A save replaces the row whole, whoever has saved it since it was read.
SaveSettings(p) ==
    /\ At(p, "saveSettings")
    /\ settings' = req[p].rules
    /\ req' = [q \in Procs |-> IF q = p THEN NoRequest
                               ELSE [req[q] EXCEPT !.throughout = @ \cap req[p].rules.words]]
    /\ UNCHANGED kinds

\* The row may have been saved before this start of the server.
SettingsInit ==
    /\ settings \in Rules \cup {None}
    /\ kinds \in KindSets
    /\ req = [p \in Procs |-> NoRequest]

SettingsNext(p) == UpdateSettingsRead(p) \/ SaveSettings(p)
=============================================================================
