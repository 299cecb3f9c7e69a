------------------------- MODULE Submissions_proofs -------------------------
(***************************************************************************)
(* Proofs about Submissions, for any blocklists, files, users and          *)
(* goroutines.                                                             *)
(***************************************************************************)
EXTENDS Submissions, TLAPS

-----------------------------------------------------------------------------
(* Types.                                                                  *)

\* The locals a handler uses are set where it uses them.
Fits(r) ==
    /\ r.pc \in {"saveSettings", "createPost", "attach", "attachRow", "editSave"}
         => r.rules \in Rules
    /\ r.pc \in {"attach", "attachRow", "editRules", "editSave"} => r.post \in PostIds
    /\ r.pc \in {"attach", "attachRow"} => r.left \in 1 .. MaxFiles
    /\ r.pc = "attachRow" => r.file \in Files /\ r.type \in Types
    /\ r.pc = "serve" => r.file \in Files
    /\ r.pc \in {"pictureCreate", "pictureWrite", "profileSave"} => r.user \in Users
    /\ r.pc \in {"pictureCreate", "pictureWrite"} => r.ext \in Exts

TypeInv == TypeOK /\ \A p \in Procs : Fits(req[p])

LEMMA NoRequestType == NoRequest \in Request(PCs) /\ Fits(NoRequest)
BY SettingsOK DEF NoRequest, Request, PCs, Fits

LEMMA RequestFields ==
    ASSUME NEW r \in Request(PCs)
    PROVE  /\ r.pc \in PCs /\ r.rules \in Rules \cup {None} /\ r.throughout \in SUBSET Words
           /\ r.word \in Words \cup {None} /\ r.mod \in BOOLEAN
           /\ r.held \in BOOLEAN /\ r.post \in PostIds \cup {None}
           /\ r.type \in Types \cup {None} /\ r.file \in Files \cup {None}
           /\ r.left \in 0 .. MaxFiles /\ r.user \in Users \cup {None}
           /\ r.ext \in Exts \cup {None}
BY DEF Request

\* One request goes on.
LEMMA RequestStep ==
    ASSUME TypeInv, NEW p \in Procs, NEW r \in Request(PCs), Fits(r),
           req' = [req EXCEPT ![p] = r]
    PROVE  /\ req' \in [Procs -> Request(PCs)] /\ \A q \in Procs : Fits(req'[q])
           /\ req'[p] = r /\ \A q \in Procs \ {p} : req'[q] = req[q]
<1>1. req \in [Procs -> Request(PCs)] /\ \A q \in Procs : Fits(req[q])
  BY DEF TypeInv, TypeOK
<1> HIDE DEF Fits, Request
<1>2. \A q \in Procs : req'[q] = IF q = p THEN r ELSE req[q]
  BY <1>1
<1>3. req' \in [Procs -> Request(PCs)]
  BY <1>1
<1>4. QED BY <1>1, <1>2, <1>3

LEMMA RulesType ==
    ASSUME TypeInv
    PROVE  /\ Stored \in Rules /\ GetSettings \subseteq Rules
           /\ \A rules \in GetSettings :
                Blocking(rules) \in SUBSET Words /\ Blocking(rules) \subseteq rules.words
<1>1. Defaults \in Rules
  BY SettingsOK DEF Defaults, Rules
<1>2. Stored \in Rules /\ GetSettings \subseteq {Stored, Defaults}
  BY <1>1 DEF Stored, GetSettings, TypeInv, TypeOK
<1>3. \A rules \in GetSettings : rules = Stored \/ Blocking(rules) = {}
  BY <1>2 DEF Blocking
<1>4. Stored.words \in SUBSET Words
  BY <1>2 DEF Rules
<1>5. \A rules \in GetSettings : Blocking(rules) = {} \/ Blocking(rules) = Stored.words
  BY DEF Blocking
<1>6. QED BY <1>1, <1>2, <1>3, <1>4, <1>5

\* What a handler begins with.
Begins(r) ==
    /\ r.pc \in {"saveSettings", "createPost", "editRules", "show", "purge", "serve",
                 "pictureCreate", "profileSave"}
    /\ r.pc = "createPost" => r.throughout \subseteq r.rules.words
    /\ r.pc = "editRules" => r.throughout \subseteq Stored.words
    /\ r.pc = "serve" => \E k \in Attachments : r.file = attachments[k].file
    /\ r.pc = "profileSave" => r.ext \in {avatar[r.user], None}

LEMMA EditRequestType ==
    ASSUME NEW i \in PostIds, NEW mod \in BOOLEAN, NEW held \in BOOLEAN,
           NEW word \in Words \cup {None}, NEW blocked \in SUBSET Words
    PROVE  [pc |-> "editRules", rules |-> None, throughout |-> blocked, word |-> word,
            mod |-> mod, held |-> held, post |-> i, type |-> None, file |-> None,
            left |-> 0, user |-> None, ext |-> None] \in Request(PCs)
BY SettingsOK DEF Request, PCs

LEMMA StartStep ==
    ASSUME TypeInv, NEW p \in Procs,
           \/ UpdateSettingsRead(p) \/ SubmitRead(p) \/ EditRead(p) \/ ThreadPage(p)
           \/ GetPostView(p) \/ PurgeRead(p) \/ ServeRead(p) \/ ProfileRead(p)
    PROVE  \E r \in Request(PCs) : Fits(r) /\ req' = [req EXCEPT ![p] = r] /\ Begins(r)
<1>1. CASE UpdateSettingsRead(p)
  <2>1. PICK rules \in Rules :
          req' = [req EXCEPT ![p] = [NoRequest EXCEPT !.pc = "saveSettings", !.rules = rules]]
    <3>1. PICK old \in GetSettings, words \in SUBSET Words,
               types \in ((SUBSET Types) \ {{}}) \cup {None} :
            Start(p, "settings", [NoRequest EXCEPT !.pc = "saveSettings",
                                                   !.rules = Merged(old, types, words)])
      BY <1>1, Zenon DEF UpdateSettingsRead
    <3>2. Merged(old, types, words) \in Rules
      BY RulesType DEF Merged, Rules
    <3>3. QED BY <3>1, <3>2, Zenon DEF Start
  <2>2. PICK r : r = [NoRequest EXCEPT !.pc = "saveSettings", !.rules = rules]
    OBVIOUS
  <2>3. r \in Request(PCs)
    BY <2>1, <2>2, NoRequestType DEF Request, PCs
  <2>4. Fits(r) /\ Begins(r)
    BY <2>1, <2>2 DEF NoRequest, Fits, Begins
  <2>5. QED BY <1>1, <2>1, <2>2, <2>3, <2>4
<1>2. CASE SubmitRead(p)
  <2>1. PICK rules \in GetSettings, word \in Words \cup {None}, n \in 0 .. MaxFiles :
          req' = [req EXCEPT ![p] = [NoRequest EXCEPT !.pc = "createPost", !.rules = rules,
                                       !.throughout = Blocking(rules),
                                       !.word = word, !.left = n]]
    BY <1>2 DEF SubmitRead, Start
  <2>2. PICK blocked : blocked = Blocking(rules)
    OBVIOUS
  <2>3. PICK r : r = [NoRequest EXCEPT !.pc = "createPost", !.rules = rules,
                                       !.throughout = blocked, !.word = word, !.left = n]
    OBVIOUS
  <2>4. rules \in Rules /\ blocked \in SUBSET Words /\ blocked \subseteq rules.words
    BY <2>2, RulesType
  <2>5. r \in Request(PCs)
    BY <2>3, <2>4, NoRequestType DEF Request, PCs
  <2>6. Fits(r) /\ Begins(r)
    BY <2>3, <2>4 DEF NoRequest, Fits, Begins
  <2>7. QED BY <2>1, <2>2, <2>3, <2>5, <2>6
<1>3. CASE EditRead(p)
  <2>1. PICK i \in Posts, mod \in BOOLEAN, word \in Words \cup {None} :
          req' = [req EXCEPT ![p] = [NoRequest EXCEPT !.pc = "editRules", !.post = i,
                                       !.mod = mod, !.word = word, !.held = posts[i].held,
                                       !.throughout = Stored.words]]
    BY <1>3 DEF EditRead, Start
  <2>0. posts[i].held \in BOOLEAN
    BY DEF Posts, TypeInv, TypeOK, PostRow
  <2>2. PICK blocked \in SUBSET Words, held \in BOOLEAN :
              blocked = Stored.words /\ (held <=> posts[i].held)
    BY <2>0, RulesType DEF Rules
  <2>3. PICK r : r = [NoRequest EXCEPT !.pc = "editRules", !.post = i, !.mod = mod,
                                       !.word = word, !.held = held, !.throughout = blocked]
    OBVIOUS
  <2>4. i \in PostIds /\ held \in BOOLEAN
    BY <2>2 DEF Posts, TypeInv, TypeOK, PostRow
  <2>5. blocked \in SUBSET Words /\ blocked \subseteq Stored.words
    BY <2>2, RulesType DEF Rules
  <2>6. r \in Request(PCs)
    <3>1. r = [pc |-> "editRules", rules |-> None, throughout |-> blocked, word |-> word,
               mod |-> mod, held |-> held, post |-> i, type |-> None, file |-> None,
               left |-> 0, user |-> None, ext |-> None]
      BY <2>3 DEF NoRequest
    <3>2. i \in PostIds
      BY <2>4
    <3>3. QED BY <3>1, <3>2, EditRequestType
  <2>7. Fits(r) /\ Begins(r)
    BY <2>3, <2>4, <2>5 DEF NoRequest, Fits, Begins
  <2>8. QED BY <2>1, <2>2, <2>3, <2>6, <2>7
<1>4. CASE PurgeRead(p)
  <2>1. PICK r : r = [NoRequest EXCEPT !.pc = "purge"]
    OBVIOUS
  <2>2. r \in Request(PCs) /\ Fits(r) /\ Begins(r)
    <3>1. r \in Request(PCs)
      BY <2>1, NoRequestType DEF Request, PCs
    <3>2. Fits(r) /\ Begins(r)
      BY <2>1 DEF NoRequest, Fits, Begins
    <3>3. QED BY <3>1, <3>2
  <2>3. QED BY <1>4, <2>1, <2>2 DEF PurgeRead, Start
<1>5. CASE ServeRead(p)
  <2>1. PICK k \in Attachments :
          req' = [req EXCEPT ![p] = [NoRequest EXCEPT !.pc = "serve",
                                                      !.file = attachments[k].file]]
    BY <1>5 DEF ServeRead, Start
  <2>2. PICK r : r = [NoRequest EXCEPT !.pc = "serve", !.file = attachments[k].file]
    OBVIOUS
  <2>3. attachments[k].file \in Files
    BY DEF Attachments, TypeInv, TypeOK, AttachmentRow
  <2>4. r \in Request(PCs) /\ Fits(r) /\ Begins(r)
    <3>1. r \in Request(PCs)
      BY <2>2, <2>3, NoRequestType DEF Request, PCs
    <3>2. Fits(r) /\ Begins(r)
      BY <2>2, <2>3 DEF NoRequest, Fits, Begins
    <3>3. QED BY <3>1, <3>2
  <2>5. QED BY <2>1, <2>2, <2>4
<1>6. CASE ProfileRead(p)
  <2>1. PICK u \in Users, ext \in Exts \cup {None}, pc \in {"pictureCreate", "profileSave"} :
          /\ pc = "pictureCreate" => ext \in Exts
          /\ pc = "profileSave" => ext \in {avatar[u], None}
          /\ req' = [req EXCEPT ![p] = [NoRequest EXCEPT !.pc = pc, !.user = u, !.ext = ext]]
    <3>1. \A u \in Users : avatar[u] \in Exts \cup {None}
      BY DEF TypeInv, TypeOK
    <3>2. QED BY <1>6, <3>1 DEF ProfileRead, Start
  <2>2. PICK r : r = [NoRequest EXCEPT !.pc = pc, !.user = u, !.ext = ext]
    OBVIOUS
  <2>3. r \in Request(PCs) /\ Fits(r) /\ Begins(r)
    <3>1. r \in Request(PCs)
      BY <2>1, <2>2, NoRequestType DEF Request, PCs
    <3>2. Fits(r) /\ Begins(r)
      BY <2>1, <2>2 DEF NoRequest, Fits, Begins
    <3>3. QED BY <3>1, <3>2
  <2>4. QED BY <2>1, <2>2, <2>3
<1>7. CASE ThreadPage(p) \/ GetPostView(p)
  <2>1. PICK i \in Posts, mod \in BOOLEAN :
          req' = [req EXCEPT ![p] = [NoRequest EXCEPT !.pc = "show", !.post = i, !.mod = mod,
                                                      !.held = posts[i].held]]
    BY <1>7 DEF ThreadPage, GetPostView, Start
  <2>2. PICK held : held = posts[i].held
    OBVIOUS
  <2>3. PICK r : r = [NoRequest EXCEPT !.pc = "show", !.post = i, !.mod = mod, !.held = held]
    OBVIOUS
  <2>4. i \in PostIds /\ held \in BOOLEAN
    BY <2>2 DEF Posts, TypeInv, TypeOK, PostRow
  <2>5. r \in Request(PCs)
    BY <2>3, <2>4, NoRequestType DEF Request, PCs
  <2>6. Fits(r) /\ Begins(r)
    BY <2>3 DEF NoRequest, Fits, Begins
  <2>7. QED BY <2>1, <2>2, <2>3, <2>5, <2>6
<1>8. QED BY <1>1, <1>2, <1>3, <1>4, <1>5, <1>6, <1>7

LEMMA FinishStep ==
    ASSUME NEW p \in Procs, Finish(p)
    PROVE  \E r \in Request(PCs) : Fits(r) /\ req' = [req EXCEPT ![p] = r] /\ r.pc = "idle"
BY NoRequestType DEF Finish, NoRequest

LEMMA NextFileStep ==
    ASSUME TypeInv, NEW p \in Procs, NextFile(p), req[p].pc \in {"attach", "attachRow"}
    PROVE  \E r \in Request(PCs) : /\ Fits(r) /\ r.pc \in {"idle", "attach"}
                                   /\ req' = [req EXCEPT ![p] = r]
<1>1. req \in [Procs -> Request(PCs)] /\ req[p] \in Request(PCs) /\ Fits(req[p])
  BY DEF TypeInv, TypeOK
<1>2. CASE req[p].left = 1
  BY <1>2, NoRequestType DEF NextFile, Finish, NoRequest
<1>3. CASE req[p].left # 1
  <2>1. PICK r : r = [req[p] EXCEPT !.pc = "attach", !.left = @ - 1, !.type = None,
                                    !.file = None]
    OBVIOUS
  <2>2. req' = [req EXCEPT ![p] = r]
    BY <1>1, <1>3, <2>1 DEF NextFile
  <2>3. req[p].left - 1 \in 1 .. MaxFiles /\ req[p].left - 1 \in 0 .. MaxFiles
    BY <1>1, <1>3, SettingsOK DEF Fits
  <2>4. req[p].rules \in Rules /\ req[p].post \in PostIds
    BY <1>1 DEF Fits
  <2>5. r \in Request(PCs) /\ r.pc = "attach" /\ r.rules = req[p].rules /\ r.post = req[p].post
        /\ r.left = req[p].left - 1
    BY <1>1, <2>1, <2>3 DEF Request, PCs
  <2>6. Fits(r)
    BY <2>3, <2>4, <2>5 DEF Fits
  <2>7. QED BY <2>2, <2>5, <2>6
<1>4. QED BY <1>2, <1>3

\* An edit goes on with the settings and with its hold, which is decided anew
\* unless a moderator writes.
LEMMA EditRulesStep ==
    ASSUME TypeInv, NEW p \in Procs, EditRules(p)
    PROVE  \E rules \in GetSettings, throughout \in SUBSET Words, held \in BOOLEAN :
             /\ throughout = req[p].throughout \cap Blocking(rules)
             /\ ~req[p].mod => (held <=> req[p].word \in rules.words)
             /\ req' = [req EXCEPT ![p] = [req[p] EXCEPT !.pc = "editSave", !.rules = rules,
                                             !.throughout = throughout, !.held = held]]
<1>1. req \in [Procs -> Request(PCs)] /\ req[p] \in Request(PCs)
  BY DEF TypeInv, TypeOK
<1>2. PICK rules \in GetSettings :
        req' = [req EXCEPT ![p].pc = "editSave", ![p].rules = rules,
                           ![p].throughout = @ \cap Blocking(rules),
                           ![p].held = IF req[p].mod THEN @ ELSE req[p].word \in rules.words]
  BY DEF EditRules
<1>3. req' = [req EXCEPT ![p] = [req[p] EXCEPT !.pc = "editSave", !.rules = rules,
                !.throughout = req[p].throughout \cap Blocking(rules),
                !.held = IF req[p].mod THEN req[p].held ELSE req[p].word \in rules.words]]
  BY <1>1, <1>2, Zenon DEF Request
<1>4. PICK throughout : throughout = req[p].throughout \cap Blocking(rules)
  OBVIOUS
<1>5. PICK held \in BOOLEAN :
        held = IF req[p].mod THEN req[p].held ELSE req[p].word \in rules.words
  <2>1. req[p].held \in BOOLEAN
    BY <1>1, RequestFields
  <2>2. (req[p].word \in rules.words) \in BOOLEAN
    OBVIOUS
  <2>3. (IF req[p].mod THEN req[p].held ELSE req[p].word \in rules.words) \in BOOLEAN
    BY <2>1, <2>2, Zenon
  <2>4. QED BY <2>3, Zenon
<1>6. ~req[p].mod => (held <=> req[p].word \in rules.words)
  BY <1>5
<1>7. req' = [req EXCEPT ![p] = [req[p] EXCEPT !.pc = "editSave", !.rules = rules,
                !.throughout = throughout, !.held = held]]
  BY <1>3, <1>4, <1>5
<1>8. throughout \in SUBSET Words
  BY <1>1, <1>4, RequestFields
<1>9. QED BY <1>4, <1>6, <1>7, <1>8

\* A handler goes on to another label, or ends.
LEMMA HandlerStep ==
    ASSUME TypeInv, NEW p \in Procs,
           \/ CreatePost(p) \/ EditRules(p) \/ EditSave(p) \/ Purge(p)
           \/ AttachRefuse(p) \/ AttachWrite(p) \/ CreateAttachment(p)
           \/ ServeAttachment(p) \/ ShowPost(p)
           \/ PictureCreate(p) \/ PictureWrite(p) \/ PictureFails(p) \/ ProfileSave(p)
           \/ Abort(p)
    PROVE  \E r \in Request(PCs) : Fits(r) /\ req' = [req EXCEPT ![p] = r]
<1>1. req \in [Procs -> Request(PCs)] /\ req[p] \in Request(PCs) /\ Fits(req[p])
  BY DEF TypeInv, TypeOK
<1>2. CASE CreatePost(p)
  <2>1. CASE req[p].left = 0
    BY <1>2, <2>1, FinishStep DEF CreatePost
  <2>2. CASE req[p].left # 0
    <3>1. PICK i \in PostIds : req' = [req EXCEPT ![p].pc = "attach", ![p].post = i]
      BY <1>2, <2>2 DEF CreatePost
    <3>2. PICK r : r = [req[p] EXCEPT !.pc = "attach", !.post = i]
      OBVIOUS
    <3>3. req' = [req EXCEPT ![p] = r]
      BY <1>1, <3>1, <3>2
    <3>4. r \in Request(PCs) /\ r.pc = "attach" /\ r.post = i /\ r.rules = req[p].rules
          /\ r.left = req[p].left
      BY <1>1, <3>2 DEF Request, PCs
    <3>5. req[p].left \in 1 .. MaxFiles /\ req[p].rules \in Rules
      BY <1>1, <1>2, <2>2, SettingsOK, RequestFields DEF CreatePost, At, Fits
    <3>6. Fits(r)
      BY <3>4, <3>5 DEF Fits
    <3>7. QED BY <3>3, <3>4, <3>6
  <2>3. QED BY <2>1, <2>2
<1>3. CASE EditRules(p)
  <2>1. PICK rules \in GetSettings, throughout \in SUBSET Words, held \in BOOLEAN :
          /\ throughout = req[p].throughout \cap Blocking(rules)
          /\ ~req[p].mod => (held <=> req[p].word \in rules.words)
          /\ req' = [req EXCEPT ![p] = [req[p] EXCEPT !.pc = "editSave", !.rules = rules,
                                          !.throughout = throughout, !.held = held]]
    BY <1>3, EditRulesStep, Zenon
  <2>2. PICK r : r = [req[p] EXCEPT !.pc = "editSave", !.rules = rules,
                                    !.throughout = throughout, !.held = held]
    OBVIOUS
  <2>3. rules \in Rules
    BY RulesType
  <2>4. throughout \in SUBSET Words
    BY <1>1, <2>1, RequestFields
  <2>5. r \in Request(PCs) /\ r.pc = "editSave" /\ r.rules = rules /\ r.post = req[p].post
    BY <1>1, <2>2, <2>3, <2>4 DEF Request, PCs
  <2>6. req[p].post \in PostIds
    BY <1>1, <1>3 DEF EditRules, At, Fits
  <2>7. Fits(r)
    BY <2>3, <2>5, <2>6 DEF Fits
  <2>8. QED BY <2>1, <2>2, <2>5, <2>7
<1>4. CASE EditSave(p) \/ Purge(p) \/ ServeAttachment(p) \/ ShowPost(p) \/ PictureFails(p)
           \/ ProfileSave(p) \/ Abort(p)
  BY <1>4, FinishStep DEF EditSave, Purge, ServeAttachment, ShowPost, PictureFails, ProfileSave,
     Abort
<1>5. CASE AttachRefuse(p) \/ CreateAttachment(p)
  BY <1>5, NextFileStep DEF AttachRefuse, CreateAttachment, At
<1>6. CASE AttachWrite(p)
  <2>1. PICK f \in Unused, type \in Allowed(p) :
          \/ req' = [req EXCEPT ![p].pc = "attachRow", ![p].type = type, ![p].file = f]
          \/ NextFile(p)
    BY <1>6 DEF AttachWrite
  <2>2. CASE NextFile(p)
    BY <1>6, <2>2, NextFileStep DEF AttachWrite, At
  <2>3. CASE req' = [req EXCEPT ![p].pc = "attachRow", ![p].type = type, ![p].file = f]
    <3>1. PICK r : r = [req[p] EXCEPT !.pc = "attachRow", !.type = type, !.file = f]
      OBVIOUS
    <3>2. req' = [req EXCEPT ![p] = r]
      BY <1>1, <2>3, <3>1
    <3>3. req[p].rules \in Rules /\ req[p].post \in PostIds /\ req[p].left \in 1 .. MaxFiles
      BY <1>1, <1>6 DEF AttachWrite, At, Fits
    <3>4. f \in Files /\ type \in Types
      BY <3>3 DEF Unused, Allowed, Rules
    <3>5. r \in Request(PCs) /\ r.pc = "attachRow" /\ r.rules = req[p].rules
          /\ r.post = req[p].post /\ r.left = req[p].left /\ r.file = f /\ r.type = type
      BY <1>1, <3>1, <3>4 DEF Request, PCs
    <3>6. Fits(r)
      BY <3>3, <3>4, <3>5 DEF Fits
    <3>7. QED BY <3>2, <3>5, <3>6
  <2>4. QED BY <2>1, <2>2, <2>3
<1>7. CASE PictureCreate(p) \/ PictureWrite(p)
  <2>1. PICK pc \in {"pictureWrite", "profileSave"} : req' = [req EXCEPT ![p].pc = pc]
    BY <1>7 DEF PictureCreate, PictureWrite
  <2>2. PICK r : r = [req[p] EXCEPT !.pc = pc]
    OBVIOUS
  <2>3. req' = [req EXCEPT ![p] = r]
    BY <1>1, <2>1, <2>2
  <2>4. req[p].user \in Users /\ req[p].ext \in Exts
    BY <1>1, <1>7 DEF PictureCreate, PictureWrite, Drawing, At, Fits
  <2>5. r \in Request(PCs) /\ r.pc = pc /\ r.user = req[p].user /\ r.ext = req[p].ext
    BY <1>1, <2>2 DEF Request, PCs
  <2>6. Fits(r)
    BY <2>1, <2>4, <2>5 DEF Fits
  <2>7. QED BY <2>3, <2>5, <2>6
<1>8. QED BY <1>2, <1>3, <1>4, <1>5, <1>6, <1>7

\* The tables and the directories.
TablesOK ==
    /\ settings \in Rules \cup {None}
    /\ posts \in [PostIds -> PostRow \cup {None}]
    /\ attachments \in [RowIds -> AttachmentRow \cup {None}]
    /\ files \in [Files -> FileStates \cup {None}]
    /\ avatar \in [Users -> Exts \cup {None}]
    /\ pictures \in [Users -> [Exts -> FileStates \cup {None}]]

LEMMA PictureType ==
    ASSUME TypeInv, NEW u \in Users, NEW e \in Exts, NEW state \in FileStates,
           pictures' = [pictures EXCEPT ![u][e] = state]
    PROVE  pictures' \in [Users -> [Exts -> FileStates \cup {None}]]
<1>1. pictures \in [Users -> [Exts -> FileStates \cup {None}]]
  BY DEF TypeInv, TypeOK
<1>2. pictures[u] \in [Exts -> FileStates \cup {None}]
  BY <1>1
<1>3. [pictures[u] EXCEPT ![e] = state] \in [Exts -> FileStates \cup {None}]
  BY <1>2
<1>4. QED BY <1>1, <1>3

\* The row of a new post.
LEMMA SubmittedRow ==
    ASSUME TypeInv, NEW p \in Procs, CreatePost(p)
    PROVE  \E i \in PostIds, row \in PostRow : posts' = [posts EXCEPT ![i] = row]
<1>1. req[p] \in Request(PCs) /\ Fits(req[p])
  BY DEF TypeInv, TypeOK
<1>2. PICK row : row = [word |-> req[p].word, held |-> req[p].word \in req[p].rules.words,
                        mod |-> FALSE, blocked |-> req[p].throughout]
  OBVIOUS
<1>3. PICK i \in PostIds : posts' = [posts EXCEPT ![i] = row]
  BY <1>2, Zenon DEF CreatePost
<1>4. row \in PostRow
  <2>1. req[p].throughout \in SUBSET Words /\ req[p].word \in Words \cup {None}
    BY <1>1, RequestFields
  <2>2. (req[p].word \in req[p].rules.words) \in BOOLEAN
    OBVIOUS
  <2>3. QED BY <1>2, <2>1, <2>2, Zenon DEF PostRow
<1>5. QED BY <1>3, <1>4

\* The row an edit writes.
LEMMA EditedRow ==
    ASSUME TypeInv, NEW p \in Procs, EditSave(p)
    PROVE  \E row \in PostRow :
             posts' = [i \in PostIds |->
                         IF i = req[p].post /\ i \in Posts THEN row ELSE posts[i]]
<1>1. req[p] \in Request(PCs) /\ Fits(req[p])
  BY DEF TypeInv, TypeOK
<1>2. PICK row : row = [word |-> req[p].word, held |-> req[p].held, mod |-> req[p].mod,
                        blocked |-> req[p].throughout]
  OBVIOUS
<1>3. row \in PostRow
  <2>1. /\ req[p].throughout \in SUBSET Words /\ req[p].word \in Words \cup {None}
        /\ req[p].held \in BOOLEAN /\ req[p].mod \in BOOLEAN
    BY <1>1, RequestFields
  <2>2. QED BY <1>2, <2>1, Zenon DEF PostRow
<1>4. posts' = [i \in PostIds |-> IF i = req[p].post /\ i \in Posts THEN row ELSE posts[i]]
  BY <1>2, Zenon DEF EditSave
<1>5. QED BY <1>3, <1>4

\* A handler keeps the types of the tables.
LEMMA TablesStep ==
    ASSUME TypeInv, NEW p \in Procs,
           \/ CreatePost(p) \/ EditRules(p) \/ EditSave(p) \/ Purge(p)
           \/ AttachRefuse(p) \/ AttachWrite(p) \/ CreateAttachment(p)
           \/ ServeAttachment(p) \/ ShowPost(p)
           \/ PictureCreate(p) \/ PictureWrite(p) \/ PictureFails(p) \/ ProfileSave(p)
           \/ Abort(p)
    PROVE  TablesOK' /\ UNCHANGED kinds
<1>1. TablesOK /\ req[p] \in Request(PCs) /\ Fits(req[p])
  BY DEF TypeInv, TypeOK, TablesOK
<1>2. CASE CreatePost(p)
  <2>1. PICK i \in PostIds, row \in PostRow : posts' = [posts EXCEPT ![i] = row]
    BY <1>2, SubmittedRow
  <2>2. UNCHANGED <<settings, kinds, attachments, files, avatar, pictures>>
    BY <1>2 DEF CreatePost
  <2>3. QED BY <1>1, <2>1, <2>2 DEF TablesOK
<1>3. CASE EditRules(p) \/ AttachRefuse(p) \/ ServeAttachment(p) \/ ShowPost(p) \/ Abort(p)
  BY <1>1, <1>3 DEF EditRules, AttachRefuse, ServeAttachment, ShowPost, Abort, TablesOK
<1>4. CASE EditSave(p)
  <2>1. PICK row \in PostRow :
          posts' = [i \in PostIds |-> IF i = req[p].post /\ i \in Posts THEN row ELSE posts[i]]
    BY <1>4, EditedRow
  <2>2. UNCHANGED <<settings, kinds, attachments, files, avatar, pictures>>
    BY <1>4 DEF EditSave
  <2>3. QED BY <1>1, <2>1, <2>2 DEF TablesOK
<1>5. CASE Purge(p)
  BY <1>1, <1>5 DEF Purge, CascadeAttachments, TablesOK
<1>6. CASE AttachWrite(p)
  <2>1. PICK f \in Files, state \in FileStates : files' = [files EXCEPT ![f] = state]
    <3>1. PICK f \in Unused, type \in Allowed(p), ok \in {TRUE, ~Faults} :
            IF ok THEN files' = [files EXCEPT ![f] = "whole"]
            ELSE files' = [files EXCEPT ![f] = "spoilt"]
      BY <1>6, Zenon DEF AttachWrite
    <3>2. "whole" \in FileStates /\ "spoilt" \in FileStates /\ f \in Files
      BY DEF FileStates, Unused
    <3>3. CASE ok
      BY <3>1, <3>2, <3>3, Zenon
    <3>4. CASE ~ok
      BY <3>1, <3>2, <3>4, Zenon
    <3>5. QED BY <3>3, <3>4
  <2>2. UNCHANGED <<settings, kinds, posts, attachments, avatar, pictures>>
    BY <1>6 DEF AttachWrite
  <2>3. QED BY <1>1, <2>1, <2>2 DEF TablesOK
<1>7. CASE CreateAttachment(p)
  <2>1. /\ req[p].post \in PostIds /\ req[p].file \in Files /\ req[p].type \in Types
        /\ req[p].rules.types \in SUBSET Types
    BY <1>1, <1>7 DEF CreateAttachment, At, Fits, Rules
  <2>2. [post |-> req[p].post, file |-> req[p].file, type |-> req[p].type,
         allowed |-> req[p].rules.types] \in AttachmentRow
    BY <2>1 DEF AttachmentRow
  <2>3. attachments' \in [RowIds -> AttachmentRow \cup {None}]
    BY <1>1, <1>7, <2>2 DEF CreateAttachment, TablesOK
  <2>4. UNCHANGED <<settings, kinds, posts, files, avatar, pictures>>
    BY <1>7 DEF CreateAttachment
  <2>5. QED BY <1>1, <2>3, <2>4 DEF TablesOK
<1>8. CASE PictureCreate(p) \/ PictureWrite(p) \/ PictureFails(p)
  <2>1. req[p].user \in Users /\ req[p].ext \in Exts
    BY <1>1, <1>8 DEF PictureCreate, PictureWrite, PictureFails, Drawing, At, Fits
  <2>2. PICK state \in FileStates :
          pictures' = [pictures EXCEPT ![req[p].user][req[p].ext] = state]
    BY <1>8 DEF PictureCreate, PictureWrite, PictureFails, FileStates
  <2>3. UNCHANGED <<settings, kinds, posts, attachments, files, avatar>>
    BY <1>8 DEF PictureCreate, PictureWrite, PictureFails
  <2>4. QED BY <1>1, <2>1, <2>2, <2>3, PictureType DEF TablesOK
<1>9. CASE ProfileSave(p)
  BY <1>1, <1>9, RequestFields DEF ProfileSave, TablesOK
<1>10. QED BY <1>2, <1>3, <1>4, <1>5, <1>6, <1>7, <1>8, <1>9

\* The steps there are.
Starts(p) ==
    \/ UpdateSettingsRead(p) \/ SubmitRead(p) \/ EditRead(p) \/ ThreadPage(p) \/ GetPostView(p)
    \/ PurgeRead(p) \/ ServeRead(p) \/ ProfileRead(p)

Handles(p) ==
    \/ CreatePost(p) \/ EditRules(p) \/ EditSave(p) \/ Purge(p)
    \/ AttachRefuse(p) \/ AttachWrite(p) \/ CreateAttachment(p)
           \/ ServeAttachment(p) \/ ShowPost(p)
    \/ PictureCreate(p) \/ PictureWrite(p) \/ PictureFails(p) \/ ProfileSave(p)
    \/ Abort(p)

LEMMA NextCases ==
    ASSUME Next
    PROVE  \/ \E p \in Procs :
                \/ Starts(p) /\ UNCHANGED <<settings, kinds, posts, attachments, files, avatar,
                                            pictures>>
                \/ SaveSettings(p) /\ UNCHANGED <<posts, attachments, files, avatar, pictures>>
                \/ Handles(p)
           \/ DeleteOrphanedAttachments
BY DEF Next, Administer, Submit, Edit, View, DeleteThread, Attach, Serve, SaveProfile,
       SettingsNext, Starts, Handles, UpdateSettingsRead, SubmitRead, EditRead, ThreadPage,
       GetPostView, PurgeRead, ServeRead, ProfileRead

\* A save of the settings ends its handler; to the others, what it no longer
\* blocks was not blocked throughout.
LEMMA SaveStep ==
    ASSUME TypeInv, NEW p \in Procs, SaveSettings(p)
    PROVE  /\ settings' \in Rules /\ settings' = req[p].rules
           /\ req' \in [Procs -> Request(PCs)] /\ \A q \in Procs : Fits(req'[q])
           /\ req'[p] = NoRequest
           /\ \A q \in Procs \ {p} : /\ req'[q].pc = req[q].pc /\ req'[q].rules = req[q].rules
                                     /\ req'[q].word = req[q].word /\ req'[q].mod = req[q].mod
                                     /\ req'[q].held = req[q].held /\ req'[q].post = req[q].post
                                     /\ req'[q].type = req[q].type /\ req'[q].file = req[q].file
                                     /\ req'[q].left = req[q].left /\ req'[q].user = req[q].user
                                     /\ req'[q].ext = req[q].ext
                                     /\ req'[q].throughout =
                                          req[q].throughout \cap req[p].rules.words
<1>1. req \in [Procs -> Request(PCs)] /\ \A q \in Procs : Fits(req[q])
  BY DEF TypeInv, TypeOK
<1>2. settings' \in Rules /\ settings' = req[p].rules
  BY <1>1 DEF SaveSettings, At, Fits
<1>3. req' = [q \in Procs |-> IF q = p THEN NoRequest
                              ELSE [req[q] EXCEPT !.throughout = @ \cap req[p].rules.words]]
  BY DEF SaveSettings
<1>4. ASSUME NEW q \in Procs \ {p}
      PROVE  /\ req'[q] \in Request(PCs)
             /\ req'[q].pc = req[q].pc /\ req'[q].rules = req[q].rules
             /\ req'[q].word = req[q].word /\ req'[q].mod = req[q].mod
             /\ req'[q].held = req[q].held /\ req'[q].post = req[q].post
             /\ req'[q].type = req[q].type /\ req'[q].file = req[q].file
             /\ req'[q].left = req[q].left /\ req'[q].user = req[q].user
             /\ req'[q].ext = req[q].ext
             /\ req'[q].throughout = req[q].throughout \cap req[p].rules.words
  <2>1. req[q] \in Request(PCs)
    BY <1>1
  <2>2. PICK left : left = req[q].throughout \cap req[p].rules.words
    OBVIOUS
  <2>3. PICK r : r = [req[q] EXCEPT !.throughout = left]
    OBVIOUS
  <2>4. req'[q] = r
    <3>1. [req[q] EXCEPT !.throughout = @ \cap req[p].rules.words] = r
      BY <2>1, <2>2, <2>3 DEF Request
    <3>2. QED BY <1>3, <3>1
  <2>5. left \in SUBSET Words
    BY <2>1, <2>2, RequestFields
  <2>6. r \in Request(PCs) /\ r.throughout = left
    BY <2>1, <2>3, <2>5 DEF Request
  <2>7. /\ r.pc = req[q].pc /\ r.rules = req[q].rules /\ r.word = req[q].word
        /\ r.mod = req[q].mod /\ r.held = req[q].held /\ r.post = req[q].post
        /\ r.type = req[q].type /\ r.file = req[q].file /\ r.left = req[q].left
        /\ r.user = req[q].user /\ r.ext = req[q].ext
    BY <2>1, <2>3 DEF Request
  <2>8. QED BY <2>2, <2>4, <2>6, <2>7
<1>5. \A q \in Procs \ {p} : Fits(req'[q])
  BY <1>1, <1>4 DEF Fits
<1>6. req'[p] = NoRequest
  BY <1>3
<1>7. \A q \in Procs : req'[q] \in Request(PCs) /\ Fits(req'[q])
  BY <1>4, <1>5, <1>6, NoRequestType
<1>8. req' \in [Procs -> Request(PCs)]
  BY <1>3, <1>7
<1>9. QED BY <1>2, <1>4, <1>6, <1>7, <1>8

LEMMA TypeStep ==
    ASSUME TypeInv, [Next]_vars
    PROVE  TypeInv'
<1>1. ASSUME NEW p \in Procs, Starts(p),
             UNCHANGED <<settings, kinds, posts, attachments, files, avatar, pictures>>
      PROVE  TypeInv'
  <2>1. \E r \in Request(PCs) : Fits(r) /\ req' = [req EXCEPT ![p] = r]
    BY <1>1, StartStep DEF Starts
  <2>2. req' \in [Procs -> Request(PCs)] /\ \A q \in Procs : Fits(req'[q])
    BY <2>1, RequestStep
  <2>3. QED BY <1>1, <2>2 DEF TypeInv, TypeOK
<1>2. ASSUME NEW p \in Procs, SaveSettings(p),
             UNCHANGED <<posts, attachments, files, avatar, pictures>>
      PROVE  TypeInv'
  <2>1. UNCHANGED kinds
    BY <1>2 DEF SaveSettings
  <2>2. QED BY <1>2, <2>1, SaveStep DEF TypeInv, TypeOK
<1>3. ASSUME NEW p \in Procs, Handles(p)
      PROVE  TypeInv'
  <2>1. \E r \in Request(PCs) : Fits(r) /\ req' = [req EXCEPT ![p] = r]
    BY <1>3, HandlerStep DEF Handles
  <2>2. req' \in [Procs -> Request(PCs)] /\ \A q \in Procs : Fits(req'[q])
    BY <2>1, RequestStep
  <2>3. TablesOK' /\ UNCHANGED kinds
    BY <1>3, TablesStep DEF Handles
  <2>4. QED BY <2>2, <2>3 DEF TypeInv, TypeOK, TablesOK
<1>4. CASE DeleteOrphanedAttachments
  BY <1>4 DEF DeleteOrphanedAttachments, TypeInv, TypeOK
<1>5. CASE UNCHANGED vars
  BY <1>5 DEF vars, settingsVars, TypeInv, TypeOK
<1>6. QED BY <1>1, <1>2, <1>3, <1>4, <1>5, NextCases

LEMMA TypeInvHolds == Spec => []TypeInv
<1>1. Init => TypeInv
  BY NoRequestType DEF Init, SettingsInit, TypeInv, TypeOK
<1>2. TypeInv /\ [Next]_vars => TypeInv'
  BY TypeStep
<1>3. QED BY <1>1, <1>2, PTL DEF Spec

\* Every table, file and request keeps its shape.
THEOREM TypeCorrect == Spec => []TypeOK
<1>1. TypeInv => TypeOK
  BY DEF TypeInv
<1>2. QED BY <1>1, TypeInvHolds, PTL

-----------------------------------------------------------------------------
(* The hold.                                                               *)

\* What an author is about to save is held if it contains a blocked word.
Decided(r) == r.pc = "editSave" /\ ~r.mod => (r.held <=> r.word \in r.rules.words)

\* What was blocked all the time is in the blocklist the request works with.
Checked(r) ==
    /\ r.pc \in {"createPost", "editSave"} => r.throughout \subseteq r.rules.words
    /\ r.pc = "editRules" => r.throughout \subseteq Stored.words

HoldInv == BlockedWordsAreHeld /\ \A p \in Procs : Decided(req[p]) /\ Checked(req[p])

LEMMA HoldStart ==
    ASSUME TypeInv, HoldInv, NEW p \in Procs, NEW r \in Request(PCs), Fits(r),
           req' = [req EXCEPT ![p] = r], UNCHANGED settings, Decided(r), Checked(r),
           BlockedWordsAreHeld'
    PROVE  HoldInv'
<1>1. req'[p] = r /\ \A q \in Procs \ {p} : req'[q] = req[q]
  BY RequestStep
<1>2. \A q \in Procs : Decided(req[q]) /\ Checked(req[q])
  BY DEF HoldInv
<1>3. \A q \in Procs : Decided(req'[q]) /\ Decided(req[q])'
  BY <1>1, <1>2 DEF Decided
<1>4. \A q \in Procs : Checked(req[q])'
  BY <1>1, <1>2 DEF Checked, Stored
<1>5. QED BY <1>3, <1>4 DEF HoldInv

\* A request that ends, or goes on to what decides nothing.
LEMMA HoldIdle ==
    ASSUME NEW r, r.pc \notin {"createPost", "editRules", "editSave"}
    PROVE  Decided(r) /\ Checked(r)
BY DEF Decided, Checked

LEMMA HoldStep ==
    ASSUME TypeInv, HoldInv, [Next]_vars
    PROVE  HoldInv'
<1>1. /\ req \in [Procs -> Request(PCs)] /\ posts \in [PostIds -> PostRow \cup {None}]
      /\ \A q \in Procs : Decided(req[q]) /\ Checked(req[q])
  BY DEF TypeInv, TypeOK, HoldInv
<1>2. ASSUME UNCHANGED posts
      PROVE  BlockedWordsAreHeld'
  BY <1>2 DEF HoldInv, BlockedWordsAreHeld, Posts
<1>3. ASSUME NEW p \in Procs, Finish(p), UNCHANGED settings, BlockedWordsAreHeld'
      PROVE  HoldInv'
  <2>1. PICK r \in Request(PCs) : Fits(r) /\ req' = [req EXCEPT ![p] = r] /\ r.pc = "idle"
    BY <1>3, FinishStep
  <2>2. QED BY <1>3, <2>1, HoldIdle, HoldStart
<1>4. ASSUME NEW p \in Procs, Starts(p), UNCHANGED <<settings, posts>>
      PROVE  HoldInv'
  <2>1. PICK r \in Request(PCs) : Fits(r) /\ req' = [req EXCEPT ![p] = r] /\ Begins(r)
    BY <1>4, StartStep DEF Starts
  <2>2. Decided(r) /\ Checked(r)
    BY <2>1 DEF Begins, Decided, Checked
  <2>3. QED BY <1>2, <1>4, <2>1, <2>2, HoldStart
<1>5. ASSUME NEW p \in Procs, SaveSettings(p), UNCHANGED posts
      PROVE  HoldInv'
  <2>1. settings' \in Rules /\ settings' = req[p].rules
    BY <1>5, SaveStep
  <2>2. Stored' = req[p].rules
    <3>1. settings' # None
      BY <2>1, SettingsOK
    <3>2. QED BY <2>1, <3>1 DEF Stored
  <2>3. ASSUME NEW q \in Procs \ {p}
        PROVE  Decided(req[q])' /\ Checked(req[q])'
    <3>1. /\ req'[q].pc = req[q].pc /\ req'[q].rules = req[q].rules
          /\ req'[q].word = req[q].word /\ req'[q].mod = req[q].mod
          /\ req'[q].held = req[q].held
          /\ req'[q].throughout = req[q].throughout \cap req[p].rules.words
      BY <1>5, SaveStep
    <3>2. Decided(req[q]) /\ Checked(req[q])
      BY <1>1
    <3>3. Decided(req[q])'
      BY <3>1, <3>2 DEF Decided
    <3>4. Checked(req[q])'
      BY <2>2, <3>1, <3>2 DEF Checked
    <3>5. QED BY <3>3, <3>4
  <2>4. Decided(req[p])' /\ Checked(req[p])'
    <3>1. req'[p].pc = "idle"
      BY <1>5, SaveStep DEF NoRequest
    <3>2. QED BY <3>1 DEF Decided, Checked
  <2>5. QED BY <1>2, <1>5, <2>3, <2>4 DEF HoldInv
<1>6. ASSUME NEW p \in Procs, CreatePost(p)
      PROVE  HoldInv'
  <2>1. PICK row : row = [word |-> req[p].word, held |-> req[p].word \in req[p].rules.words,
                          mod |-> FALSE, blocked |-> req[p].throughout]
    OBVIOUS
  <2>2. PICK i \in PostIds : posts' = [posts EXCEPT ![i] = row]
    BY <1>6, <2>1, Zenon DEF CreatePost
  <2>3. row.word \in row.blocked => row.held
    BY <1>1, <1>6, <2>1 DEF CreatePost, At, Checked
  <2>4. BlockedWordsAreHeld'
    BY <1>1, <2>2, <2>3 DEF HoldInv, BlockedWordsAreHeld, Posts
  <2>5. UNCHANGED settings
    BY <1>6 DEF CreatePost
  <2>6. CASE req[p].left = 0
    BY <1>3, <1>6, <2>4, <2>5, <2>6 DEF CreatePost
  <2>7. CASE req[p].left # 0
    <3>1. PICK r \in Request(PCs) : Fits(r) /\ req' = [req EXCEPT ![p] = r]
      BY <1>6, HandlerStep
    <3>2. req'[p] = r /\ req'[p].pc = "attach"
      BY <1>1, <1>6, <2>7, <3>1, RequestStep DEF CreatePost, Request
    <3>3. Decided(r) /\ Checked(r)
      BY <3>2, HoldIdle
    <3>4. QED BY <2>4, <2>5, <3>1, <3>3, HoldStart
  <2>8. QED BY <2>6, <2>7
<1>7. ASSUME NEW p \in Procs, EditRules(p)
      PROVE  HoldInv'
  <2>1. PICK rules \in GetSettings, throughout \in SUBSET Words, held \in BOOLEAN :
          /\ throughout = req[p].throughout \cap Blocking(rules)
          /\ ~req[p].mod => (held <=> req[p].word \in rules.words)
          /\ req' = [req EXCEPT ![p] = [req[p] EXCEPT !.pc = "editSave", !.rules = rules,
                                          !.throughout = throughout, !.held = held]]
    BY <1>7, EditRulesStep
  <2>2. PICK r \in Request(PCs) : Fits(r) /\ req' = [req EXCEPT ![p] = r]
    BY <1>7, HandlerStep
  <2>3. r = [req[p] EXCEPT !.pc = "editSave", !.rules = rules, !.throughout = throughout,
                           !.held = held]
    <3>1. req'[p] = r /\ p \in DOMAIN req
      BY <1>1, <2>2, RequestStep
    <3>2. QED BY <2>1, <3>1, Zenon
  <2>4. /\ r.pc = "editSave" /\ r.rules = rules /\ r.throughout = throughout
        /\ r.held = held /\ r.mod = req[p].mod /\ r.word = req[p].word
    BY <1>1, <2>3 DEF Request
  <2>5. throughout \subseteq rules.words
    BY <2>1, RulesType
  <2>6. Decided(r)
    BY <2>1, <2>4 DEF Decided
  <2>7. Checked(r)
    BY <2>4, <2>5 DEF Checked
  <2>8. UNCHANGED <<settings, posts>>
    BY <1>7 DEF EditRules
  <2>9. QED BY <1>2, <2>2, <2>6, <2>7, <2>8, HoldStart
<1>8. ASSUME NEW p \in Procs, EditSave(p)
      PROVE  HoldInv'
  <2>1. PICK row : row = [word |-> req[p].word, held |-> req[p].held, mod |-> req[p].mod,
                          blocked |-> req[p].throughout]
    OBVIOUS
  <2>2. posts' = [i \in PostIds |-> IF i = req[p].post /\ i \in Posts THEN row ELSE posts[i]]
    BY <1>8, <2>1, Zenon DEF EditSave
  <2>3. row.word \in row.blocked /\ ~row.mod => row.held
    BY <1>1, <1>8, <2>1 DEF EditSave, At, Decided, Checked
  <2>4. BlockedWordsAreHeld'
    BY <1>1, <2>2, <2>3 DEF HoldInv, BlockedWordsAreHeld, Posts
  <2>5. QED BY <1>3, <1>8, <2>4 DEF EditSave
<1>9. ASSUME NEW p \in Procs, Purge(p)
      PROVE  HoldInv'
  <2>1. BlockedWordsAreHeld'
    BY <1>9 DEF Purge, HoldInv, BlockedWordsAreHeld, Posts
  <2>2. QED BY <1>3, <1>9, <2>1 DEF Purge
<1>10. ASSUME NEW p \in Procs,
              \/ AttachRefuse(p) \/ AttachWrite(p) \/ CreateAttachment(p) \/ ServeAttachment(p)
              \/ ShowPost(p) \/ PictureCreate(p) \/ PictureWrite(p) \/ PictureFails(p)
              \/ ProfileSave(p) \/ Abort(p)
       PROVE  HoldInv'
  <2>1. PICK r \in Request(PCs) : Fits(r) /\ req' = [req EXCEPT ![p] = r]
    BY <1>10, HandlerStep
  <2>2. req'[p] = r
    BY <2>1, RequestStep
  <2>3. UNCHANGED <<posts, settings>>
    BY <1>10 DEF AttachRefuse, AttachWrite, CreateAttachment, ServeAttachment, ShowPost,
                 PictureCreate, PictureWrite, PictureFails, ProfileSave, Abort
  <2>4. req'[p].pc \notin {"createPost", "editRules", "editSave"}
    <3>1. CASE NextFile(p)
      BY <1>1, <3>1 DEF NextFile, Finish, NoRequest, Request
    <3>2. CASE Finish(p)
      BY <1>1, <3>2 DEF Finish, NoRequest
    <3>3. CASE PictureCreate(p) \/ PictureWrite(p)
      BY <1>1, <3>3 DEF PictureCreate, PictureWrite, Request
    <3>4. CASE AttachWrite(p)
      <4>1. PICK f, type : \/ req' = [req EXCEPT ![p].pc = "attachRow", ![p].type = type,
                                                 ![p].file = f]
                           \/ NextFile(p)
        BY <3>4 DEF AttachWrite
      <4>2. QED BY <1>1, <3>1, <4>1 DEF Request
    <3>5. QED BY <1>10, <3>1, <3>2, <3>3, <3>4 DEF AttachRefuse, CreateAttachment,
            ServeAttachment, ShowPost, PictureFails, ProfileSave, Abort
  <2>5. Decided(r) /\ Checked(r)
    BY <2>2, <2>4, HoldIdle
  <2>6. QED BY <1>2, <2>1, <2>3, <2>5, HoldStart
<1>11. CASE DeleteOrphanedAttachments \/ UNCHANGED vars
  <2>1. UNCHANGED <<settings, posts, req>>
    BY <1>11 DEF DeleteOrphanedAttachments, vars, settingsVars
  <2>2. \A q \in Procs : Decided(req[q])' /\ Checked(req[q])'
    BY <1>1, <2>1 DEF Decided, Checked, Stored
  <2>3. QED BY <1>2, <2>1, <2>2 DEF HoldInv
<1>12. QED BY <1>4, <1>5, <1>6, <1>7, <1>8, <1>9, <1>10, <1>11, NextCases DEF Handles

\* A word that was blocked ever since a request began is not let through by it
\* unless a moderator writes or its read of the settings failed, whatever edits
\* and saves of the settings overlap.
THEOREM HoldsAreDecided == Spec => []BlockedWordsAreHeld
<1>1. Init => HoldInv
  BY DEF Init, SettingsInit, HoldInv, BlockedWordsAreHeld, Posts, Decided, Checked, NoRequest
<1>2. TypeInv /\ HoldInv /\ [Next]_vars => HoldInv'
  BY HoldStep
<1>3. HoldInv => BlockedWordsAreHeld
  BY DEF HoldInv
<1>4. QED BY <1>1, <1>2, <1>3, TypeInvHolds, PTL DEF Spec

-----------------------------------------------------------------------------
(* Attachments.                                                            *)

\* The file an upload has written, and has not named in a row yet, is its own.
Written(p) ==
    At(p, "attachRow") =>
      /\ files[req[p].file] = "whole" /\ req[p].type \in req[p].rules.types
      /\ \A k \in Attachments : attachments[k].file # req[p].file
      /\ \A q \in Procs \ {p} : At(q, "attachRow") => req[q].file # req[p].file

FileInv == AttachmentsAreWhole /\ \A p \in Procs : Written(p)

\* No file is written, no row comes, and those whose post goes go along.
LEMMA FilesStay ==
    ASSUME TypeInv, FileInv, UNCHANGED files,
           \A k \in Attachments' : /\ k \in Attachments /\ attachments'[k] = attachments[k]
                                   /\ attachments[k].post \in Posts',
           \A q \in Procs :
             /\ req'[q].pc = "attachRow" =>
                  /\ req[q].pc = "attachRow" /\ req'[q].file = req[q].file
                  /\ req'[q].type = req[q].type /\ req'[q].rules = req[q].rules
             /\ req'[q].pc = "serve" => files[req'[q].file] = "whole"
    PROVE  FileInv'
<1>1. AttachmentsAreWhole'
  BY DEF FileInv, AttachmentsAreWhole, At
<1>2. \A p \in Procs : Written(p)'
  BY DEF FileInv, Written, At
<1>3. QED BY <1>1, <1>2 DEF FileInv

\* As FilesStay, of one request.
LEMMA FilesStayOne ==
    ASSUME TypeInv, FileInv, UNCHANGED files,
           \A k \in Attachments' : /\ k \in Attachments /\ attachments'[k] = attachments[k]
                                   /\ attachments[k].post \in Posts',
           NEW p \in Procs, NEW r \in Request(PCs), Fits(r), req' = [req EXCEPT ![p] = r],
           r.pc # "attachRow", r.pc = "serve" => files[r.file] = "whole"
    PROVE  FileInv'
<1>1. req'[p] = r /\ \A q \in Procs \ {p} : req'[q] = req[q]
  BY RequestStep
<1>2. \A q \in Procs : req[q].pc = "serve" => files[req[q].file] = "whole"
  BY DEF FileInv, AttachmentsAreWhole, At
<1>3. \A q \in Procs :
        /\ req'[q].pc = "attachRow" =>
             /\ req[q].pc = "attachRow" /\ req'[q].file = req[q].file
             /\ req'[q].type = req[q].type /\ req'[q].rules = req[q].rules
        /\ req'[q].pc = "serve" => files[req'[q].file] = "whole"
  BY <1>1, <1>2
<1>4. QED BY <1>3, FilesStay

LEMMA RowsStay ==
    ASSUME FileInv, UNCHANGED attachments, Posts \subseteq Posts'
    PROVE  \A k \in Attachments' : /\ k \in Attachments /\ attachments'[k] = attachments[k]
                                   /\ attachments[k].post \in Posts'
BY DEF FileInv, AttachmentsAreWhole, Attachments

LEMMA FilesUpload ==
    ASSUME TypeInv, FileInv, NEW p \in Procs, AttachWrite(p)
    PROVE  FileInv'
<1>1. /\ req \in [Procs -> Request(PCs)] /\ req[p] \in Request(PCs)
      /\ files \in [Files -> FileStates \cup {None}] /\ req[p].pc = "attach"
      /\ UNCHANGED <<posts, attachments>>
  BY DEF TypeInv, TypeOK, AttachWrite, At
<1>2. /\ \A k \in Attachments : /\ files[attachments[k].file] = "whole"
                                /\ attachments[k].file \in Files
      /\ \A q \in Procs : At(q, "attachRow") \/ At(q, "serve") =>
           files[req[q].file] = "whole" /\ req[q].file \in Files
  BY DEF FileInv, AttachmentsAreWhole, Written, Attachments, TypeInv, TypeOK, AttachmentRow, Fits,
         At
<1>3. PICK f \in Unused, type \in Allowed(p), ok \in {TRUE, ~Faults} :
        IF ok
        THEN /\ files' = [files EXCEPT ![f] = "whole"]
             /\ req' = [req EXCEPT ![p].pc = "attachRow", ![p].type = type, ![p].file = f]
        ELSE /\ files' = [files EXCEPT ![f] = "spoilt"]
             /\ NextFile(p)
  BY Zenon DEF AttachWrite
<1>4. f \in Files /\ files[f] # "whole"
  BY <1>3, SubmissionsOK DEF Unused, FileStates
<1>5. \A g \in Files \ {f} : files'[g] = files[g]
  BY <1>1, <1>3, <1>4
<1>6. (\A q \in Procs : At(q, "serve")' => At(q, "serve") /\ req'[q] = req[q])
      => AttachmentsAreWhole'
  BY <1>1, <1>2, <1>4, <1>5 DEF FileInv, AttachmentsAreWhole, Attachments, Posts, At
<1>7. CASE ok
  <2>1. req' = [req EXCEPT ![p].pc = "attachRow", ![p].type = type, ![p].file = f]
    BY <1>3, <1>7
  <2>2. /\ req'[p].pc = "attachRow" /\ req'[p].file = f /\ req'[p].type = type
        /\ req'[p].rules = req[p].rules
        /\ \A q \in Procs \ {p} : req'[q] = req[q]
    BY <1>1, <2>1 DEF Request
  <2>3. AttachmentsAreWhole'
    BY <1>6, <2>2 DEF At
  <2>4. files'[f] = "whole"
    BY <1>1, <1>3, <1>4, <1>7
  <2>5. Written(p)'
    <3>1. \A k \in Attachments : attachments[k].file # f
      BY <1>2, <1>4
    <3>2. \A q \in Procs \ {p} : At(q, "attachRow") => req[q].file # f
      BY <1>2, <1>4
    <3>3. QED BY <1>1, <1>3, <2>2, <2>4, <3>1, <3>2 DEF Written, At, Attachments, Allowed
  <2>6. ASSUME NEW q \in Procs \ {p}
        PROVE  Written(q)'
    <3>1. Written(q)
      BY DEF FileInv
    <3>2. At(q, "attachRow") => files[req[q].file] = "whole" /\ req[q].file \in Files
      BY <1>2
    <3>3. QED BY <1>1, <1>4, <1>5, <2>2, <3>1, <3>2 DEF Written, At, Attachments
  <2>7. QED BY <2>3, <2>5, <2>6 DEF FileInv
<1>8. CASE ~ok
  <2>1. PICK r \in Request(PCs) : /\ Fits(r) /\ r.pc \in {"idle", "attach"}
                                  /\ req' = [req EXCEPT ![p] = r]
    BY <1>1, <1>3, <1>8, NextFileStep
  <2>2. req'[p] = r /\ \A q \in Procs \ {p} : req'[q] = req[q]
    BY <2>1, RequestStep
  <2>3. AttachmentsAreWhole'
    BY <1>6, <2>1, <2>2 DEF At
  <2>4. ASSUME NEW q \in Procs
        PROVE  Written(q)'
    <3>1. Written(q)
      BY DEF FileInv
    <3>2. At(q, "attachRow") => files[req[q].file] = "whole" /\ req[q].file \in Files
      BY <1>2
    <3>3. QED BY <1>1, <1>4, <1>5, <2>1, <2>2, <3>1, <3>2 DEF Written, At, Attachments
  <2>5. QED BY <2>3, <2>4 DEF FileInv
<1>9. QED BY <1>7, <1>8

LEMMA FilesRow ==
    ASSUME TypeInv, FileInv, NEW p \in Procs, CreateAttachment(p)
    PROVE  FileInv'
<1>1. /\ req \in [Procs -> Request(PCs)] /\ req[p] \in Request(PCs) /\ req[p].pc = "attachRow"
      /\ UNCHANGED <<posts, files>> /\ Fits(req[p])
      /\ attachments \in [RowIds -> AttachmentRow \cup {None}]
  BY DEF TypeInv, TypeOK, CreateAttachment, At
<1>2. PICK r \in Request(PCs) : /\ Fits(r) /\ r.pc \in {"idle", "attach"}
                                /\ req' = [req EXCEPT ![p] = r]
  BY <1>1, NextFileStep DEF CreateAttachment
<1>3. req'[p] = r /\ \A q \in Procs \ {p} : req'[q] = req[q]
  BY <1>2, RequestStep
<1>4. CASE UNCHANGED attachments
  <2>1. Posts \subseteq Posts'
    BY <1>1 DEF Posts
  <2>2. QED BY <1>1, <1>2, <1>4, <2>1, RowsStay, FilesStayOne
<1>5. CASE /\ req[p].post \in Posts
           /\ \E k \in RowIds : attachments' = [attachments EXCEPT ![k] =
                [post |-> req[p].post, file |-> req[p].file, type |-> req[p].type,
                 allowed |-> req[p].rules.types]]
  <2>1. PICK row : row = [post |-> req[p].post, file |-> req[p].file, type |-> req[p].type,
                          allowed |-> req[p].rules.types]
    OBVIOUS
  <2>2. PICK k \in RowIds : attachments' = [attachments EXCEPT ![k] = row]
    BY <1>5, <2>1
  <2>3. /\ row.post \in Posts /\ row.file = req[p].file /\ row.type \in row.allowed
        /\ files[row.file] = "whole"
        /\ \A j \in Attachments : attachments[j].file # row.file
        /\ \A q \in Procs \ {p} : At(q, "attachRow") => req[q].file # row.file
    BY <1>1, <1>5, <2>1 DEF FileInv, Written, At
  <2>4. \A j \in Attachments' : \/ (j = k /\ attachments'[j] = row)
                                \/ (j \in Attachments /\ attachments'[j] = attachments[j])
    BY <1>1, <2>2 DEF Attachments
  <2>5. AttachmentsAreWhole'
    <3>1. ASSUME NEW j \in Attachments'
          PROVE  /\ files'[attachments'[j].file] = "whole"
                 /\ attachments'[j].type \in attachments'[j].allowed
                 /\ attachments'[j].post \in Posts'
                 /\ \A i \in Attachments' : attachments'[i].file = attachments'[j].file => i = j
      BY <1>1, <2>3, <2>4 DEF FileInv, AttachmentsAreWhole, Posts
    <3>2. \A q \in Procs : At(q, "serve")' => files'[req'[q].file] = "whole"
      BY <1>1, <1>2, <1>3 DEF FileInv, AttachmentsAreWhole, At
    <3>3. QED BY <3>1, <3>2 DEF AttachmentsAreWhole
  <2>6. ASSUME NEW q \in Procs
        PROVE  Written(q)'
    <3>1. Written(q)
      BY DEF FileInv
    <3>2. QED BY <1>1, <1>2, <1>3, <2>3, <2>4, <3>1 DEF Written, At
  <2>7. QED BY <2>5, <2>6 DEF FileInv
<1>6. QED BY <1>4, <1>5 DEF CreateAttachment

LEMMA FileStep ==
    ASSUME TypeInv, FileInv, [Next]_vars
    PROVE  FileInv'
<1>1. /\ req \in [Procs -> Request(PCs)] /\ posts \in [PostIds -> PostRow \cup {None}]
      /\ attachments \in [RowIds -> AttachmentRow \cup {None}]
  BY DEF TypeInv, TypeOK
<1>2. ASSUME NEW p \in Procs, Starts(p), UNCHANGED <<posts, attachments, files>>
      PROVE  FileInv'
  <2>1. PICK r \in Request(PCs) : Fits(r) /\ req' = [req EXCEPT ![p] = r] /\ Begins(r)
    BY <1>2, StartStep DEF Starts
  <2>2. r.pc # "attachRow" /\ (r.pc = "serve" => files[r.file] = "whole")
    BY <2>1 DEF Begins, FileInv, AttachmentsAreWhole
  <2>3. Posts \subseteq Posts'
    BY <1>2 DEF Posts
  <2>4. QED BY <1>2, <2>1, <2>2, <2>3, RowsStay, FilesStayOne
<1>3. ASSUME NEW p \in Procs, SaveSettings(p), UNCHANGED <<posts, attachments, files>>
      PROVE  FileInv'
  <2>1. \A q \in Procs \ {p} : /\ req'[q].pc = req[q].pc /\ req'[q].rules = req[q].rules
                               /\ req'[q].type = req[q].type /\ req'[q].file = req[q].file
    BY <1>3, SaveStep
  <2>2. req'[p] = NoRequest /\ NoRequest.pc = "idle"
    BY <1>3, SaveStep DEF NoRequest
  <2>3. \A q \in Procs : req[q].pc = "serve" => files[req[q].file] = "whole"
    BY DEF FileInv, AttachmentsAreWhole, At
  <2>4. Posts \subseteq Posts'
    BY <1>3 DEF Posts
  <2>5. \A q \in Procs :
          /\ req'[q].pc = "attachRow" =>
               /\ req[q].pc = "attachRow" /\ req'[q].file = req[q].file
               /\ req'[q].type = req[q].type /\ req'[q].rules = req[q].rules
          /\ req'[q].pc = "serve" => files[req'[q].file] = "whole"
    BY <2>1, <2>2, <2>3
  <2>6. QED BY <1>3, <2>4, <2>5, RowsStay, FilesStay
<1>4. ASSUME NEW p \in Procs,
             \/ CreatePost(p) \/ EditRules(p) \/ EditSave(p) \/ Purge(p)
             \/ AttachRefuse(p) \/ ServeAttachment(p) \/ ShowPost(p) \/ PictureCreate(p)
             \/ PictureWrite(p)
             \/ PictureFails(p) \/ ProfileSave(p) \/ Abort(p)
      PROVE  FileInv'
  <2>1. PICK r \in Request(PCs) : Fits(r) /\ req' = [req EXCEPT ![p] = r]
    BY <1>4, HandlerStep
  <2>2. req'[p] = r
    BY <2>1, RequestStep
  <2>3. UNCHANGED files
    BY <1>4 DEF CreatePost, EditRules, EditSave, Purge, AttachRefuse, ServeAttachment, ShowPost,
                PictureCreate, PictureWrite, PictureFails, ProfileSave, Abort
  <2>4. req'[p].pc \notin {"attachRow", "serve"}
    <3>1. CASE NextFile(p)
      BY <1>1, <3>1 DEF NextFile, Finish, NoRequest, Request
    <3>2. CASE Finish(p)
      BY <1>1, <3>2 DEF Finish, NoRequest
    <3>3. CASE PictureCreate(p) \/ PictureWrite(p)
      BY <1>1, <3>3 DEF PictureCreate, PictureWrite, Request
    <3>4. CASE CreatePost(p)
      BY <1>1, <3>2, <3>4 DEF CreatePost, Request
    <3>5. CASE EditRules(p)
      <4>1. PICK rules \in GetSettings, throughout \in SUBSET Words, held \in BOOLEAN :
              /\ throughout = req[p].throughout \cap Blocking(rules)
              /\ ~req[p].mod => (held <=> req[p].word \in rules.words)
              /\ req' = [req EXCEPT ![p] = [req[p] EXCEPT !.pc = "editSave", !.rules = rules,
                                              !.throughout = throughout, !.held = held]]
        BY <3>5, EditRulesStep, Zenon
      <4>2. QED BY <1>1, <4>1 DEF Request
    <3>6. QED BY <1>4, <3>1, <3>2, <3>3, <3>4, <3>5 DEF AttachRefuse, EditSave, Purge,
            ServeAttachment, ShowPost, PictureFails, ProfileSave, Abort
  <2>5. \A k \in Attachments' : /\ k \in Attachments /\ attachments'[k] = attachments[k]
                                /\ attachments[k].post \in Posts'
    <3>1. CASE Purge(p)
      BY <1>1, <3>1 DEF Purge, CascadeAttachments, Attachments, Posts, FileInv,
                        AttachmentsAreWhole
    <3>2. CASE ~Purge(p)
      <4>1. UNCHANGED attachments
        BY <1>4, <3>2 DEF CreatePost, EditRules, EditSave, AttachRefuse, ServeAttachment, ShowPost,
                          PictureCreate, PictureWrite, PictureFails, ProfileSave, Abort
      <4>2. None \notin PostRow
        BY SubmissionsOK
      <4>3. \A i \in PostIds : posts'[i] = None => posts[i] = None
        <5>1. CASE CreatePost(p)
          BY <1>1, <4>2, <5>1, SubmittedRow
        <5>2. CASE EditSave(p)
          BY <1>1, <4>2, <5>2, EditedRow
        <5>3. CASE ~CreatePost(p) /\ ~EditSave(p)
          BY <1>4, <3>2, <5>3 DEF EditRules, AttachRefuse, ServeAttachment, ShowPost, PictureCreate,
                                  PictureWrite, PictureFails, ProfileSave, Abort
        <5>4. QED BY <5>1, <5>2, <5>3
      <4>4. Posts \subseteq Posts'
        BY <4>3 DEF Posts
      <4>5. QED BY <4>1, <4>4, RowsStay
    <3>3. QED BY <3>1, <3>2
  <2>6. QED BY <2>1, <2>2, <2>3, <2>4, <2>5, FilesStayOne
<1>5. CASE DeleteOrphanedAttachments
  <2>1. UNCHANGED <<files, req, posts>>
    BY <1>5 DEF DeleteOrphanedAttachments
  <2>2. \A k \in Attachments' : /\ k \in Attachments /\ attachments'[k] = attachments[k]
                                /\ attachments[k].post \in Posts'
    BY <1>1, <1>5 DEF DeleteOrphanedAttachments, Attachments, Posts
  <2>3. \A q \in Procs : req[q].pc = "serve" => files[req[q].file] = "whole"
    BY DEF FileInv, AttachmentsAreWhole, At
  <2>4. QED BY <2>1, <2>2, <2>3, FilesStay
<1>6. CASE UNCHANGED vars
  BY <1>6 DEF vars, settingsVars, FileInv, AttachmentsAreWhole, Written, Attachments, Posts, At
<1>7. QED BY <1>2, <1>3, <1>4, <1>5, <1>6, FilesUpload, FilesRow, NextCases DEF Handles

\* An attachment row has a whole file of its own, whoever uploads, deletes or
\* reads at once.
THEOREM FilesAreWhole == Spec => []AttachmentsAreWhole
<1>1. Init => FileInv
  BY DEF Init, SettingsInit, FileInv, AttachmentsAreWhole, Written, Attachments, At, NoRequest
<1>2. TypeInv /\ FileInv /\ [Next]_vars => FileInv'
  BY FileStep
<1>3. FileInv => AttachmentsAreWhole
  BY DEF FileInv
<1>4. QED BY <1>1, <1>2, <1>3, TypeInvHolds, PTL DEF Spec

-----------------------------------------------------------------------------
(* Avatars.                                                                *)

There(u, e) ==
    \/ pictures[u][e] \in {"whole", "spoilt"}
    \/ \E p \in Procs : Drawing(p) /\ req[p].user = u /\ req[p].ext = e

\* The picture p is about to name is there.
Saved(p) ==
    At(p, "profileSave") =>
      \A u \in Users, e \in Exts : req[p].user = u /\ req[p].ext = e => There(u, e)

PictureInv ==
    /\ \A u \in Users, e \in Exts : avatar[u] = e => There(u, e)
    /\ \A p \in Procs : Saved(p)

\* Who is at profileSave after a step, was before, or found the picture there.
LEMMA PictureKeep ==
    ASSUME TypeInv, PictureInv, UNCHANGED avatar,
           \A u \in Users, e \in Exts : There(u, e) => There(u, e)',
           \A p \in Procs : At(p, "profileSave")' =>
             \/ /\ At(p, "profileSave") /\ req'[p].user = req[p].user
                /\ req'[p].ext = req[p].ext
             \/ \A u \in Users, e \in Exts :
                  req'[p].user = u /\ req'[p].ext = e => There(u, e)'
    PROVE  PictureInv'
<1>1. \A u \in Users, e \in Exts : avatar'[u] = e => There(u, e)'
  BY DEF PictureInv
<1>2. ASSUME NEW p \in Procs
      PROVE  Saved(p)'
  <2>1. CASE At(p, "profileSave") /\ req'[p].user = req[p].user /\ req'[p].ext = req[p].ext
    <3>1. \A u \in Users, e \in Exts : req[p].user = u /\ req[p].ext = e => There(u, e)
      BY <2>1 DEF PictureInv, Saved
    <3>2. \A u \in Users, e \in Exts : req'[p].user = u /\ req'[p].ext = e => There(u, e)'
      BY <2>1, <3>1
    <3>3. QED BY <3>2 DEF Saved
  <2>2. CASE \A u \in Users, e \in Exts : req'[p].user = u /\ req'[p].ext = e => There(u, e)'
    BY <2>2 DEF Saved
  <2>3. CASE ~At(p, "profileSave")'
    BY <2>3 DEF Saved
  <2>4. QED BY <2>1, <2>2, <2>3
<1>3. QED BY <1>1, <1>2 DEF PictureInv

\* A picture stays where no picture is written and nobody who writes stops.
LEMMA ThereStays ==
    ASSUME UNCHANGED pictures, NEW u \in Users, NEW e \in Exts, There(u, e),
           \A q \in Procs : Drawing(q) =>
             Drawing(q)' /\ req'[q].user = req[q].user /\ req'[q].ext = req[q].ext
    PROVE  There(u, e)'
BY DEF There

\* A picture that is begun, finished or given up is still there.
LEMMA ThereDrawn ==
    ASSUME TypeInv, NEW p \in Procs, PictureCreate(p) \/ PictureWrite(p) \/ PictureFails(p),
           NEW u \in Users, NEW e \in Exts, There(u, e)
    PROVE  There(u, e)'
<1>1. /\ req \in [Procs -> Request(PCs)] /\ Fits(req[p]) /\ req[p] \in Request(PCs)
      /\ pictures \in [Users -> [Exts -> FileStates \cup {None}]]
  BY DEF TypeInv, TypeOK
<1>2. req[p].user \in Users /\ req[p].ext \in Exts
  BY <1>1 DEF PictureCreate, PictureWrite, PictureFails, Drawing, At, Fits
<1>3. PICK r \in Request(PCs) : Fits(r) /\ req' = [req EXCEPT ![p] = r]
  BY HandlerStep
<1>4. \A q \in Procs \ {p} : req'[q] = req[q]
  BY <1>3, RequestStep
<1>5. PICK state : pictures' = [pictures EXCEPT ![req[p].user][req[p].ext] = state]
  BY DEF PictureCreate, PictureWrite, PictureFails
<1>6. CASE u = req[p].user /\ e = req[p].ext
  <2>1. CASE PictureCreate(p)
    <3>1. Drawing(p)' /\ req'[p].user = u /\ req'[p].ext = e
      BY <1>1, <1>6, <2>1 DEF PictureCreate, Drawing, At, Request
    <3>2. QED BY <3>1 DEF There
  <2>2. CASE PictureWrite(p) \/ PictureFails(p)
    <3>1. PICK s \in {"whole", "spoilt"} :
            pictures' = [pictures EXCEPT ![req[p].user][req[p].ext] = s]
      BY <2>2 DEF PictureWrite, PictureFails
    <3>2. pictures'[u][e] = s
      BY <1>1, <1>2, <1>6, <3>1
    <3>3. QED BY <3>2 DEF There
  <2>3. QED BY <2>1, <2>2
<1>7. CASE ~(u = req[p].user /\ e = req[p].ext)
  <2>1. pictures'[u][e] = pictures[u][e]
    BY <1>1, <1>2, <1>5, <1>7
  <2>2. \A q \in Procs : Drawing(q) /\ req[q].user = u /\ req[q].ext = e =>
          q # p /\ Drawing(q)' /\ req'[q].user = u /\ req'[q].ext = e
    BY <1>4, <1>7 DEF Drawing, At
  <2>3. QED BY <2>1, <2>2 DEF There
<1>8. QED BY <1>6, <1>7

LEMMA PictureStep ==
    ASSUME TypeInv, PictureInv, [Next]_vars
    PROVE  PictureInv'
<1>1. /\ req \in [Procs -> Request(PCs)] /\ \A p \in Procs : Fits(req[p])
      /\ avatar \in [Users -> Exts \cup {None}]
  BY DEF TypeInv, TypeOK
<1>2. ASSUME NEW p \in Procs, NEW r \in Request(PCs), Fits(r), req' = [req EXCEPT ![p] = r],
             ~Drawing(p), UNCHANGED <<avatar, pictures>>,
             r.pc = "profileSave" => r.ext \in {avatar[r.user], None}
      PROVE  PictureInv'
  <2>1. req'[p] = r /\ \A q \in Procs \ {p} : req'[q] = req[q]
    BY <1>2, RequestStep
  <2>2. \A q \in Procs : Drawing(q) =>
          Drawing(q)' /\ req'[q].user = req[q].user /\ req'[q].ext = req[q].ext
    BY <1>2, <2>1 DEF Drawing, At
  <2>3. \A u \in Users, e \in Exts : There(u, e) => There(u, e)'
    BY <1>2, <2>2, ThereStays
  <2>4. ASSUME r.pc = "profileSave", NEW u \in Users, NEW e \in Exts, r.user = u, r.ext = e
        PROVE  There(u, e)'
    <3>1. avatar[u] = e
      BY <1>2, <2>4, SettingsOK
    <3>2. QED BY <2>3, <3>1 DEF PictureInv
  <2>5. \A q \in Procs : At(q, "profileSave")' =>
          \/ /\ At(q, "profileSave") /\ req'[q].user = req[q].user
             /\ req'[q].ext = req[q].ext
          \/ \A u \in Users, e \in Exts :
               req'[q].user = u /\ req'[q].ext = e => There(u, e)'
    <3>1. \A q \in Procs \ {p} : At(q, "profileSave")' => At(q, "profileSave")
      BY <2>1 DEF At
    <3>2. At(p, "profileSave")' =>
            \A u \in Users, e \in Exts :
              req'[p].user = u /\ req'[p].ext = e => There(u, e)'
      BY <2>1, <2>4 DEF At
    <3>3. QED BY <2>1, <3>1, <3>2
  <2>6. QED BY <1>2, <2>3, <2>5, PictureKeep
<1>3. ASSUME NEW p \in Procs, Starts(p), UNCHANGED <<avatar, pictures>>
      PROVE  PictureInv'
  <2>1. PICK r \in Request(PCs) : Fits(r) /\ req' = [req EXCEPT ![p] = r] /\ Begins(r)
    BY <1>3, StartStep DEF Starts
  <2>2. ~Drawing(p)
    BY <1>3 DEF Starts, UpdateSettingsRead, SubmitRead, EditRead, ThreadPage, GetPostView,
       PurgeRead, ServeRead,
                ProfileRead, Start, Drawing, At
  <2>3. r.pc = "profileSave" => r.ext \in {avatar[r.user], None}
    BY <2>1 DEF Begins
  <2>4. QED BY <1>2, <1>3, <2>1, <2>2, <2>3
<1>4. ASSUME NEW p \in Procs, SaveSettings(p), UNCHANGED <<avatar, pictures>>
      PROVE  PictureInv'
  <2>1. \A q \in Procs \ {p} : /\ req'[q].pc = req[q].pc /\ req'[q].user = req[q].user
                               /\ req'[q].ext = req[q].ext
    BY <1>4, SaveStep
  <2>2. req'[p].pc = "idle" /\ ~Drawing(p)
    BY <1>4, SaveStep DEF NoRequest, SaveSettings, Drawing, At
  <2>3. \A u \in Users, e \in Exts : There(u, e) => There(u, e)'
    BY <1>4, <2>1, <2>2, ThereStays DEF Drawing, At
  <2>4. QED BY <1>4, <2>1, <2>2, <2>3, PictureKeep DEF At
<1>5. ASSUME NEW p \in Procs, PictureCreate(p) \/ PictureWrite(p) \/ PictureFails(p)
      PROVE  PictureInv'
  <2>1. \A u \in Users, e \in Exts : There(u, e) => There(u, e)'
    BY <1>5, ThereDrawn
  <2>2. PICK r \in Request(PCs) : Fits(r) /\ req' = [req EXCEPT ![p] = r]
    BY <1>5, HandlerStep
  <2>3. req'[p] = r /\ \A q \in Procs \ {p} : req'[q] = req[q]
    BY <2>2, RequestStep
  <2>4. UNCHANGED avatar
    BY <1>5 DEF PictureCreate, PictureWrite, PictureFails
  <2>5. ASSUME At(p, "profileSave")', NEW u \in Users, NEW e \in Exts,
               req'[p].user = u, req'[p].ext = e
        PROVE  There(u, e)'
    <3>1. CASE PictureWrite(p)
      <4>1. req'[p].user = req[p].user /\ req'[p].ext = req[p].ext
        BY <1>1, <3>1 DEF PictureWrite, Request
      <4>2. There(u, e)
        BY <2>5, <3>1, <4>1 DEF PictureWrite, There
      <4>3. QED BY <2>1, <4>2
    <3>2. CASE PictureCreate(p) \/ PictureFails(p)
      BY <1>1, <2>5, <3>2 DEF PictureCreate, PictureFails, Finish, NoRequest, At, Request
    <3>3. QED BY <1>5, <3>1, <3>2
  <2>6. \A q \in Procs : At(q, "profileSave")' =>
          \/ /\ At(q, "profileSave") /\ req'[q].user = req[q].user
             /\ req'[q].ext = req[q].ext
          \/ \A u \in Users, e \in Exts :
               req'[q].user = u /\ req'[q].ext = e => There(u, e)'
    <3>1. \A q \in Procs \ {p} : At(q, "profileSave")' => At(q, "profileSave")
      BY <2>3 DEF At
    <3>2. QED BY <2>3, <2>5, <3>1
  <2>7. QED BY <2>1, <2>4, <2>6, PictureKeep
<1>6. ASSUME NEW p \in Procs, ProfileSave(p)
      PROVE  PictureInv'
  <2>1. /\ avatar' = [avatar EXCEPT ![req[p].user] = req[p].ext] /\ UNCHANGED pictures
        /\ At(p, "profileSave")
    BY <1>6 DEF ProfileSave
  <2>2. PICK r \in Request(PCs) : Fits(r) /\ req' = [req EXCEPT ![p] = r] /\ r.pc = "idle"
    BY <1>6, FinishStep DEF ProfileSave
  <2>3. req'[p] = r /\ \A q \in Procs \ {p} : req'[q] = req[q]
    BY <2>2, RequestStep
  <2>4. ~Drawing(p) /\ ~Drawing(p)'
    BY <2>1, <2>2, <2>3 DEF Drawing, At
  <2>5. \A u \in Users, e \in Exts : There(u, e) => There(u, e)'
    BY <2>1, <2>3, <2>4, ThereStays DEF Drawing, At
  <2>6. ASSUME NEW u \in Users, NEW e \in Exts, avatar'[u] = e
        PROVE  There(u, e)'
    <3>1. CASE u = req[p].user
      <4>1. req[p].ext = e
        BY <1>1, <2>1, <2>6, <3>1
      <4>2. There(u, e)
        BY <2>1, <3>1, <4>1 DEF PictureInv, Saved
      <4>3. QED BY <2>5, <4>2
    <3>2. CASE u # req[p].user
      <4>1. avatar[u] = e
        BY <1>1, <2>1, <2>6, <3>2
      <4>2. There(u, e)
        BY <4>1 DEF PictureInv
      <4>3. QED BY <2>5, <4>2
    <3>3. QED BY <3>1, <3>2
  <2>7. ASSUME NEW q \in Procs
        PROVE  Saved(q)'
    <3>1. CASE q = p
      BY <2>2, <2>3, <3>1 DEF Saved, At
    <3>2. CASE q # p
      <4>1. Saved(q)
        BY DEF PictureInv
      <4>2. req'[q] = req[q]
        BY <2>3, <3>2
      <4>3. QED BY <2>5, <4>1, <4>2 DEF Saved, At
    <3>3. QED BY <3>1, <3>2
  <2>8. QED BY <2>6, <2>7 DEF PictureInv
<1>7. ASSUME NEW p \in Procs,
             \/ CreatePost(p) \/ EditRules(p) \/ EditSave(p) \/ Purge(p) \/ AttachRefuse(p)
             \/ AttachWrite(p) \/ CreateAttachment(p)
             \/ ServeAttachment(p) \/ ShowPost(p) \/ Abort(p)
      PROVE  PictureInv'
  <2>1. PICK r \in Request(PCs) : Fits(r) /\ req' = [req EXCEPT ![p] = r]
    BY <1>7, HandlerStep
  <2>2. req'[p] = r
    BY <2>1, RequestStep
  <2>3. UNCHANGED <<avatar, pictures>> /\ ~Drawing(p)
    BY <1>7 DEF CreatePost, EditRules, EditSave, Purge, AttachRefuse, AttachWrite,
                CreateAttachment, ServeAttachment, ShowPost, Abort, Drawing, At
  <2>4. req'[p].pc # "profileSave"
    <3>1. CASE NextFile(p)
      BY <1>1, <3>1 DEF NextFile, Finish, NoRequest, Request
    <3>2. CASE Finish(p)
      BY <1>1, <3>2 DEF Finish, NoRequest
    <3>3. CASE AttachWrite(p)
      <4>1. PICK f, type : \/ req' = [req EXCEPT ![p].pc = "attachRow", ![p].type = type,
                                                 ![p].file = f]
                           \/ NextFile(p)
        BY <3>3 DEF AttachWrite
      <4>2. QED BY <1>1, <3>1, <4>1 DEF Request
    <3>4. CASE CreatePost(p)
      BY <1>1, <3>2, <3>4 DEF CreatePost, Request
    <3>5. CASE EditRules(p)
      <4>1. PICK rules \in GetSettings, throughout \in SUBSET Words, held \in BOOLEAN :
              /\ throughout = req[p].throughout \cap Blocking(rules)
              /\ ~req[p].mod => (held <=> req[p].word \in rules.words)
              /\ req' = [req EXCEPT ![p] = [req[p] EXCEPT !.pc = "editSave", !.rules = rules,
                                              !.throughout = throughout, !.held = held]]
        BY <3>5, EditRulesStep, Zenon
      <4>2. QED BY <1>1, <4>1 DEF Request
    <3>6. QED BY <1>7, <3>1, <3>2, <3>3, <3>4, <3>5 DEF AttachRefuse, CreateAttachment,
            EditSave, Purge, ServeAttachment, ShowPost, Abort
  <2>5. QED BY <1>2, <2>1, <2>2, <2>3, <2>4
<1>8. CASE DeleteOrphanedAttachments \/ UNCHANGED vars
  <2>1. UNCHANGED <<avatar, pictures, req>>
    BY <1>8 DEF DeleteOrphanedAttachments, vars, settingsVars
  <2>2. QED BY <2>1 DEF PictureInv, Saved, There, Drawing, At
<1>9. QED BY <1>3, <1>4, <1>5, <1>6, <1>7, <1>8, NextCases DEF Handles

\* The avatar a user row names is there, though it is rewritten in place and
\* a stale row may be written back.
THEOREM AvatarsStay == Spec => []AvatarsAreThere
<1>1. Init => PictureInv
  BY SettingsOK DEF Init, SettingsInit, PictureInv, Saved, At, NoRequest
<1>2. TypeInv /\ PictureInv /\ [Next]_vars => PictureInv'
  BY PictureStep
<1>3. TypeInv /\ PictureInv => AvatarsAreThere
  BY DEF TypeInv, TypeOK, PictureInv, AvatarsAreThere, There
<1>4. QED BY <1>1, <1>2, <1>3, TypeInvHolds, PTL DEF Spec
=============================================================================
