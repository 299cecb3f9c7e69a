----------------------------- MODULE Submissions ----------------------------
(***************************************************************************)
(* Posts under the settings, and files: the hold of posts that contain a   *)
(* blocked word (handler/post.go, handler/thread.go), attachments          *)
(* (handler/attachment.go, upload/upload.go, store/sqlite/attachment.go)   *)
(* and avatars (handler/settings.go).  A file is written before the row    *)
(* that names it, and no code removes a file.  Foreign keys are enforced.  *)
(***************************************************************************)
EXTENDS Settings

VARIABLES
    posts,        \* posts table: id -> row
    attachments,  \* attachments table: id -> row
    files,        \* the attachments directory: name -> state
    avatar,       \* users.avatar_url: user -> format of the picture it was given by
                  \* an upload; None if there is no address or it was typed in
    pictures      \* the avatars directory: user and format -> state

vars == <<settingsVars, posts, attachments, files, avatar, pictures>>

\* word: the word to block the body contains, if any.  History: mod, the body is
\* a moderator's; blocked, what was blocked all the time its request took.
PostRow == [word : Words \cup {None}, held : BOOLEAN, mod : BOOLEAN,
            blocked : SUBSET Words]

\* allowed is history: the types allowed when the file was checked.
AttachmentRow == [post : PostIds, file : Files, type : Types, allowed : SUBSET Types]

\* spoilt: a failed write, or two writes into one file at once.
FileStates == {"partial", "whole", "spoilt"}

ASSUME SubmissionsOK == None \notin PostRow \cup AttachmentRow \cup FileStates

PCs == {"idle", "saveSettings", "createPost", "attach", "attachRow", "editRules", "editSave",
        "show", "purge", "serve", "pictureCreate", "pictureWrite", "profileSave"}

Posts == {i \in PostIds : posts[i] # None}
Attachments == {k \in RowIds : attachments[k] # None}

\* The key SQLite gives the next row of a table whose keys in use are keys.
NextKey(keys, k) ==
    /\ \A j \in keys : j < k
    /\ k = 1 \/ k - 1 \in keys

-----------------------------------------------------------------------------
(* Submitting, editing and reading a post.                                 *)

\* The words blocked, but for a request that was given the defaults for them.
Blocking(rules) == IF rules = Defaults THEN {} ELSE Stored.words

SubmitRead(p) ==
    /\ \E rules \in GetSettings, word \in Words \cup {None}, n \in 0 .. MaxFiles :
         /\ n = 0 \/ "attach" \in kinds
         /\ Start(p, "submit", [NoRequest EXCEPT !.pc = "createPost", !.rules = rules,
                                                 !.throughout = Blocking(rules),
                                                 !.word = word, !.left = n])
    /\ UNCHANGED <<settings, kinds, posts, attachments, files, avatar, pictures>>

CreatePost(p) ==
    /\ At(p, "createPost")
    /\ \E i \in PostIds :
         /\ NextKey(Posts, i)
         /\ posts' = [posts EXCEPT ![i] =
              [word |-> req[p].word, held |-> req[p].word \in req[p].rules.words,
               mod |-> FALSE, blocked |-> req[p].throughout]]
         /\ IF req[p].left = 0 THEN Finish(p)
            ELSE req' = [req EXCEPT ![p].pc = "attach", ![p].post = i]
    /\ UNCHANGED <<settings, kinds, attachments, files, avatar, pictures>>

\* The author or a moderator edits a post; then the settings are read, and the
\* hold is decided anew unless a moderator writes.
EditRead(p) ==
    /\ \E i \in Posts, mod \in BOOLEAN, word \in Words \cup {None} :
         Start(p, "edit", [NoRequest EXCEPT !.pc = "editRules", !.post = i, !.mod = mod,
                                            !.word = word, !.held = posts[i].held,
                                            !.throughout = Stored.words])
    /\ UNCHANGED <<settings, kinds, posts, attachments, files, avatar, pictures>>

\* Mutant: the hold is overwritten by the name of the word.
EditRulesWord(p) ==
    /\ At(p, "editRules")
    /\ \E rules \in GetSettings :
         req' = [req EXCEPT ![p].pc = "editSave", ![p].rules = rules, ![p].held = req[p].word,
                            ![p].throughout = @ \cap Blocking(rules)]
    /\ UNCHANGED <<settings, kinds, posts, attachments, files, avatar, pictures>>

EditRules(p) ==
    /\ At(p, "editRules")
    /\ \E rules \in GetSettings :
         req' = [req EXCEPT ![p].pc = "editSave", ![p].rules = rules,
                            ![p].throughout = @ \cap Blocking(rules),
                            ![p].held = IF req[p].mod THEN @
                                        ELSE req[p].word \in rules.words]
    /\ UNCHANGED <<settings, kinds, posts, attachments, files, avatar, pictures>>

\* Mutant: an edit leaves the hold as it is.
EditSaveNoHold(p) ==
    /\ At(p, "editSave")
    /\ posts' = [i \in PostIds |->
                   IF i = req[p].post /\ i \in Posts
                   THEN [posts[i] EXCEPT !.word = req[p].word, !.mod = req[p].mod,
                                         !.blocked = req[p].throughout]
                   ELSE posts[i]]
    /\ Finish(p)
    /\ UNCHANGED <<settings, kinds, attachments, files, avatar, pictures>>

EditSave(p) ==
    /\ At(p, "editSave")
    /\ posts' = [i \in PostIds |->
                   IF i = req[p].post /\ i \in Posts
                   THEN [word |-> req[p].word, held |-> req[p].held, mod |-> req[p].mod,
                         blocked |-> req[p].throughout]
                   ELSE posts[i]]
    /\ Finish(p)
    /\ UNCHANGED <<settings, kinds, attachments, files, avatar, pictures>>

\* The page of a thread passes over held posts unless the reader is the author
\* or a moderator, which is mod here.
ThreadPage(p) ==
    /\ \E i \in Posts, mod \in BOOLEAN :
         /\ posts[i].held => mod
         /\ Start(p, "view", [NoRequest EXCEPT !.pc = "show", !.post = i, !.mod = mod,
                                               !.held = posts[i].held])
    /\ UNCHANGED <<settings, kinds, posts, attachments, files, avatar, pictures>>

\* GET /p/{post_id} does not ask who is reading.
GetPostView(p) ==
    /\ \E i \in Posts, mod \in BOOLEAN :
         Start(p, "view", [NoRequest EXCEPT !.pc = "show", !.post = i, !.mod = mod,
                                            !.held = posts[i].held])
    /\ UNCHANGED <<settings, kinds, posts, attachments, files, avatar, pictures>>

\* The reader gets the post as it was read.
ShowPost(p) ==
    /\ At(p, "show")
    /\ Finish(p)
    /\ UNCHANGED <<settings, kinds, posts, attachments, files, avatar, pictures>>

\* A moderator deletes the thread of some posts, and the attachments go with
\* them; their files stay.
PurgeRead(p) ==
    /\ Start(p, "purge", [NoRequest EXCEPT !.pc = "purge"])
    /\ UNCHANGED <<settings, kinds, posts, attachments, files, avatar, pictures>>

CascadeAttachments(gone) ==
    attachments' = [k \in RowIds |->
        IF k \in Attachments /\ attachments[k].post \in gone THEN None ELSE attachments[k]]

Purge(p) ==
    /\ At(p, "purge")
    /\ \E gone \in SUBSET Posts :
         /\ posts' = [i \in PostIds |-> IF i \in gone THEN None ELSE posts[i]]
         /\ CascadeAttachments(gone)
    /\ Finish(p)
    /\ UNCHANGED <<settings, kinds, files, avatar, pictures>>

-----------------------------------------------------------------------------
(* Attachments: for each file of the form, check, write, insert.           *)

\* The loop of SavePostAttachments: one file less, and the reply is sent after
\* the last.
NextFile(p) ==
    IF req[p].left = 1 THEN Finish(p)
    ELSE req' = [req EXCEPT ![p].pc = "attach", ![p].left = @ - 1,
                            ![p].type = None, ![p].file = None]

Unused == {f \in Files : files[f] = None}

\* Types of which a file is accepted.
Allowed(p) == req[p].rules.types

\* The file is empty, too large, or of a type that is not allowed.
AttachRefuse(p) ==
    /\ At(p, "attach")
    /\ NextFile(p)
    /\ UNCHANGED <<settings, kinds, posts, attachments, files, avatar, pictures>>

\* Mutant: an error of the write is only logged.
AttachWriteAnyway(p) ==
    /\ At(p, "attach")
    /\ \E f \in Unused, type \in Allowed(p), ok \in {TRUE, ~Faults} :
         /\ files' = [files EXCEPT ![f] = IF ok THEN "whole" ELSE "spoilt"]
         /\ req' = [req EXCEPT ![p].pc = "attachRow", ![p].type = type, ![p].file = f]
    /\ UNCHANGED <<settings, kinds, posts, attachments, avatar, pictures>>

\* A new random name; a write that fails leaves what it wrote.
AttachWrite(p) ==
    /\ At(p, "attach")
    /\ \E f \in Unused, type \in Allowed(p), ok \in {TRUE, ~Faults} :
         IF ok
         THEN /\ files' = [files EXCEPT ![f] = "whole"]
              /\ req' = [req EXCEPT ![p].pc = "attachRow", ![p].type = type, ![p].file = f]
         ELSE /\ files' = [files EXCEPT ![f] = "spoilt"]
              /\ NextFile(p)
    /\ UNCHANGED <<settings, kinds, posts, attachments, avatar, pictures>>

\* The insert fails for want of the post, or of a key in this model; the
\* handler goes on and the file stays.
CreateAttachment(p) ==
    /\ At(p, "attachRow")
    /\ \/ /\ req[p].post \in Posts
          /\ \E k \in RowIds :
               /\ NextKey(Attachments, k)
               /\ attachments' = [attachments EXCEPT ![k] =
                    [post |-> req[p].post, file |-> req[p].file, type |-> req[p].type,
                     allowed |-> req[p].rules.types]]
       \/ /\ Faults \/ req[p].post \notin Posts \/ MaxRow \in Attachments
          /\ UNCHANGED attachments
    /\ NextFile(p)
    /\ UNCHANGED <<settings, kinds, posts, files, avatar, pictures>>

\* The row is read, then the file it names is opened.
ServeRead(p) ==
    /\ \E k \in Attachments :
         Start(p, "serve", [NoRequest EXCEPT !.pc = "serve", !.file = attachments[k].file])
    /\ UNCHANGED <<settings, kinds, posts, attachments, files, avatar, pictures>>

ServeAttachment(p) ==
    /\ At(p, "serve")
    /\ Finish(p)
    /\ UNCHANGED <<settings, kinds, posts, attachments, files, avatar, pictures>>

\* The daily job deletes the rows whose post is gone.
DeleteOrphanedAttachments ==
    /\ attachments' = [k \in RowIds |->
         IF k \in Attachments /\ attachments[k].post \notin Posts THEN None ELSE attachments[k]]
    /\ UNCHANGED <<settings, kinds, req, posts, files, avatar, pictures>>

-----------------------------------------------------------------------------
(* Avatars: the file is named for the user, and rewritten in place.        *)

\* The user row is read; the form holds an image of format ext, or an address
\* of any picture, which is None here wherever it points, or neither.
ProfileRead(p) ==
    /\ \E u \in Users :
         \/ \E ext \in Exts :
              Start(p, "profile", [NoRequest EXCEPT !.pc = "pictureCreate", !.user = u,
                                                    !.ext = ext])
         \/ \E ext \in {avatar[u], None} :
              Start(p, "profile", [NoRequest EXCEPT !.pc = "profileSave", !.user = u,
                                                    !.ext = ext])
    /\ UNCHANGED <<settings, kinds, posts, attachments, files, avatar, pictures>>

Drawing(p) == At(p, "pictureWrite")

\* Another encoder writes the file too, or did since p truncated it.
Overlapped(p) ==
    \/ pictures[req[p].user][req[p].ext] # "partial"
    \/ \E q \in Procs \ {p} :
         Drawing(q) /\ req[q].user = req[p].user /\ req[q].ext = req[p].ext

\* os.Create truncates the file.
PictureCreate(p) ==
    /\ At(p, "pictureCreate")
    /\ pictures' = [pictures EXCEPT ![req[p].user][req[p].ext] = "partial"]
    /\ req' = [req EXCEPT ![p].pc = "pictureWrite"]
    /\ UNCHANGED <<settings, kinds, posts, attachments, files, avatar>>

\* Mutant: the avatars the user has in other formats are removed.
PictureWriteAlone(p) ==
    /\ Drawing(p)
    /\ pictures' = [pictures EXCEPT ![req[p].user] =
                      [e \in Exts |-> IF e = req[p].ext THEN "whole" ELSE None]]
    /\ req' = [req EXCEPT ![p].pc = "profileSave"]
    /\ UNCHANGED <<settings, kinds, posts, attachments, files, avatar>>

\* Two encoders that write one file overwrite each other.
PictureWrite(p) ==
    /\ Drawing(p)
    /\ \E state \in {"whole"} \cup (IF Overlapped(p) THEN {"spoilt"} ELSE {}) :
         pictures' = [pictures EXCEPT ![req[p].user][req[p].ext] = state]
    /\ req' = [req EXCEPT ![p].pc = "profileSave"]
    /\ UNCHANGED <<settings, kinds, posts, attachments, files, avatar>>

\* The encoder fails: the request ends, and the file stays as it is.
PictureFails(p) ==
    /\ Faults /\ Drawing(p)
    /\ pictures' = [pictures EXCEPT ![req[p].user][req[p].ext] = "spoilt"]
    /\ Finish(p)
    /\ UNCHANGED <<settings, kinds, posts, attachments, files, avatar>>

ProfileSave(p) ==
    /\ At(p, "profileSave")
    /\ avatar' = [avatar EXCEPT ![req[p].user] = req[p].ext]
    /\ Finish(p)
    /\ UNCHANGED <<settings, kinds, posts, attachments, files, pictures>>

-----------------------------------------------------------------------------

\* The key space of the model is used up.
OutOfKeys(p) == At(p, "createPost") /\ MaxPost \in Posts

\* The request is cut off: a failed statement, a cancel, a crash.
Abort(p) ==
    /\ ~At(p, "idle") /\ ~Drawing(p)
    /\ Faults \/ OutOfKeys(p)
    /\ Finish(p)
    /\ UNCHANGED <<settings, kinds, posts, attachments, files, avatar, pictures>>

Init ==
    /\ SettingsInit
    /\ posts = [i \in PostIds |-> None]
    /\ attachments = [k \in RowIds |-> None]
    /\ files = [f \in Files |-> None]
    /\ avatar = [u \in Users |-> None]
    /\ pictures = [u \in Users |-> [e \in Exts |-> None]]

Administer(p) == SettingsNext(p) /\ UNCHANGED <<posts, attachments, files, avatar, pictures>>
Submit(p) == SubmitRead(p) \/ CreatePost(p)
Edit(p) == EditRead(p) \/ EditRules(p) \/ EditSave(p)
View(p) == ThreadPage(p) \/ GetPostView(p) \/ ShowPost(p)
DeleteThread(p) == PurgeRead(p) \/ Purge(p)
Attach(p) == AttachRefuse(p) \/ AttachWrite(p) \/ CreateAttachment(p)
Serve(p) == ServeRead(p) \/ ServeAttachment(p)
SaveProfile(p) == ProfileRead(p) \/ PictureCreate(p) \/ PictureWrite(p) \/ PictureFails(p)
                  \/ ProfileSave(p)

Next ==
    \/ \E p \in Procs : \/ Administer(p) \/ Submit(p) \/ Edit(p) \/ View(p) \/ DeleteThread(p)
                        \/ Attach(p) \/ Serve(p) \/ SaveProfile(p) \/ Abort(p)
    \/ DeleteOrphanedAttachments

Spec == Init /\ [][Next]_vars

-----------------------------------------------------------------------------
(* Properties.                                                             *)

TypeOK ==
    /\ settings \in Rules \cup {None}
    /\ kinds \in KindSets
    /\ req \in [Procs -> Request(PCs)]
    /\ posts \in [PostIds -> PostRow \cup {None}]
    /\ attachments \in [RowIds -> AttachmentRow \cup {None}]
    /\ files \in [Files -> FileStates \cup {None}]
    /\ avatar \in [Users -> Exts \cup {None}]
    /\ pictures \in [Users -> [Exts -> FileStates \cup {None}]]

\* No blocked word slips past the hold: a post whose body is no moderator's is
\* held if the body contains a word that was blocked ever since the request that
\* saved it began, however submissions, edits of authors and moderators and
\* saves of the settings overlap, unless its read of the settings failed.
BlockedWordsAreHeld ==
    \A i \in Posts : posts[i].word \in posts[i].blocked /\ ~posts[i].mod => posts[i].held

\* "Held-for-review posts are visible only to the author and moderators"
\* (handler/post.go:166): nobody else is shown a post that was held when it
\* was read.  The page of a thread keeps this; GET /p/{post_id} does not.
HeldPostsStayHidden == \A p \in Procs : At(p, "show") /\ req[p].held => req[p].mod

\* Every attachment row is backed by a file of its own that was written to the
\* end and is of a type that was allowed, and belongs to a post that exists;
\* a file that is about to be served is whole although its row may be gone.
AttachmentsAreWhole ==
    /\ \A k \in Attachments :
         /\ files[attachments[k].file] = "whole"
         /\ attachments[k].type \in attachments[k].allowed
         /\ attachments[k].post \in Posts
         /\ \A j \in Attachments : attachments[j].file = attachments[k].file => j = k
    /\ \A p \in Procs : At(p, "serve") => files[req[p].file] = "whole"

\* The picture a user row names is there, unless its address was typed in, and
\* whole unless somebody is writing it, a write failed, or two writes
\* overlapped; a stale row written back by another save of the profile names an
\* older file, which is still there.
AvatarsAreThere ==
    \A u \in Users :
        avatar[u] # None =>
            \/ pictures[u][avatar[u]] \in {"whole", "spoilt"}
            \/ \E p \in Procs : Drawing(p) /\ req[p].user = u /\ req[p].ext = avatar[u]
=============================================================================
