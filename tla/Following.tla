----------------------------- MODULE Following ------------------------------
(***************************************************************************)
(* How members keep up with threads: replies and the time of the last      *)
(* post, the mark of when each user last viewed a thread (ThreadPage of    *)
(* handler/post.go, store/sqlite/read_status.go), and the drafts the       *)
(* editor saves by itself (handler/draft.go, store/sqlite/draft.go).  All  *)
(* posts of a thread are taken to fit on one page.                         *)
(***************************************************************************)
EXTENDS Requests

VARIABLES
    marks,    \* read_status: user and thread -> last_read_at
    drafts,   \* drafts table: id -> row; thread None: the draft of a new thread
    settled,  \* history: pairs of a user and a post the user wrote, was shown,
              \* or may never be told of
    posted    \* history: pairs of a user and a thread whose draft a reply has
              \* found since it was last saved

followingVars == <<marks, drafts, settled, posted>>

DraftRow == [user : Users, thread : ThreadIds \cup {None}]

FollowingPCs == {"opInsert", "insert", "lastPost", "draftRead", "draftDelete",
                 "viewMark", "viewList", "discard"}

Drafts == {d \in RowIds : drafts[d] # None}
DraftsAt(u, t) == {d \in Drafts : drafts[d].user = u /\ drafts[d].thread = t}

-----------------------------------------------------------------------------
(* Writing.                                                                *)

\* Whom the post p inserts is never announced to: its author; those who marked
\* the thread read at the second of its stamp or later, on a page without it;
\* everybody, if it opens the thread and a reply stamped earlier, to a deleted
\* thread that had the same key, has set the time of the last post already.
Unannounced(p) ==
    LET t == req[p].thread IN
    {u \in Users : \/ u = req[p].user
                   \/ marks[u][t] # None /\ marks[u][t] >= req[p].at
                   \/ At(p, "opInsert") /\ t \in Threads /\ threads[t].last < req[p].at}

CreateThread(p) ==
    /\ \E u \in Users, t \in ThreadIds :
         /\ NextKey(Threads, t)
         /\ threads' = [threads EXCEPT ![t] = [last |-> clock]]
         /\ Start(p, "newThread", [NoRequest EXCEPT !.pc = "opInsert", !.user = u,
                                                    !.thread = t, !.at = clock])
    /\ UNCHANGED <<posts, lost, clock, kinds, marks, drafts, settled, posted>>

\* The handler reads the clock before it inserts.
ReplyRead(p) ==
    /\ \E u \in Users, t \in Threads :
         Start(p, "reply", [NoRequest EXCEPT !.pc = "insert", !.user = u,
                                             !.thread = t, !.at = clock])
    /\ UNCHANGED <<threads, posts, lost, clock, kinds, marks, drafts, settled, posted>>

CreatePost(p) ==
    /\ req[p].pc \in {"opInsert", "insert"}
    /\ \E i \in PostIds :
         /\ InsertPost(i, req[p].thread, req[p].user, req[p].at)
         /\ settled' = settled \cup Unannounced(p) \X {i}
         /\ IF At(p, "insert")
            THEN req' = [req EXCEPT ![p].pc = "lastPost", ![p].post = i]
            ELSE Finish(p)
    /\ UNCHANGED <<threads, clock, kinds, marks, drafts, posted>>

\* The post is not inserted, for want of its thread or of a key.
CreatePostFails(p) ==
    /\ req[p].pc \in {"opInsert", "insert"}
    /\ Refused(NoThread(req[p].thread)) \/ (MaxPost \in Posts /\ UNCHANGED lost)
    /\ Finish(p)
    /\ UNCHANGED <<threads, posts, clock, kinds, marks, drafts, settled, posted>>

\* Mutant: only the number of replies is updated.
UpdateLastPostCountOnly(p) ==
    /\ At(p, "lastPost")
    /\ settled' = settled
    /\ Goto(p, "draftRead")
    /\ UNCHANGED <<threads, posts, lost, clock, kinds, marks, drafts, posted>>

\* An older stamp may overwrite a newer one; the posts in between are no
\* longer announced to anyone.
UpdateLastPost(p) ==
    /\ At(p, "lastPost")
    /\ threads' = [t \in ThreadIds |->
                     IF t = req[p].thread /\ t \in Threads
                     THEN [threads[t] EXCEPT !.last = req[p].at] ELSE threads[t]]
    /\ settled' = settled \cup
         Users \X {i \in PostsOf(req[p].thread) : posts[i].stamp > req[p].at}
    /\ Goto(p, "draftRead")
    /\ UNCHANGED <<posts, lost, clock, kinds, marks, drafts, posted>>

GetDraftByThread(p) ==
    /\ At(p, "draftRead")
    /\ IF DraftsAt(req[p].user, req[p].thread) = {}
       THEN Finish(p) /\ UNCHANGED posted
       ELSE /\ \E d \in DraftsAt(req[p].user, req[p].thread) :
                 req' = [req EXCEPT ![p].pc = "draftDelete", ![p].row = d]
            /\ posted' = posted \cup {<<req[p].user, req[p].thread>>}
    /\ UNCHANGED <<threads, posts, lost, clock, kinds, marks, drafts, settled>>

\* Mutant: the draft is looked for under the key of the post.
DeleteDraftOfPost(p) ==
    /\ req[p].pc \in {"draftDelete", "discard"}
    /\ drafts' = Without(drafts, {req[p].post})
    /\ Finish(p)
    /\ UNCHANGED <<threads, posts, lost, clock, kinds, marks, settled, posted>>

\* DELETE FROM drafts WHERE id = ?, whoever's draft has that key by now.
DeleteDraft(p) ==
    /\ req[p].pc \in {"draftDelete", "discard"}
    /\ drafts' = Without(drafts, {req[p].row})
    /\ Finish(p)
    /\ UNCHANGED <<threads, posts, lost, clock, kinds, marks, settled, posted>>

-----------------------------------------------------------------------------
(* Reading.                                                                *)

ViewRead(p) ==
    /\ \E u \in Users, t \in Threads :
         Start(p, "view", [NoRequest EXCEPT !.pc = "viewMark", !.user = u,
                                            !.thread = t, !.at = clock])
    /\ UNCHANGED <<threads, posts, lost, clock, kinds, marks, drafts, settled, posted>>

\* A mark that is there is updated, and its references are not checked anew.
Unmarked(p) ==
    {row \in NoThread(req[p].thread) : marks[req[p].user][req[p].thread] = None}

\* The upsert writes the time of the request, however late it runs; where it is
\* refused the handler goes on.
MarkThreadRead(p) ==
    /\ At(p, "viewMark")
    /\ \/ /\ Leaving(Unmarked(p))
          /\ marks' = [marks EXCEPT ![req[p].user][req[p].thread] = req[p].at]
       \/ Refused(Unmarked(p)) /\ UNCHANGED marks
    /\ Goto(p, "viewList")
    /\ UNCHANGED <<threads, posts, clock, kinds, drafts, settled, posted>>

ListPosts(p) ==
    /\ At(p, "viewList")
    /\ settled' = settled \cup {req[p].user} \X PostsOf(req[p].thread)
    /\ Finish(p)
    /\ UNCHANGED <<threads, posts, lost, clock, kinds, marks, drafts, posted>>

\* The badge of a thread in a list.
Unread(u, t) == marks[u][t] = None \/ threads[t].last > marks[u][t]

-----------------------------------------------------------------------------
(* Drafts.                                                                 *)

\* One statement inserts the draft or updates the one there is.
UpsertDraft(u, t) ==
    IF DraftsAt(u, t) # {} THEN UNCHANGED <<drafts, lost>>
    ELSE /\ Leaving({row \in NoThread(t) : t # None})
         /\ \E d \in RowIds : /\ NextKey(Drafts, d)
                              /\ drafts' = [drafts EXCEPT ![d] = [user |-> u, thread |-> t]]

\* An auto-save is one statement, for whichever thread the form names.
SaveDraft(p) ==
    /\ At(p, "idle") /\ "saveDraft" \in kinds
    /\ \E u \in Users, t \in ThreadIds \cup {None} :
         UpsertDraft(u, t) /\ posted' = posted \ {<<u, t>>}
    /\ UNCHANGED <<threads, posts, clock, kinds, req, marks, settled>>

\* The request names a draft; the handler does not ask whose it is.
DiscardRead(p) ==
    /\ \E d \in Drafts :
         Start(p, "discardDraft", [NoRequest EXCEPT !.pc = "discard", !.row = d])
    /\ UNCHANGED <<threads, posts, lost, clock, kinds, marks, drafts, settled, posted>>

\* The daily job deletes the drafts that are too old, whichever these are.
CleanupOldDrafts ==
    /\ "saveDraft" \in kinds
    /\ \E old \in SUBSET Drafts \ {{}} : drafts' = Without(drafts, old)
    /\ UNCHANGED <<threads, posts, lost, clock, kinds, req, marks, settled, posted>>

-----------------------------------------------------------------------------

\* ON DELETE CASCADE from threads.
CascadeFollowing(t, gone) ==
    /\ marks' = [u \in Users |-> [marks[u] EXCEPT ![t] = None]]
    /\ drafts' = Without(drafts, {d \in Drafts : drafts[d].thread = t})
    /\ settled' = {pair \in settled : pair[2] \notin gone}
    /\ posted' = {pair \in posted : pair[2] # t}

\* What a request that is cut off leaves undone: a post nobody is told of, a
\* page that was marked read and never sent, a draft that stays.
Undone(p) ==
    /\ settled' = settled \cup
         CASE At(p, "lastPost") -> Users \X {req[p].post}
           [] At(p, "viewList") -> {req[p].user} \X PostsOf(req[p].thread)
           [] OTHER -> {}
    /\ posted' = IF At(p, "draftDelete") THEN posted \ {<<req[p].user, req[p].thread>>}
                 ELSE posted
    /\ UNCHANGED <<marks, drafts>>

FollowingInit ==
    /\ marks = [u \in Users |-> [t \in ThreadIds |-> None]]
    /\ drafts = [d \in RowIds |-> None]
    /\ settled = {} /\ posted = {}

FollowingNext(p) ==
    \/ CreateThread(p) \/ ReplyRead(p) \/ CreatePost(p) \/ CreatePostFails(p)
    \/ UpdateLastPost(p) \/ GetDraftByThread(p) \/ DeleteDraft(p)
    \/ ViewRead(p) \/ MarkThreadRead(p) \/ ListPosts(p)
    \/ SaveDraft(p) \/ DiscardRead(p)

FollowingTypeOK ==
    /\ marks \in [Users -> [ThreadIds -> Times \cup {None}]]
    /\ drafts \in [RowIds -> DraftRow \cup {None}]
    /\ settled \subseteq Users \X PostIds
    /\ posted \subseteq Users \X ThreadIds
=============================================================================
