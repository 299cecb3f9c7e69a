------------------------------ MODULE Members -------------------------------
(***************************************************************************)
(* Feedback, Following and Messages composed: they share the threads, the  *)
(* posts and the goroutines of Requests and keep tables of their own.  A   *)
(* step of one leaves the tables of the others alone, but for the deletion *)
(* of a thread, which cascades to all of them.                             *)
(***************************************************************************)
EXTENDS Feedback, Following, Messages

vars == <<baseVars, feedbackVars, followingVars, messageVars>>

ASSUME MembersOK == None \notin ReportRow \cup DraftRow \cup MessageRow

PCs == {"idle", "removePost", "deleteThread"} \cup FeedbackPCs \cup FollowingPCs
       \cup MessagePCs

\* Feedback against the abstract toggle: a client has asked for a toggle until
\* one of its two statements has decided the answer.
Reacting(p) == IF req[p].pc \in {"react", "reactInsert"} THEN Pair(p) ELSE None

Toggle == INSTANCE Toggling WITH
    Clients <- Procs, People <- Users, Things <- PostIds, Nobody <- None,
    things <- Posts, reactions <- reactions, asked <- [p \in Procs |-> Reacting(p)]

-----------------------------------------------------------------------------

RemoveAPost(p) ==
    /\ RemovePostRead(p) \/ DeletePost(p)
    /\ UNCHANGED <<feedbackVars, followingVars, messageVars>>

DeleteAThread(p) ==
    \/ DeleteThreadRead(p) /\ UNCHANGED <<feedbackVars, followingVars, messageVars>>
    \/ /\ DeleteThread(p)
       /\ CascadeFeedback(PostsOf(req[p].thread))
       /\ CascadeFollowing(req[p].thread, PostsOf(req[p].thread))
       /\ UNCHANGED messageVars
    \/ DeleteThreadAlone(p) /\ UNCHANGED <<feedbackVars, followingVars, messageVars>>

\* A failed statement that the handler only logs.
LogAndGoOn(p) ==
    /\ Faults
    /\ \/ At(p, "lastPost") /\ Goto(p, "draftRead")
       \/ At(p, "viewMark") /\ Goto(p, "viewList")
    /\ Undone(p)
    /\ UNCHANGED <<threads, posts, lost, clock, kinds, feedbackVars, messageVars>>

\* The request is cut off: a failed statement, a cancel, a crash.
Abort(p) ==
    /\ Faults
    /\ ~At(p, "idle")
    /\ Undone(p)
    /\ Finish(p)
    /\ UNCHANGED <<threads, posts, lost, clock, kinds, feedbackVars, messageVars>>

Init == BaseInit /\ FeedbackInit /\ FollowingInit /\ MessagesInit

GiveFeedback(p) == FeedbackNext(p) /\ UNCHANGED <<followingVars, messageVars>>
Follow(p) == FollowingNext(p) /\ UNCHANGED <<feedbackVars, messageVars>>
Write(p) == MessagesNext(p) /\ UNCHANGED <<feedbackVars, followingVars>>

\* The clock and the daily job.
Background ==
    \/ Tick /\ UNCHANGED <<feedbackVars, followingVars, messageVars>>
    \/ CleanupOldDrafts /\ UNCHANGED <<feedbackVars, messageVars>>

Next ==
    \/ \E p \in Procs : \/ GiveFeedback(p) \/ Follow(p) \/ Write(p)
                        \/ RemoveAPost(p) \/ DeleteAThread(p)
                        \/ LogAndGoOn(p) \/ Abort(p)
    \/ Background

Spec == Init /\ [][Next]_vars

-----------------------------------------------------------------------------
(* Properties.                                                             *)

TypeOK ==
    /\ threads \in [ThreadIds -> ThreadRow \cup {None}]
    /\ posts \in [PostIds -> PostRow \cup {None}]
    /\ lost \subseteq {"thread"} \X ThreadIds \cup {"post"} \X PostIds
    /\ clock \in Times
    /\ kinds \in KindSets
    /\ req \in [Procs -> Request(PCs)]
    /\ FeedbackTypeOK /\ FollowingTypeOK /\ MessagesTypeOK

\* The toggle promised by store/store.go: although other requests run between
\* the DELETE and the INSERT of ToggleReaction, each request turns its
\* reaction over in one step, or fails and leaves it as it is.
TogglesAreAtomic == Toggle!Spec

\* Nothing outlives what it belongs to: reactions and reports their post,
\* posts, read marks and drafts their thread, whatever requests in flight
\* write after the thread was deleted, but for the rows that a statement
\* without foreign keys deleted or missed.
NothingLeftBehind ==
    /\ \A i \in Posts : NoThread(posts[i].thread) \subseteq lost
    /\ \A pair \in reactions : NoPost(pair[1]) \subseteq lost
    /\ \A k \in Reports : NoPost(reports[k].post) \subseteq lost
    /\ \A u \in Users, t \in ThreadIds : marks[u][t] # None => NoThread(t) \subseteq lost
    /\ \A d \in Drafts :
         drafts[d].thread # None => NoThread(drafts[d].thread) \subseteq lost

\* As long as no thread is deleted, a report that was closed as reviewed had
\* its post removed, however many moderators decide it and in whatever order
\* their statements run.
ReviewedMeansRemoved ==
    "deleteThread" \notin kinds =>
        \A k \in Reports : reports[k].status = "reviewed" => posts[reports[k].post].removed

\* A reply is announced: once its handler has told the thread of it, a user
\* who viewed the thread before and was not shown the post sees the thread as
\* unread.  Excused are the cases the code gives up: the user viewed the
\* thread between the time stamp of the reply and its insert, or in the same
\* second; a reply with an older time stamp overtook it; a statement failed; the
\* thread has the key of one that was deleted without foreign keys.
NewPostsAnnounced ==
    \A i \in Posts, u \in Users :
        LET t == posts[i].thread IN
        /\ t \in Threads /\ marks[u][t] # None /\ <<"thread", t>> \notin lost
        /\ <<u, i>> \notin settled
        /\ \A p \in Procs : /\ ~(At(p, "lastPost") /\ req[p].post = i)
                            /\ ~(At(p, "viewList") /\ req[p].user = u /\ req[p].thread = t)
        => Unread(u, t)

\* There is one draft for each user and place, however saves, replies,
\* discards and the daily job interleave.
OneDraftEach ==
    \A d, e \in Drafts :
        drafts[d].user = drafts[e].user /\ drafts[d].thread = drafts[e].thread => d = e

\* A draft is used up by its reply: one that is still there after a reply
\* looked for it was saved again since, or that reply is about to delete it.
DraftsAreUsedUp ==
    \A d \in Drafts :
        <<drafts[d].user, drafts[d].thread>> \in posted =>
            \E p \in Procs : /\ At(p, "draftDelete") /\ req[p].row = d
                             /\ req[p].user = drafts[d].user
                             /\ req[p].thread = drafts[d].thread

\* What the one row of a message says of its two sides is what each side did:
\* it is hidden from those who deleted it and from nobody else, and marked
\* read only if its recipient opened it.
EachSideItsOwn ==
    \A m \in Sent :
        /\ messages[m].senderDeleted <=> <<"delete", messages[m].sender, m>> \in dealt
        /\ messages[m].recipientDeleted <=> <<"delete", messages[m].recipient, m>> \in dealt
        /\ messages[m].read => <<"open", messages[m].recipient, m>> \in dealt
=============================================================================
