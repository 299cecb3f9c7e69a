------------------------------ MODULE Feedback ------------------------------
(***************************************************************************)
(* Reactions and reports: ReactToPost and ReportPost of handler/post.go    *)
(* over store/sqlite/reaction.go and report.go, and the moderators' review *)
(* of handler/moderation.go.  The only reaction type there is is "like".   *)
(***************************************************************************)
EXTENDS Requests

VARIABLES
    reactions,  \* reactions table: pairs of a post and a user
    reports     \* reports table: id -> row

feedbackVars == <<reactions, reports>>

ReportRow == [post : PostIds, status : Verdicts \cup {"open"}]

FeedbackPCs == {"react", "reactInsert", "report", "reviewRemove", "review"}

ASSUME FeedbackOK == None \notin PostIds \X Users

Reports == {k \in RowIds : reports[k] # None}

-----------------------------------------------------------------------------
(* Toggling a reaction.                                                    *)

ReactRead(p) ==
    /\ \E u \in Users, i \in Posts :
         /\ ~posts[i].removed
         /\ Start(p, "react", [NoRequest EXCEPT !.pc = "react", !.user = u, !.post = i])
    /\ UNCHANGED <<threads, posts, lost, clock, kinds, reactions, reports>>

Pair(p) == <<req[p].post, req[p].user>>

\* Mutant: the handler goes on to the INSERT although the DELETE found a row.
ReactDeleteGoesOn(p) ==
    /\ At(p, "react")
    /\ reactions' = reactions \ {Pair(p)}
    /\ Goto(p, "reactInsert")
    /\ UNCHANGED <<threads, posts, lost, clock, kinds, reports>>

ReactDelete(p) ==
    /\ At(p, "react")
    /\ reactions' = reactions \ {Pair(p)}
    /\ IF Pair(p) \in reactions THEN Finish(p) ELSE Goto(p, "reactInsert")
    /\ UNCHANGED <<threads, posts, lost, clock, kinds, reports>>

\* The constraints of the table: post_id REFERENCES posts, UNIQUE (post_id,
\* user_id, type).
ReactInsert(p) ==
    /\ At(p, "reactInsert")
    /\ \/ Leaving(NoPost(req[p].post)) /\ reactions' = reactions \cup {Pair(p)}
       \/ Refused(NoPost(req[p].post)) /\ UNCHANGED reactions
    /\ Finish(p)
    /\ UNCHANGED <<threads, posts, clock, kinds, reports>>

-----------------------------------------------------------------------------
(* Reporting a post and reviewing the report.                              *)

\* A request that RateLimiter denies is answered 429 and changes nothing here; it
\* is one that did not begin.
ReportRead(p) ==
    /\ \E u \in Users, i \in Posts :
         /\ ~posts[i].removed /\ posts[i].author # u
         /\ Start(p, "report", [NoRequest EXCEPT !.pc = "report", !.user = u, !.post = i])
    /\ UNCHANGED <<threads, posts, lost, clock, kinds, reactions, reports>>

CreateReport(p) ==
    /\ At(p, "report")
    /\ \/ /\ Leaving(NoPost(req[p].post))
          /\ \E k \in RowIds :
               /\ NextKey(Reports, k)
               /\ reports' = [reports EXCEPT ![k] = [post |-> req[p].post, status |-> "open"]]
       \/ /\ Refused(NoPost(req[p].post)) \/ (MaxRow \in Reports /\ UNCHANGED lost)
          /\ UNCHANGED reports
    /\ Finish(p)
    /\ UNCHANGED <<threads, posts, clock, kinds, reactions>>

\* The handler asks neither whether the report is open nor whether its post
\* is still there.
ReviewRead(p) ==
    /\ \E u \in Mods, k \in Reports, v \in Verdicts :
         Start(p, "review",
               [NoRequest EXCEPT !.pc = IF v = "reviewed" THEN "reviewRemove" ELSE "review",
                                 !.user = u, !.row = k, !.post = reports[k].post,
                                 !.verdict = v])
    /\ UNCHANGED <<threads, posts, lost, clock, kinds, reactions, reports>>

\* Mutant: a failure to remove the post is only logged.
ReviewRemoveLogged(p) ==
    /\ At(p, "reviewRemove")
    /\ RemovePost(req[p].post) \/ UNCHANGED posts
    /\ Goto(p, "review")
    /\ UNCHANGED <<threads, lost, clock, kinds, reactions, reports>>

ReviewRemove(p) ==
    /\ At(p, "reviewRemove")
    /\ RemovePost(req[p].post)
    /\ Goto(p, "review")
    /\ UNCHANGED <<threads, lost, clock, kinds, reactions, reports>>

ReviewReport(p) ==
    /\ At(p, "review")
    /\ reports' = [k \in RowIds |->
                     IF k = req[p].row /\ k \in Reports
                     THEN [reports[k] EXCEPT !.status = req[p].verdict] ELSE reports[k]]
    /\ Finish(p)
    /\ UNCHANGED <<threads, posts, lost, clock, kinds, reactions>>

\* Mutant: the reports of a post stay when it goes.
CascadeReactionsOnly(gone) ==
    /\ reactions' = {pair \in reactions : pair[1] \notin gone}
    /\ UNCHANGED reports

\* ON DELETE CASCADE from posts.
CascadeFeedback(gone) ==
    /\ reactions' = {pair \in reactions : pair[1] \notin gone}
    /\ reports' = Without(reports, {k \in Reports : reports[k].post \in gone})

FeedbackInit ==
    /\ reactions = {}
    /\ reports = [k \in RowIds |-> None]

FeedbackNext(p) ==
    \/ ReactRead(p) \/ ReactDelete(p) \/ ReactInsert(p)
    \/ ReportRead(p) \/ CreateReport(p)
    \/ ReviewRead(p) \/ ReviewRemove(p) \/ ReviewReport(p)

FeedbackTypeOK ==
    /\ reactions \subseteq PostIds \X Users
    /\ reports \in [RowIds -> ReportRow \cup {None}]
=============================================================================
