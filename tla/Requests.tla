------------------------------ MODULE Requests ------------------------------
(***************************************************************************)
(* What the features around posts share: the threads and posts tables and  *)
(* the goroutines that serve requests.  Feedback (reactions and reports),  *)
(* Following (read marks and drafts) and Messages each add their tables    *)
(* and their handlers; Members composes them.                              *)
(*                                                                         *)
(* As in Discussion one action is one SQL statement; locks, nesting and    *)
(* counters are Discussion's and left out here.                            *)
(***************************************************************************)
EXTENDS Integers, FiniteSets

CONSTANTS
    Users,      \* accounts that are signed in
    Mods,       \* those whose role is moderator or admin
    MaxThread,  \* bound on thread keys
    MaxPost,    \* bound on post keys
    MaxRow,     \* bound on the keys of reports, drafts and messages
    MaxTime,    \* bound on the clock, in seconds, the resolution of time stamps
    Procs,      \* request goroutines
    KindSets,   \* the mixes of requests clients may send
    Faults,     \* TRUE: a statement may fail, a request may be cut off
    ForeignKeys,  \* values foreign_keys may have where a statement runs
    None        \* SQL NULL / Go nil

ThreadIds == 1 .. MaxThread
PostIds == 1 .. MaxPost
RowIds == 1 .. MaxRow
Times == 0 .. MaxTime

AllKinds == {"newThread", "reply", "removePost", "deleteThread", "react", "report",
             "review", "view", "saveDraft", "discardDraft", "send", "open", "deleteMessage"}

\* last is last_post_at; stamp is history, the time the handler gave a post.
ThreadRow == [last : Times]
PostRow == [thread : ThreadIds, author : Users, removed : BOOLEAN, stamp : Times]

Verdicts == {"reviewed", "dismissed"}

ASSUME RequestsOK ==
    /\ Mods \subseteq Users
    /\ MaxThread \in Nat /\ MaxPost \in Nat /\ MaxRow \in Nat /\ MaxTime \in Nat
    /\ KindSets \subseteq SUBSET AllKinds
    /\ Faults \in BOOLEAN
    /\ ForeignKeys \subseteq BOOLEAN
    /\ None \notin Users \cup ThreadIds \cup PostIds \cup RowIds \cup ThreadRow \cup PostRow
    /\ None \notin Verdicts

VARIABLES
    threads,  \* threads table: id -> row
    posts,    \* posts table: id -> row
    lost,     \* history: <<table, key>> of rows that a statement without
              \* foreign keys deleted, or referred to, while they were missed
    clock,    \* the system clock
    kinds,    \* the requests clients send in this behaviour; never changes
    req       \* the request each goroutine is serving

baseVars == <<threads, posts, lost, clock, kinds, req>>

-----------------------------------------------------------------------------

\* The locals of a handler; row is the report, draft or message it is about,
\* at the time it read from the clock.
Request(pcs) ==
    [pc : pcs, user : Users \cup {None}, thread : ThreadIds \cup {None},
     post : PostIds \cup {None}, row : RowIds \cup {None},
     verdict : Verdicts \cup {None}, at : Times]

NoRequest == [pc |-> "idle", user |-> None, thread |-> None, post |-> None,
              row |-> None, verdict |-> None, at |-> 0]

Threads == {t \in ThreadIds : threads[t] # None}
Posts == {i \in PostIds : posts[i] # None}

\* The posts that go when thread t is deleted.
PostsOf(t) == {i \in Posts : posts[i].thread = t}

At(p, label) == req[p].pc = label
Goto(p, label) == req' = [req EXCEPT ![p].pc = label]
Finish(p) == req' = [req EXCEPT ![p] = NoRequest]
Start(p, kind, r) == At(p, "idle") /\ kind \in kinds /\ req' = [req EXCEPT ![p] = r]

\* The key SQLite gives the next row of a table whose keys in use are keys.
NextKey(keys, k) ==
    /\ \A j \in keys : j < k
    /\ k = 1 \/ k - 1 \in keys

\* A statement that refers to rows which are missing: it is refused where
\* foreign_keys is on, and leaves a dangling reference where it is off.
Leaving(missing) ==
    /\ missing = {} \/ FALSE \in ForeignKeys
    /\ lost' = lost \cup missing

Refused(missing) ==
    /\ missing # {} /\ TRUE \in ForeignKeys
    /\ UNCHANGED lost

NoThread(t) == {"thread"} \X ({t} \ Threads)
NoPost(i) == {"post"} \X ({i} \ Posts)

\* The table without the rows whose keys are in gone.
Without(table, gone) == [k \in DOMAIN table |-> IF k \in gone THEN None ELSE table[k]]

-----------------------------------------------------------------------------
(* Posts come and go.  Following inserts replies and opening posts.        *)

\* Mutant: the author column is left out.
InsertPostNoAuthor(i, t, u, stamp) ==
    /\ i \in PostIds /\ NextKey(Posts, i)
    /\ Leaving(NoThread(t))
    /\ posts' = [posts EXCEPT ![i] = [thread |-> t, author |-> None, removed |-> FALSE,
                                      stamp |-> stamp]]

InsertPost(i, t, u, stamp) ==
    /\ i \in PostIds /\ NextKey(Posts, i)
    /\ Leaving(NoThread(t))
    /\ posts' = [posts EXCEPT ![i] = [thread |-> t, author |-> u, removed |-> FALSE,
                                      stamp |-> stamp]]

\* UPDATE posts SET is_deleted = 1: nothing happens to a row that is gone.
RemovePost(i) ==
    posts' = [j \in PostIds |-> IF j = i /\ j \in Posts
                                THEN [posts[j] EXCEPT !.removed = TRUE] ELSE posts[j]]

RemovePostRead(p) ==
    /\ \E u \in Mods, i \in Posts :
         Start(p, "removePost", [NoRequest EXCEPT !.pc = "removePost", !.user = u, !.post = i])
    /\ UNCHANGED <<threads, posts, lost, clock, kinds>>

DeletePost(p) ==
    /\ At(p, "removePost")
    /\ RemovePost(req[p].post)
    /\ Finish(p)
    /\ UNCHANGED <<threads, lost, clock, kinds>>

DeleteThreadRead(p) ==
    /\ \E u \in Mods, t \in Threads :
         Start(p, "deleteThread",
               [NoRequest EXCEPT !.pc = "deleteThread", !.user = u, !.thread = t])
    /\ UNCHANGED <<threads, posts, lost, clock, kinds>>

\* The thread and its posts; every feature cascades to its own tables.
DeleteThread(p) ==
    /\ At(p, "deleteThread")
    /\ TRUE \in ForeignKeys /\ req[p].thread \in Threads
    /\ threads' = Without(threads, {req[p].thread})
    /\ posts' = Without(posts, PostsOf(req[p].thread))
    /\ Finish(p)
    /\ UNCHANGED <<lost, clock, kinds>>

\* Where foreign_keys is off nothing cascades, and nothing does from a row that
\* is gone.
DeleteThreadAlone(p) ==
    /\ At(p, "deleteThread")
    /\ FALSE \in ForeignKeys \/ req[p].thread \notin Threads
    /\ threads' = Without(threads, {req[p].thread})
    /\ lost' = lost \cup {"thread"} \X ({req[p].thread} \cap Threads)
    /\ Finish(p)
    /\ UNCHANGED <<posts, clock, kinds>>

\* Time passes while somebody reads or writes a time stamp.
Tick ==
    /\ clock < MaxTime
    /\ "view" \in kinds
    /\ clock' = clock + 1
    /\ UNCHANGED <<threads, posts, lost, kinds, req>>

BaseInit ==
    /\ threads = [t \in ThreadIds |-> None]
    /\ posts = [i \in PostIds |-> None]
    /\ lost = {}
    /\ clock = 0
    /\ kinds \in KindSets
    /\ req = [p \in Procs |-> NoRequest]
=============================================================================
