----------------------------- MODULE Discussion -----------------------------
(***************************************************************************)
(* Threads and posts: handler/thread.go, handler/post.go and the lock, pin *)
(* and delete handlers of handler/moderation.go over the threads and posts *)
(* tables of store/sqlite.                                                 *)
(*                                                                         *)
(* A request is a goroutine and one action is one SQL statement, as in     *)
(* Accounts.  Keys are INTEGER PRIMARY KEY without AUTOINCREMENT, so the   *)
(* next key is one more than the largest key in the table and the key of a *)
(* deleted last row is handed out again.  PRAGMA foreign_keys is a setting *)
(* of one connection, and a statement runs on any connection of the pool.  *)
(***************************************************************************)
EXTENDS Integers, FiniteSets

CONSTANTS
    Users,        \* accounts that may post, none of them banned
    Mods,         \* those whose role is moderator or admin
    MaxThread,    \* bound on thread keys
    MaxPost,      \* bound on post keys
    MaxCount,     \* bound: a user with this many counted or missed replies stops
    Procs,        \* request goroutines
    Kinds,        \* the request kinds clients send
    ForeignKeys,  \* values foreign_keys may have where a statement runs
    Faults,       \* TRUE: a statement may fail, a request may be cut off
    None          \* SQL NULL / Go nil

ThreadIds == 1 .. MaxThread
PostIds == 1 .. MaxPost

AllKinds == {"reply", "newThread", "edit", "deletePost", "lock", "pin", "deleteThread"}

ThreadRow == [locked : BOOLEAN, pinned : BOOLEAN, replies : Nat]
\* op and late are history: the post was inserted by CreateThread; its parent
\* was not there when the depth of the reply was checked.
PostRow == [thread : ThreadIds, author : Users, parent : PostIds \cup {None},
            deleted : BOOLEAN, editedBy : Users \cup {None}, op : BOOLEAN,
            late : BOOLEAN]

ASSUME ConstantsOK ==
    /\ Mods \subseteq Users
    /\ MaxThread \in Nat /\ MaxPost \in Nat /\ MaxCount \in Nat
    /\ Kinds \subseteq AllKinds
    /\ ForeignKeys \subseteq BOOLEAN
    /\ Faults \in BOOLEAN
    /\ Users \cap ThreadIds = {}
    /\ None \notin Users \cup ThreadIds \cup PostIds \cup ThreadRow \cup PostRow

VARIABLES
    threads,    \* threads table: id -> row
    posts,      \* posts table: id -> row
    postCount,  \* users.post_count: user -> number
    missed,     \* history: replies a thread's or a user's counter missed,
                \* because its statement failed or never ran
    lost,       \* history: <<table, key>> of rows that a statement without
                \* foreign keys deleted, or referred to although missing
    req         \* the request each goroutine is serving

vars == <<threads, posts, postCount, missed, lost, req>>

-----------------------------------------------------------------------------
(* Requests.                                                               *)

PCs == {"idle", "depth", "insert", "lastPost", "postCount", "opInsert",
        "edit", "deletePost", "lock", "pin", "deleteThread"}

\* The locals of a handler; flag is the value a toggle will write, and late is
\* the history its post will have.
Request == [pc : PCs, user : Users \cup {None}, thread : ThreadIds \cup {None},
            post : PostIds \cup {None}, parent : PostIds \cup {None}, flag : BOOLEAN,
            late : BOOLEAN]

NoRequest == [pc |-> "idle", user |-> None, thread |-> None, post |-> None,
              parent |-> None, flag |-> FALSE, late |-> FALSE]

Threads == {t \in ThreadIds : threads[t] # None}
Posts == {i \in PostIds : posts[i] # None}

At(p, label) == req[p].pc = label
Goto(p, label) == req' = [req EXCEPT ![p].pc = label]
Finish(p) == req' = [req EXCEPT ![p] = NoRequest]
Start(p, kind, r) == At(p, "idle") /\ kind \in Kinds /\ req' = [req EXCEPT ![p] = r]

\* The key SQLite gives the next row of a table whose keys in use are keys.
NextKey(keys, k) ==
    /\ \A j \in keys : j < k
    /\ k = 1 \/ k - 1 \in keys

-----------------------------------------------------------------------------
(* Replying.                                                               *)

\* The parent comes from the form: that it is a post of the thread, or a post
\* at all, is not checked.
ReplyRead(p) ==
    /\ \E u \in Users, t \in Threads, parent \in PostIds \cup {None} :
         /\ ~threads[t].locked \/ u \in Mods
         /\ postCount[u] + missed[u] < MaxCount
         /\ Start(p, "reply",
                  [NoRequest EXCEPT !.pc = IF parent = None THEN "insert" ELSE "depth",
                                    !.user = u, !.thread = t, !.parent = parent])
    /\ UNCHANGED <<threads, posts, postCount, missed, lost>>

ParentOf(i) == IF i \in Posts THEN posts[i].parent ELSE None

\* Mutant: one level too many.
TooDeepOffByOne(parent) == ParentOf(ParentOf(ParentOf(parent))) # None

\* CreatePost refuses a parent that is itself a reply to a reply.
TooDeep(parent) == ParentOf(ParentOf(parent)) # None

\* A parent that is not there gives the query no row, and no error.
DepthCheck(p) ==
    /\ At(p, "depth")
    /\ IF TooDeep(req[p].parent) THEN Finish(p)
       ELSE req' = [req EXCEPT ![p].pc = "insert", ![p].late = req[p].parent \notin Posts]
    /\ UNCHANGED <<threads, posts, postCount, missed, lost>>

\* What the FOREIGN KEY clauses of posts ask of a new row i, which may be its
\* own parent, and what an unchecked one refers to in vain.
References(i, t, parent) == t \in Threads /\ parent \in Posts \cup {i, None}
Missing(i, t, parent) == {"thread"} \X ({t} \ Threads)
                         \cup {"post"} \X ({parent} \ (Posts \cup {i, None}))

\* Mutant: the author column is left out.
InsertPostNoAuthor(i, t, u, parent, op, late) ==
    /\ i \in PostIds /\ NextKey(Posts, i)
    /\ posts' = [posts EXCEPT ![i] =
                   [thread |-> t, author |-> None, parent |-> parent,
                    deleted |-> FALSE, editedBy |-> None, op |-> op, late |-> late]]

InsertPost(i, t, u, parent, op, late) ==
    /\ i \in PostIds /\ NextKey(Posts, i)
    /\ posts' = [posts EXCEPT ![i] =
                   [thread |-> t, author |-> u, parent |-> parent,
                    deleted |-> FALSE, editedBy |-> None, op |-> op, late |-> late]]

\* Mutant: a nested reply is not counted.
ReplyInsertNestedUncounted(p) ==
    /\ At(p, "insert")
    /\ \E fk \in ForeignKeys, i \in PostIds :
         /\ fk => References(i, req[p].thread, req[p].parent)
         /\ InsertPost(i, req[p].thread, req[p].user, req[p].parent, FALSE, req[p].late)
         /\ lost' = lost \cup Missing(i, req[p].thread, req[p].parent)
         /\ req' = [req EXCEPT
                ![p].pc = IF req[p].parent = None THEN "lastPost" ELSE "postCount",
                ![p].post = i]
    /\ UNCHANGED <<threads, postCount, missed>>

ReplyInsert(p) ==
    /\ At(p, "insert")
    /\ \E fk \in ForeignKeys, i \in PostIds :
         /\ fk => References(i, req[p].thread, req[p].parent)
         /\ InsertPost(i, req[p].thread, req[p].user, req[p].parent, FALSE, req[p].late)
         /\ lost' = lost \cup Missing(i, req[p].thread, req[p].parent)
         /\ req' = [req EXCEPT ![p].pc = "lastPost", ![p].post = i]
    /\ UNCHANGED <<threads, postCount, missed>>

\* UPDATE threads ... WHERE id = ?: no row, no effect.
UpdateLastPost(p) ==
    /\ At(p, "lastPost")
    /\ threads' = [t \in ThreadIds |->
                     IF t = req[p].thread /\ t \in Threads
                     THEN [threads[t] EXCEPT !.replies = @ + 1] ELSE threads[t]]
    /\ Goto(p, "postCount")
    /\ UNCHANGED <<posts, postCount, missed, lost>>

IncrementPostCount(p) ==
    /\ At(p, "postCount")
    /\ postCount' = [postCount EXCEPT ![req[p].user] = @ + 1]
    /\ Finish(p)
    /\ UNCHANGED <<threads, posts, missed, lost>>

-----------------------------------------------------------------------------
(* Starting a thread: two inserts, no counter.                             *)

\* Mutant: the opening post is counted as a reply.
NewThreadCounted(p) ==
    /\ \E u \in Users, t \in ThreadIds :
         /\ NextKey(Threads, t)
         /\ Start(p, "newThread",
                  [NoRequest EXCEPT !.pc = "opInsert", !.user = u, !.thread = t])
         /\ threads' = [threads EXCEPT
                ![t] = [locked |-> FALSE, pinned |-> FALSE, replies |-> 1]]
         /\ missed' = [missed EXCEPT ![t] = 0]
    /\ UNCHANGED <<posts, postCount, lost>>

NewThread(p) ==
    /\ \E u \in Users, t \in ThreadIds :
         /\ NextKey(Threads, t)
         /\ Start(p, "newThread",
                  [NoRequest EXCEPT !.pc = "opInsert", !.user = u, !.thread = t])
         /\ threads' = [threads EXCEPT
                ![t] = [locked |-> FALSE, pinned |-> FALSE, replies |-> 0]]
         /\ missed' = [missed EXCEPT ![t] = 0]
    /\ UNCHANGED <<posts, postCount, lost>>

OpInsert(p) ==
    /\ At(p, "opInsert")
    /\ \E fk \in ForeignKeys, i \in PostIds :
         /\ fk => References(i, req[p].thread, None)
         /\ InsertPost(i, req[p].thread, req[p].user, None, TRUE, FALSE)
         /\ lost' = lost \cup Missing(i, req[p].thread, None)
    /\ Finish(p)
    /\ UNCHANGED <<threads, postCount, missed>>

-----------------------------------------------------------------------------
(* Editing and removing a post.                                            *)

\* The author inside the edit window, or a moderator.
EditRead(p) ==
    /\ \E u \in Users, i \in Posts :
         /\ ~posts[i].deleted
         /\ u = posts[i].author \/ u \in Mods
         /\ Start(p, "edit", [NoRequest EXCEPT !.pc = "edit", !.user = u, !.post = i])
    /\ UNCHANGED <<threads, posts, postCount, missed, lost>>

\* Mutant: the whole row is written back as it was read.
EditSaveWholeRow(p) ==
    /\ At(p, "edit")
    /\ posts' = [i \in PostIds |->
                   IF i = req[p].post /\ i \in Posts
                   THEN [posts[i] EXCEPT !.editedBy = req[p].user, !.deleted = FALSE]
                   ELSE posts[i]]
    /\ Finish(p)
    /\ UNCHANGED <<threads, postCount, missed, lost>>

\* Body, format and held flag are not modelled; is_deleted is not written.
EditSave(p) ==
    /\ At(p, "edit")
    /\ posts' = [i \in PostIds |->
                   IF i = req[p].post /\ i \in Posts
                   THEN [posts[i] EXCEPT !.editedBy = req[p].user] ELSE posts[i]]
    /\ Finish(p)
    /\ UNCHANGED <<threads, postCount, missed, lost>>

DeletePostRead(p) ==
    /\ \E u \in Mods, i \in Posts :
         Start(p, "deletePost", [NoRequest EXCEPT !.pc = "deletePost", !.user = u, !.post = i])
    /\ UNCHANGED <<threads, posts, postCount, missed, lost>>

DeletePost(p) ==
    /\ At(p, "deletePost")
    /\ posts' = [i \in PostIds |->
                   IF i = req[p].post /\ i \in Posts
                   THEN [posts[i] EXCEPT !.deleted = TRUE, !.editedBy = req[p].user]
                   ELSE posts[i]]
    /\ Finish(p)
    /\ UNCHANGED <<threads, postCount, missed, lost>>

-----------------------------------------------------------------------------
(* Moderating a thread.                                                    *)

LockRead(p) ==
    /\ \E u \in Mods, t \in Threads :
         Start(p, "lock", [NoRequest EXCEPT !.pc = "lock", !.user = u, !.thread = t,
                                            !.flag = ~threads[t].locked])
    /\ UNCHANGED <<threads, posts, postCount, missed, lost>>

LockThread(p) ==
    /\ At(p, "lock")
    /\ threads' = [t \in ThreadIds |->
                     IF t = req[p].thread /\ t \in Threads
                     THEN [threads[t] EXCEPT !.locked = req[p].flag] ELSE threads[t]]
    /\ Finish(p)
    /\ UNCHANGED <<posts, postCount, missed, lost>>

PinRead(p) ==
    /\ \E u \in Mods, t \in Threads :
         Start(p, "pin", [NoRequest EXCEPT !.pc = "pin", !.user = u, !.thread = t,
                                           !.flag = ~threads[t].pinned])
    /\ UNCHANGED <<threads, posts, postCount, missed, lost>>

PinThread(p) ==
    /\ At(p, "pin")
    /\ threads' = [t \in ThreadIds |->
                     IF t = req[p].thread /\ t \in Threads
                     THEN [threads[t] EXCEPT !.pinned = req[p].flag] ELSE threads[t]]
    /\ Finish(p)
    /\ UNCHANGED <<posts, postCount, missed, lost>>

DeleteThreadRead(p) ==
    /\ \E u \in Mods, t \in Threads :
         Start(p, "deleteThread",
               [NoRequest EXCEPT !.pc = "deleteThread", !.user = u, !.thread = t])
    /\ UNCHANGED <<threads, posts, postCount, missed, lost>>

\* Mutant: only the top-level posts go with the thread.
CascadeTopLevel(t) ==
    LET gone == {i \in Posts : posts[i].thread = t /\ posts[i].parent = None
                              /\ t \in Threads} IN
    posts' = [i \in PostIds |-> IF i \in gone THEN None ELSE posts[i]]

\* ON DELETE CASCADE from threads to posts, ON DELETE SET NULL from a post to
\* its replies; without the row there is nothing to cascade from.
CascadePosts(t) ==
    LET gone == {i \in Posts : posts[i].thread = t /\ t \in Threads} IN
    posts' = [i \in PostIds |->
                IF i \in gone THEN None
                ELSE IF ParentOf(i) \in gone THEN [posts[i] EXCEPT !.parent = None]
                ELSE posts[i]]

DeleteThread(p) ==
    /\ At(p, "deleteThread")
    /\ threads' = [threads EXCEPT ![req[p].thread] = None]
    /\ \/ TRUE \in ForeignKeys /\ CascadePosts(req[p].thread) /\ UNCHANGED lost
       \/ /\ FALSE \in ForeignKeys /\ UNCHANGED posts
          /\ lost' = lost \cup {<<"thread", req[p].thread>>}
    /\ Finish(p)
    /\ UNCHANGED <<postCount, missed>>

-----------------------------------------------------------------------------
(* Failures.                                                               *)

\* A failed insert ends the request with an error page.
InsertFails(p) ==
    /\ TRUE \in ForeignKeys
    /\ \E i \in PostIds :
         /\ NextKey(Posts, i)
         /\ \/ At(p, "insert") /\ ~References(i, req[p].thread, req[p].parent)
            \/ At(p, "opInsert") /\ ~References(i, req[p].thread, None)
    /\ Finish(p)
    /\ UNCHANGED <<threads, posts, postCount, missed, lost>>

\* The counters that a request which is given up here leaves behind.
Skipped(p) ==
    CASE At(p, "lastPost")  -> {req[p].thread, req[p].user}
      [] At(p, "postCount") -> {req[p].user}
      [] OTHER              -> {}

Miss(counters) ==
    missed' = [c \in ThreadIds \cup Users |->
                 IF c \in counters THEN missed[c] + 1 ELSE missed[c]]

\* After the insert the handler only logs a failed counter and goes on.
LogAndGoOn(p) ==
    /\ Faults
    /\ \/ At(p, "lastPost") /\ Goto(p, "postCount") /\ Miss({req[p].thread})
       \/ At(p, "postCount") /\ Finish(p) /\ Miss({req[p].user})
    /\ UNCHANGED <<threads, posts, postCount, lost>>

\* The key space of the model is used up.
OutOfKeys(p) == req[p].pc \in {"insert", "opInsert"} /\ MaxPost \in Posts

\* The request is cut off: a failed statement, a cancel, a crash.
Abort(p) ==
    /\ ~At(p, "idle")
    /\ Faults \/ OutOfKeys(p)
    /\ Finish(p)
    /\ Miss(Skipped(p))
    /\ UNCHANGED <<threads, posts, postCount, lost>>

Init ==
    /\ threads = [t \in ThreadIds |-> None]
    /\ posts = [i \in PostIds |-> None]
    /\ postCount = [u \in Users |-> 0]
    /\ missed = [c \in ThreadIds \cup Users |-> 0]
    /\ lost = {}
    /\ req = [p \in Procs |-> NoRequest]

Reply(p) == ReplyRead(p) \/ DepthCheck(p) \/ ReplyInsert(p) \/ UpdateLastPost(p)
            \/ IncrementPostCount(p)
CreateThread(p) == NewThread(p) \/ OpInsert(p)
EditPost(p) == EditRead(p) \/ EditSave(p)
RemovePost(p) == DeletePostRead(p) \/ DeletePost(p)
Moderate(p) == LockRead(p) \/ LockThread(p) \/ PinRead(p) \/ PinThread(p)
               \/ DeleteThreadRead(p) \/ DeleteThread(p)
Fail(p) == InsertFails(p) \/ LogAndGoOn(p) \/ Abort(p)

Next == \E p \in Procs :
    Reply(p) \/ CreateThread(p) \/ EditPost(p) \/ RemovePost(p) \/ Moderate(p) \/ Fail(p)

Spec == Init /\ [][Next]_vars

-----------------------------------------------------------------------------
(* Properties.                                                             *)

TypeOK ==
    /\ threads \in [ThreadIds -> ThreadRow \cup {None}]
    /\ posts \in [PostIds -> PostRow \cup {None}]
    /\ postCount \in [Users -> Nat]
    /\ missed \in [ThreadIds \cup Users -> Nat]
    /\ lost \subseteq {"thread"} \X ThreadIds \cup {"post"} \X PostIds
    /\ req \in [Procs -> Request]

RepliesIn(t) == {i \in Posts : posts[i].thread = t /\ ~posts[i].op}
RepliesBy(u) == {i \in Posts : posts[i].author = u /\ ~posts[i].op}
Counting(t) == {p \in Procs : At(p, "lastPost") /\ req[p].thread = t}
Crediting(u) == {p \in Procs : req[p].pc \in {"lastPost", "postCount"} /\ req[p].user = u}

\* As long as no thread is deleted, reply_count and post_count account for every
\* reply in the posts table: it was counted once, by whoever and at whatever
\* level it was posted, or its handler is on its way to count it, or the
\* statement that should have counted it failed or never ran.
CountersExact ==
    /\ \A t \in Threads :
         threads[t].replies + missed[t] + Cardinality(Counting(t))
         = Cardinality(RepliesIn(t))
    /\ \A u \in Users :
         postCount[u] + missed[u] + Cardinality(Crediting(u))
         = Cardinality(RepliesBy(u))

\* When threads are deleted and their keys come back, a reply that is there is
\* still accounted for in its thread and for its author.  The exception is a
\* thread under whose key a statement without foreign keys left posts behind.
CountersNeverBehind ==
    /\ \A t \in Threads :
         \/ <<"thread", t>> \in lost
         \/ threads[t].replies + missed[t] + Cardinality(Counting(t))
            >= Cardinality(RepliesIn(t))
    /\ \A u \in Users :
         postCount[u] + missed[u] + Cardinality(Crediting(u))
         >= Cardinality(RepliesBy(u))

\* Claim of sqlite/post.go, as long as no thread is deleted: a chain of replies
\* is at most two levels below a top-level post, whatever replies race between
\* the depth check and the insert.  Deeper hangs only a reply to a key that was
\* no post when its depth was checked, or a chain through a key that a post
\* referred to, without foreign keys, before that was a post.
NestingBounded ==
    \A i \in Posts :
        ParentOf(ParentOf(ParentOf(i))) # None
        => posts[i].late \/ <<"post", ParentOf(ParentOf(i))>> \in lost

\* A post belongs to a thread that exists and answers a post that exists,
\* whatever deletions and guessed parents run between the form and the insert,
\* but for the rows that a statement without foreign keys deleted or missed:
\* nothing that a connection with foreign keys does leaves another reference.
NoDanglingReference ==
    \A i \in Posts :
        /\ posts[i].thread \in Threads \/ <<"thread", posts[i].thread>> \in lost
        /\ posts[i].parent \in Posts \cup {None} \/ <<"post", posts[i].parent>> \in lost

\* A removed post stays removed as long as its row exists: an edit whose
\* handler read the post before it was removed does not bring it back.
RemovedStaysRemoved ==
    [][\A i \in Posts : posts[i].deleted /\ posts'[i] # None => posts'[i].deleted]_vars
=============================================================================
