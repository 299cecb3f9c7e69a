-------------------------- MODULE Discussion_proofs --------------------------
(***************************************************************************)
(* Proofs about Discussion, for any users, goroutines and bounds on keys.  *)
(***************************************************************************)
EXTENDS Discussion, FiniteSetTheorems, TLAPS

-----------------------------------------------------------------------------
(* Types.                                                                  *)

\* NULL is no key and no row.
LEMMA NullIsNoRow ==
    /\ None \notin Users /\ None \notin ThreadIds /\ None \notin PostIds
    /\ None \notin ThreadRow /\ None \notin PostRow
    /\ Mods \subseteq Users
BY ConstantsOK

\* The locals the label of a request needs are set.
LocalsSet(r) ==
    /\ r.pc # "idle" => r.user \in Users
    /\ r.pc \in {"insert", "depth", "lastPost", "opInsert", "lock", "pin", "deleteThread"}
       => r.thread \in ThreadIds

TypeInv == TypeOK /\ \A p \in Procs : LocalsSet(req[p])

\* A step that moves p to proper locals and keeps the tables typed.
LEMMA AdvanceOne ==
    ASSUME TypeInv, NEW p \in Procs, NEW r, req' = [req EXCEPT ![p] = r],
           r \in Request, LocalsSet(r),
           threads' \in [ThreadIds -> ThreadRow \cup {None}],
           posts' \in [PostIds -> PostRow \cup {None}],
           postCount' \in [Users -> Nat],
           missed' \in [ThreadIds \cup Users -> Nat],
           lost' \subseteq {"thread"} \X ThreadIds \cup {"post"} \X PostIds
    PROVE  TypeInv'
BY DEF TypeInv, TypeOK

LEMMA NoRequestType == NoRequest \in Request /\ LocalsSet(NoRequest)
BY DEF NoRequest, Request, PCs, LocalsSet

\* The references an insert may leave without a row are keys.
LEMMA MissingType ==
    ASSUME NEW i, NEW t \in ThreadIds, NEW parent \in PostIds \cup {None}
    PROVE  Missing(i, t, parent) \subseteq {"thread"} \X ThreadIds \cup {"post"} \X PostIds
BY DEF Missing

\* Giving up a counter counts what it missed.
LEMMA MissType ==
    ASSUME TypeInv, NEW counters, Miss(counters)
    PROVE  missed' \in [ThreadIds \cup Users -> Nat]
BY DEF Miss, TypeInv, TypeOK

\* Reading statements and the start of a request.
LEMMA TypeStart ==
    ASSUME TypeInv, NEW p \in Procs,
           \/ ReplyRead(p) \/ EditRead(p) \/ DeletePostRead(p)
           \/ LockRead(p) \/ PinRead(p) \/ DeleteThreadRead(p)
    PROVE  TypeInv'
<1> USE NullIsNoRow
<1>1. PICK r : /\ req' = [req EXCEPT ![p] = r]
               /\ r \in Request /\ LocalsSet(r)
  <2>1. CASE ReplyRead(p)
    <3>1. PICK u \in Users, t \in Threads, parent \in PostIds \cup {None} :
            req' = [req EXCEPT ![p] =
                  [NoRequest EXCEPT !.pc = IF parent = None THEN "insert" ELSE "depth",
                                    !.user = u, !.thread = t, !.parent = parent]]
      BY <2>1 DEF ReplyRead, Start
    <3>2. PICK r : r = [NoRequest EXCEPT !.pc = IF parent = None THEN "insert" ELSE "depth",
                                    !.user = u, !.thread = t, !.parent = parent]
      OBVIOUS
    <3>3. r \in Request /\ LocalsSet(r)
      BY <3>2 DEF NoRequest, Request, PCs, LocalsSet, Threads, Posts
    <3>4. QED BY <3>1, <3>2, <3>3
  <2>2. CASE EditRead(p)
    <3>1. PICK u \in Users, i \in Posts :
            req' = [req EXCEPT ![p] = [NoRequest EXCEPT !.pc = "edit", !.user = u, !.post = i]]
      BY <2>2 DEF EditRead, Start
    <3>2. PICK r : r = [NoRequest EXCEPT !.pc = "edit", !.user = u, !.post = i]
      OBVIOUS
    <3>3. r \in Request /\ LocalsSet(r)
      BY <3>2 DEF NoRequest, Request, PCs, LocalsSet, Posts
    <3>4. QED BY <3>1, <3>2, <3>3
  <2>3. CASE DeletePostRead(p)
    <3>1. PICK u \in Mods, i \in Posts :
            req' = [req EXCEPT ![p] =
                        [NoRequest EXCEPT !.pc = "deletePost", !.user = u, !.post = i]]
      BY <2>3 DEF DeletePostRead, Start
    <3>2. PICK r : r = [NoRequest EXCEPT !.pc = "deletePost", !.user = u, !.post = i]
      OBVIOUS
    <3>3. r \in Request /\ LocalsSet(r)
      BY <3>2 DEF NoRequest, Request, PCs, LocalsSet, Posts
    <3>4. QED BY <3>1, <3>2, <3>3
  <2>4. CASE LockRead(p) \/ PinRead(p)
    <3>1. PICK u \in Mods, t \in Threads, pc \in {"lock", "pin"}, flag \in BOOLEAN :
            req' = [req EXCEPT ![p] = [NoRequest EXCEPT !.pc = pc, !.user = u,
                                                        !.thread = t, !.flag = flag]]
      <4>1. \A t \in Threads : (~threads[t].locked) \in BOOLEAN /\ (~threads[t].pinned) \in BOOLEAN
        OBVIOUS
      <4>2. CASE LockRead(p)
        BY <4>1, <4>2 DEF LockRead, Start
      <4>3. CASE PinRead(p)
        BY <4>1, <4>3 DEF PinRead, Start
      <4>4. QED BY <2>4, <4>2, <4>3
    <3>2. PICK r : r = [NoRequest EXCEPT !.pc = pc, !.user = u, !.thread = t, !.flag = flag]
      OBVIOUS
    <3>3. r \in Request /\ LocalsSet(r)
      BY <3>2 DEF NoRequest, Request, PCs, LocalsSet, Threads
    <3>4. QED BY <3>1, <3>2, <3>3
  <2>5. CASE DeleteThreadRead(p)
    <3>1. PICK u \in Mods, t \in Threads :
            req' = [req EXCEPT ![p] =
                      [NoRequest EXCEPT !.pc = "deleteThread", !.user = u, !.thread = t]]
      BY <2>5 DEF DeleteThreadRead, Start
    <3>2. PICK r : r = [NoRequest EXCEPT !.pc = "deleteThread", !.user = u, !.thread = t]
      OBVIOUS
    <3>3. r \in Request /\ LocalsSet(r)
      BY <3>2 DEF NoRequest, Request, PCs, LocalsSet, Threads
    <3>4. QED BY <3>1, <3>2, <3>3
  <2>6. QED BY <2>1, <2>2, <2>3, <2>4, <2>5
<1>2. UNCHANGED <<threads, posts, postCount, missed, lost>>
  BY DEF ReplyRead, EditRead, DeletePostRead, LockRead, PinRead, DeleteThreadRead
<1>3. QED BY <1>1, <1>2, AdvanceOne DEF TypeInv, TypeOK

\* Statements that change only the request.
LEMMA TypeGoto ==
    ASSUME TypeInv, NEW p \in Procs, DepthCheck(p) \/ Fail(p)
    PROVE  TypeInv'
<1> USE NullIsNoRow
<1>1. PICK r : /\ req' = [req EXCEPT ![p] = r]
               /\ r \in Request /\ LocalsSet(r)
  <2>1. CASE Finish(p)
    BY <2>1, NoRequestType DEF Finish
  <2>2. CASE /\ At(p, "depth")
             /\ req' = [req EXCEPT ![p].pc = "insert", ![p].late = req[p].parent \notin Posts]
    <3>1. PICK old \in Request : old = req[p] /\ LocalsSet(old) /\ old.pc = "depth"
      BY <2>2 DEF TypeInv, TypeOK, At
    <3>2. PICK late \in BOOLEAN : late = (old.parent \notin Posts)
      OBVIOUS
    <3>3. PICK r : r = [old EXCEPT !.pc = "insert", !.late = late]
      OBVIOUS
    <3>4. r \in Request
      BY <3>3 DEF Request, PCs
    <3>5. LocalsSet(r)
      BY <3>1, <3>3 DEF LocalsSet, Request
    <3>6. req' = [req EXCEPT ![p].pc = "insert", ![p].late = late]
      BY <2>2, <3>1, <3>2
    <3>7. req' = [req EXCEPT ![p] = r]
      BY <3>1, <3>3, <3>6 DEF TypeInv, TypeOK
    <3>8. QED BY <3>4, <3>5, <3>7
  <2>3. CASE At(p, "lastPost") /\ Goto(p, "postCount")
    <3>1. PICK r : r = [req[p] EXCEPT !.pc = "postCount"]
      OBVIOUS
    <3>2. r \in Request /\ LocalsSet(r)
      BY <2>3, <3>1 DEF TypeInv, TypeOK, LocalsSet, Request, PCs, At
    <3>3. req' = [req EXCEPT ![p] = r]
      BY <2>3, <3>1 DEF TypeInv, TypeOK, Goto
    <3>4. QED BY <3>2, <3>3
  <2>4. QED BY <2>1, <2>2, <2>3 DEF DepthCheck, Fail, InsertFails, LogAndGoOn, Abort
<1>2. UNCHANGED <<threads, posts, postCount, lost>>
  BY DEF DepthCheck, Fail, InsertFails, LogAndGoOn, Abort
<1>3. missed' \in [ThreadIds \cup Users -> Nat]
  <2>1. CASE UNCHANGED missed
    BY <2>1 DEF TypeInv, TypeOK
  <2>2. CASE \E counters : Miss(counters)
    BY <2>2, MissType
  <2>3. QED BY <2>1, <2>2 DEF DepthCheck, Fail, InsertFails, LogAndGoOn, Abort
<1>4. QED BY <1>1, <1>2, <1>3, AdvanceOne DEF TypeInv, TypeOK

\* What an insert into posts leaves there.
LEMMA InsertType ==
    ASSUME TypeInv, NEW i, NEW t \in ThreadIds, NEW u \in Users,
           NEW parent \in PostIds \cup {None}, NEW op \in BOOLEAN, NEW late \in BOOLEAN,
           InsertPost(i, t, u, parent, op, late)
    PROVE  i \in PostIds /\ posts' \in [PostIds -> PostRow \cup {None}]
<1>1. [thread |-> t, author |-> u, parent |-> parent,
       deleted |-> FALSE, editedBy |-> None, op |-> op, late |-> late] \in PostRow
  BY DEF PostRow
<1>2. QED BY <1>1 DEF InsertPost, TypeInv, TypeOK

LEMMA TypeReply ==
    ASSUME TypeInv, NEW p \in Procs,
           ReplyInsert(p) \/ UpdateLastPost(p) \/ IncrementPostCount(p)
    PROVE  TypeInv'
<1> USE NullIsNoRow
<1>0. req[p] \in Request /\ LocalsSet(req[p])
  BY DEF TypeInv, TypeOK
<1>1. CASE ReplyInsert(p)
  <2>1. PICK i \in PostIds :
          /\ InsertPost(i, req[p].thread, req[p].user, req[p].parent, FALSE, req[p].late)
          /\ lost' = lost \cup Missing(i, req[p].thread, req[p].parent)
          /\ req' = [req EXCEPT ![p].pc = "lastPost", ![p].post = i]
    BY <1>1 DEF ReplyInsert
  <2>2. /\ req[p].thread \in ThreadIds /\ req[p].user \in Users
        /\ req[p].parent \in PostIds \cup {None}
    BY <1>0, <1>1 DEF ReplyInsert, At, LocalsSet, Request
  <2>3. posts' \in [PostIds -> PostRow \cup {None}]
    <3>1. PICK t \in ThreadIds, u \in Users, parent \in PostIds \cup {None} :
            t = req[p].thread /\ u = req[p].user /\ parent = req[p].parent
      BY <2>2
    <3>2. PICK op \in BOOLEAN, late \in BOOLEAN : op = FALSE /\ late = req[p].late
      BY <1>0 DEF Request
    <3>3. InsertPost(i, t, u, parent, op, late)
      BY <2>1, <3>1, <3>2
    <3>4. QED BY <3>3, InsertType
  <2>4. PICK r : r = [req[p] EXCEPT !.pc = "lastPost", !.post = i]
    OBVIOUS
  <2>5. r \in Request /\ LocalsSet(r)
    BY <2>2, <2>4, <1>0 DEF LocalsSet, Request, PCs
  <2>6. req' = [req EXCEPT ![p] = r]
    BY <2>1, <2>4 DEF TypeInv, TypeOK
  <2>7. lost' \subseteq {"thread"} \X ThreadIds \cup {"post"} \X PostIds
    BY <2>1, <2>2, MissingType DEF TypeInv, TypeOK
  <2>8. QED BY <1>1, <2>3, <2>5, <2>6, <2>7, AdvanceOne DEF ReplyInsert, TypeInv, TypeOK
<1>2. CASE UpdateLastPost(p)
  <2>1. threads' \in [ThreadIds -> ThreadRow \cup {None}]
    <3>1. \A t \in Threads : [threads[t] EXCEPT !.replies = @ + 1] \in ThreadRow
      BY DEF TypeInv, TypeOK, ThreadRow, Threads
    <3>2. QED BY <1>2, <3>1 DEF UpdateLastPost, TypeInv, TypeOK
  <2>2. PICK r : r = [req[p] EXCEPT !.pc = "postCount"]
    OBVIOUS
  <2>3. r \in Request /\ LocalsSet(r)
    BY <1>0, <1>2, <2>2 DEF UpdateLastPost, At, LocalsSet, Request, PCs
  <2>4. req' = [req EXCEPT ![p] = r]
    BY <1>2, <2>2 DEF UpdateLastPost, Goto, TypeInv, TypeOK
  <2>5. QED BY <1>2, <2>1, <2>3, <2>4, AdvanceOne DEF UpdateLastPost, TypeInv, TypeOK
<1>3. CASE IncrementPostCount(p)
  <2>1. postCount' \in [Users -> Nat]
    BY <1>0, <1>3 DEF IncrementPostCount, At, LocalsSet, TypeInv, TypeOK
  <2>2. QED BY <1>3, <2>1, NoRequestType, AdvanceOne
            DEF IncrementPostCount, Finish, TypeInv, TypeOK
<1>4. QED BY <1>1, <1>2, <1>3

LEMMA TypeCreateThread ==
    ASSUME TypeInv, NEW p \in Procs, CreateThread(p)
    PROVE  TypeInv'
<1> USE NullIsNoRow
<1>1. CASE NewThread(p)
  <2>1. PICK u \in Users, t \in ThreadIds :
          /\ req' = [req EXCEPT ![p] =
                       [NoRequest EXCEPT !.pc = "opInsert", !.user = u, !.thread = t]]
          /\ threads' = [threads EXCEPT
                ![t] = [locked |-> FALSE, pinned |-> FALSE, replies |-> 0]]
          /\ missed' = [missed EXCEPT ![t] = 0]
    BY <1>1 DEF NewThread, Start
  <2>2. PICK r : r = [NoRequest EXCEPT !.pc = "opInsert", !.user = u, !.thread = t]
    OBVIOUS
  <2>3. r \in Request /\ LocalsSet(r)
    BY <2>2 DEF NoRequest, LocalsSet, Request, PCs
  <2>4. threads' \in [ThreadIds -> ThreadRow \cup {None}]
    BY <2>1 DEF ThreadRow, TypeInv, TypeOK
  <2>5. missed' \in [ThreadIds \cup Users -> Nat]
    BY <2>1 DEF TypeInv, TypeOK
  <2>6. QED BY <1>1, <2>1, <2>2, <2>3, <2>4, <2>5, AdvanceOne
            DEF NewThread, TypeInv, TypeOK
<1>2. CASE OpInsert(p)
  <2>1. PICK i \in PostIds :
          /\ InsertPost(i, req[p].thread, req[p].user, None, TRUE, FALSE)
          /\ lost' = lost \cup Missing(i, req[p].thread, None)
    BY <1>2 DEF OpInsert
  <2>2. req[p].thread \in ThreadIds /\ req[p].user \in Users
    BY <1>2 DEF TypeInv, OpInsert, At, LocalsSet
  <2>3. posts' \in [PostIds -> PostRow \cup {None}]
    BY <2>1, <2>2, InsertType
  <2>4. lost' \subseteq {"thread"} \X ThreadIds \cup {"post"} \X PostIds
    BY <2>1, <2>2, MissingType DEF TypeInv, TypeOK
  <2>5. QED BY <1>2, <2>3, <2>4, NoRequestType, AdvanceOne
            DEF OpInsert, Finish, TypeInv, TypeOK
<1>3. QED BY <1>1, <1>2 DEF CreateThread

\* A cascade takes a post away, or its parent from it, or leaves it.
LEMMA ReparentsPosts ==
    ASSUME NEW t, CascadePosts(t), NEW i \in PostIds
    PROVE  \/ i \in Posts /\ posts[i].thread = t /\ t \in Threads /\ posts'[i] = None
           \/ /\ posts'[i] = posts[i]
              /\ ~(i \in Posts /\ posts[i].thread = t /\ t \in Threads)
              /\ ~(/\ ParentOf(i) \in Posts /\ posts[ParentOf(i)].thread = t
                   /\ t \in Threads)
           \/ /\ i \in Posts /\ ~(posts[i].thread = t /\ t \in Threads)
              /\ ParentOf(i) \in Posts /\ posts[ParentOf(i)].thread = t /\ t \in Threads
              /\ posts'[i] = [posts[i] EXCEPT !.parent = None]
<1> DEFINE gone == {j \in Posts : posts[j].thread = t /\ t \in Threads}
<1>1. posts'[i] = IF i \in gone THEN None
                  ELSE IF ParentOf(i) \in gone THEN [posts[i] EXCEPT !.parent = None]
                  ELSE posts[i]
  BY DEF CascadePosts
<1>2. i \notin Posts => ParentOf(i) \notin gone
  BY NullIsNoRow DEF ParentOf, Posts
<1>3. QED BY <1>1, <1>2

LEMMA TypeWrite ==
    ASSUME TypeInv, NEW p \in Procs,
           \/ EditSave(p) \/ DeletePost(p) \/ LockThread(p) \/ PinThread(p)
           \/ DeleteThread(p)
    PROVE  TypeInv'
<1> USE NullIsNoRow
<1>0. req[p] \in Request /\ LocalsSet(req[p]) /\ Finish(p)
  BY DEF TypeInv, TypeOK, EditSave, DeletePost, LockThread, PinThread, DeleteThread
<1>1. threads' \in [ThreadIds -> ThreadRow \cup {None}]
  <2>1. CASE LockThread(p)
    <3>1. \A t \in Threads : [threads[t] EXCEPT !.locked = req[p].flag] \in ThreadRow
      BY <1>0 DEF TypeInv, TypeOK, ThreadRow, Threads, Request
    <3>2. QED BY <2>1, <3>1 DEF LockThread, TypeInv, TypeOK
  <2>2. CASE PinThread(p)
    <3>1. \A t \in Threads : [threads[t] EXCEPT !.pinned = req[p].flag] \in ThreadRow
      BY <1>0 DEF TypeInv, TypeOK, ThreadRow, Threads, Request
    <3>2. QED BY <2>2, <3>1 DEF PinThread, TypeInv, TypeOK
  <2>3. CASE EditSave(p) \/ DeletePost(p) \/ DeleteThread(p)
    BY <2>3 DEF EditSave, DeletePost, DeleteThread, TypeInv, TypeOK
  <2>4. QED BY <2>1, <2>2, <2>3
<1>2. posts' \in [PostIds -> PostRow \cup {None}]
  <2>0. \A i \in Posts : posts[i] \in PostRow
    BY DEF TypeInv, TypeOK, Posts
  <2>1. CASE EditSave(p)
    <3>1. \A i \in Posts : [posts[i] EXCEPT !.editedBy = req[p].user] \in PostRow
      BY <1>0, <2>0, <2>1 DEF EditSave, At, LocalsSet, PostRow
    <3>2. QED BY <2>1, <3>1 DEF EditSave, TypeInv, TypeOK
  <2>2. CASE DeletePost(p)
    <3>1. \A i \in Posts :
            [posts[i] EXCEPT !.deleted = TRUE, !.editedBy = req[p].user] \in PostRow
      BY <1>0, <2>0, <2>2 DEF DeletePost, At, LocalsSet, PostRow
    <3>2. QED BY <2>2, <3>1 DEF DeletePost, TypeInv, TypeOK
  <2>3. CASE DeleteThread(p)
    <3>1. \A i \in Posts : [posts[i] EXCEPT !.parent = None] \in PostRow
      BY <2>0 DEF PostRow
    <3>2. CASE CascadePosts(req[p].thread)
      <4>1. \A i \in PostIds :
              \/ posts'[i] = None \/ posts'[i] = posts[i]
              \/ i \in Posts /\ posts'[i] = [posts[i] EXCEPT !.parent = None]
        BY <3>2, ReparentsPosts
      <4>2. posts' = [i \in PostIds |-> posts'[i]]
        BY <3>2 DEF CascadePosts
      <4>3. QED BY <3>1, <4>1, <4>2 DEF TypeInv, TypeOK
    <3>3. QED BY <2>3, <3>2 DEF DeleteThread, TypeInv, TypeOK
  <2>4. CASE LockThread(p) \/ PinThread(p)
    BY <2>4 DEF LockThread, PinThread, TypeInv, TypeOK
  <2>5. QED BY <2>1, <2>2, <2>3, <2>4
<1>3. postCount' \in [Users -> Nat]
  BY DEF EditSave, DeletePost, LockThread, PinThread, DeleteThread, TypeInv, TypeOK
<1>4. UNCHANGED missed
  BY DEF EditSave, DeletePost, LockThread, PinThread, DeleteThread
<1>5. lost' \subseteq {"thread"} \X ThreadIds \cup {"post"} \X PostIds
  <2>1. CASE DeleteThread(p)
    <3>1. req[p].thread \in ThreadIds
      BY <1>0, <2>1 DEF DeleteThread, At, LocalsSet
    <3>2. <<"thread", req[p].thread>> \in {"thread"} \X ThreadIds
      BY <3>1
    <3>3. lost' = lost \/ lost' = lost \cup {<<"thread", req[p].thread>>}
      BY <2>1 DEF DeleteThread
    <3>4. QED BY <3>2, <3>3 DEF TypeInv, TypeOK
  <2>2. CASE ~DeleteThread(p)
    BY <2>2 DEF EditSave, DeletePost, LockThread, PinThread, TypeInv, TypeOK
  <2>3. QED BY <2>1, <2>2
<1>6. QED BY <1>0, <1>1, <1>2, <1>3, <1>4, <1>5, NoRequestType, AdvanceOne
          DEF Finish, TypeInv, TypeOK

LEMMA TypeInit == Init => TypeInv
BY NoRequestType, NullIsNoRow DEF Init, TypeInv, TypeOK

LEMMA TypeStep == TypeInv /\ [Next]_vars => TypeInv'
<1> SUFFICES ASSUME TypeInv, [Next]_vars PROVE TypeInv'
  OBVIOUS
<1>1. CASE UNCHANGED vars
  BY <1>1 DEF vars, TypeInv, TypeOK
<1>2. ASSUME NEW p \in Procs,
             Reply(p) \/ CreateThread(p) \/ EditPost(p) \/ RemovePost(p) \/ Moderate(p) \/ Fail(p)
      PROVE  TypeInv'
  BY <1>2, TypeStart, TypeGoto, TypeReply, TypeCreateThread, TypeWrite
     DEF Reply, EditPost, RemovePost, Moderate
<1>3. QED BY <1>1, <1>2 DEF Next

\* Every table row and every local of a handler keeps its type.
THEOREM TypeCorrect == Spec => []TypeOK
<1>1. TypeInv => TypeOK
  BY DEF TypeInv
<1>2. QED BY <1>1, TypeInit, TypeStep, PTL DEF Spec

-----------------------------------------------------------------------------
(* Removal.                                                                *)

\* The next key of posts is not in use.
LEMMA NextKeyIsFree ==
    ASSUME NEW i \in PostIds, NextKey(Posts, i)
    PROVE  i \notin Posts
BY DEF NextKey, PostIds, Posts

\* An insert adds one row and keeps the others.
LEMMA InsertKeepsRows ==
    ASSUME TypeInv, NEW i, NEW t \in ThreadIds, NEW u \in Users,
           NEW parent \in PostIds \cup {None}, NEW op \in BOOLEAN, NEW late \in BOOLEAN,
           InsertPost(i, t, u, parent, op, late)
    PROVE  /\ i \in PostIds /\ i \notin Posts
           /\ Posts' = Posts \cup {i}
           /\ posts'[i].thread = t /\ posts'[i].parent = parent
           /\ late => posts'[i].late
           /\ \A j \in Posts : posts'[j] = posts[j]
<1>1. i \in PostIds /\ i \notin Posts
  BY NextKeyIsFree DEF InsertPost
<1>2. posts'[i] = [thread |-> t, author |-> u, parent |-> parent,
                   deleted |-> FALSE, editedBy |-> None, op |-> op, late |-> late]
  BY <1>1 DEF InsertPost, TypeInv, TypeOK
<1>3. posts'[i] # None
  <2>1. [thread |-> t, author |-> u, parent |-> parent,
         deleted |-> FALSE, editedBy |-> None, op |-> op, late |-> late] \in PostRow
    BY NullIsNoRow DEF PostRow
  <2>2. QED BY <1>2, <2>1, NullIsNoRow
<1>4. \A j \in PostIds : j # i => posts'[j] = posts[j]
  BY DEF InsertPost, TypeInv, TypeOK
<1>5. QED BY <1>1, <1>2, <1>3, <1>4 DEF Posts

\* What the two inserting statements insert, and leave without a row.
LEMMA Inserts ==
    ASSUME TypeInv, NEW p \in Procs, ReplyInsert(p) \/ OpInsert(p)
    PROVE  \E i \in PostIds, t \in ThreadIds, u \in Users,
              parent \in PostIds \cup {None}, op \in BOOLEAN, late \in BOOLEAN :
             /\ InsertPost(i, t, u, parent, op, late)
             /\ lost' = lost \cup Missing(i, t, parent)
             /\ \/ parent = None
                \/ ReplyInsert(p) /\ parent = req[p].parent /\ late = req[p].late
<1>0. req[p] \in Request /\ LocalsSet(req[p])
  BY DEF TypeInv, TypeOK
<1>1. CASE ReplyInsert(p)
  <2>1. /\ req[p].thread \in ThreadIds /\ req[p].user \in Users
        /\ req[p].parent \in PostIds \cup {None} /\ req[p].late \in BOOLEAN
    BY <1>0, <1>1 DEF ReplyInsert, At, LocalsSet, Request
  <2>2. PICK i \in PostIds :
          /\ InsertPost(i, req[p].thread, req[p].user, req[p].parent, FALSE, req[p].late)
          /\ lost' = lost \cup Missing(i, req[p].thread, req[p].parent)
    BY <1>1, Zenon DEF ReplyInsert
  <2>3. FALSE \in BOOLEAN
    OBVIOUS
  <2>4. QED BY <1>1, <2>1, <2>2, <2>3, Zenon
<1>2. CASE OpInsert(p)
  <2>1. req[p].thread \in ThreadIds /\ req[p].user \in Users
    BY <1>0, <1>2 DEF OpInsert, At, LocalsSet
  <2>2. PICK i \in PostIds :
          /\ InsertPost(i, req[p].thread, req[p].user, None, TRUE, FALSE)
          /\ lost' = lost \cup Missing(i, req[p].thread, None)
    BY <1>2, Zenon DEF OpInsert
  <2>3. None \in PostIds \cup {None} /\ TRUE \in BOOLEAN /\ FALSE \in BOOLEAN
    OBVIOUS
  <2>4. QED BY <2>1, <2>2, <2>3, Zenon
<1>3. QED BY <1>1, <1>2

\* The statements that update one post keep all rows, their thread and parent.
LEMMA UpdateKeepsRows ==
    ASSUME TypeInv, NEW p \in Procs, EditSave(p) \/ DeletePost(p)
    PROVE  /\ Posts' = Posts
           /\ \A i \in Posts : /\ posts'[i].thread = posts[i].thread
                               /\ posts'[i].parent = posts[i].parent
                               /\ posts'[i].late = posts[i].late
<1>0. \A i \in Posts : i \in PostIds /\ posts[i] \in PostRow
  BY DEF TypeInv, TypeOK, Posts
<1>1. req[p].user \in Users
  BY DEF EditSave, DeletePost, At, TypeInv, LocalsSet
<1>3. ASSUME NEW i \in Posts
      PROVE  /\ posts'[i] \in PostRow
             /\ posts'[i].thread = posts[i].thread /\ posts'[i].parent = posts[i].parent
             /\ posts'[i].late = posts[i].late
  <2>1. CASE posts'[i] = posts[i]
    BY <1>0, <2>1
  <2>2. CASE posts'[i] = [posts[i] EXCEPT !.editedBy = req[p].user]
    BY <1>0, <1>1, <2>2 DEF PostRow
  <2>3. CASE posts'[i] = [posts[i] EXCEPT !.deleted = TRUE, !.editedBy = req[p].user]
    BY <1>0, <1>1, <2>3 DEF PostRow
  <2>4. QED BY <1>0, <2>1, <2>2, <2>3 DEF EditSave, DeletePost
<1>4. \A i \in PostIds : i \notin Posts => posts'[i] = None
  BY DEF EditSave, DeletePost, Posts
<1>5. QED BY <1>3, <1>4, NullIsNoRow DEF Posts

\* The steps that write the posts table.
LEMMA PostWriters ==
    ASSUME NEW p \in Procs,
           Reply(p) \/ CreateThread(p) \/ EditPost(p) \/ RemovePost(p) \/ Moderate(p) \/ Fail(p)
    PROVE  \/ UNCHANGED posts
           \/ ReplyInsert(p) \/ OpInsert(p) \/ EditSave(p) \/ DeletePost(p) \/ DeleteThread(p)
BY DEF Reply, ReplyRead, DepthCheck, UpdateLastPost, IncrementPostCount, CreateThread,
       NewThread, EditPost, EditRead, RemovePost, DeletePostRead, Moderate, LockRead,
       LockThread, PinRead, PinThread, DeleteThreadRead, Fail, InsertFails, LogAndGoOn, Abort

\* A removed post stays removed as long as its row exists, whatever edits,
\* replies and deletions are in flight.
THEOREM RemovedPostsStayRemoved == Spec => RemovedStaysRemoved
<1> DEFINE Kept == \A i \in Posts : posts[i].deleted /\ posts'[i] # None => posts'[i].deleted
<1>1. TypeInv /\ [Next]_vars => [Kept]_vars
  <2> SUFFICES ASSUME TypeInv, NEW p \in Procs,
               Reply(p) \/ CreateThread(p) \/ EditPost(p) \/ RemovePost(p) \/ Moderate(p) \/ Fail(p)
        PROVE  Kept
    BY DEF Next
  <2>0. \A i \in Posts : i \in PostIds /\ posts[i] \in PostRow
    BY DEF TypeInv, TypeOK, Posts
  <2>1. CASE UNCHANGED posts
    BY <2>1
  <2>2. CASE ReplyInsert(p) \/ OpInsert(p)
    <3>1. PICK i \in PostIds, t \in ThreadIds, u \in Users,
               parent \in PostIds \cup {None}, op \in BOOLEAN, late \in BOOLEAN :
            /\ InsertPost(i, t, u, parent, op, late)
            /\ lost' = lost \cup Missing(i, t, parent)
            /\ \/ parent = None
               \/ ReplyInsert(p) /\ parent = req[p].parent /\ late = req[p].late
      BY <2>2, Inserts, Zenon
    <3>2. \A j \in Posts : posts'[j] = posts[j]
      BY <3>1, InsertKeepsRows DEF Posts
    <3>3. QED BY <3>2
  <2>3. CASE EditSave(p)
    BY <2>0, <2>3 DEF EditSave, PostRow
  <2>4. CASE DeletePost(p)
    BY <2>0, <2>4 DEF DeletePost, PostRow
  <2>5. CASE DeleteThread(p)
    <3>1. CASE CascadePosts(req[p].thread)
      <4>1. \A i \in Posts :
              \/ posts'[i] = None \/ posts'[i] = posts[i]
              \/ posts'[i] = [posts[i] EXCEPT !.parent = None]
        BY <2>0, <3>1, ReparentsPosts
      <4>2. QED BY <2>0, <4>1 DEF PostRow
    <3>2. QED BY <2>1, <2>5, <3>1 DEF DeleteThread
  <2>6. QED BY <2>1, <2>2, <2>3, <2>4, <2>5, PostWriters
<1>2. QED BY <1>1, TypeInit, TypeStep, PTL DEF Spec, RemovedStaysRemoved

-----------------------------------------------------------------------------
(* References.                                                             *)

LEMMA ReferencesInit == Init => NoDanglingReference
BY DEF Init, NoDanglingReference, Posts

\* Only a deletion takes a thread away.
LEMMA ThreadsStay ==
    ASSUME TypeInv, NEW p \in Procs,
           Reply(p) \/ CreateThread(p) \/ EditPost(p) \/ RemovePost(p) \/ Moderate(p) \/ Fail(p)
    PROVE  DeleteThread(p) \/ Threads \subseteq Threads'
<1>1. CASE UNCHANGED threads
  BY <1>1 DEF Threads
<1>2. CASE NewThread(p)
  <2>1. PICK t \in ThreadIds : threads' = [threads EXCEPT
          ![t] = [locked |-> FALSE, pinned |-> FALSE, replies |-> 0]]
    BY <1>2 DEF NewThread
  <2>2. [locked |-> FALSE, pinned |-> FALSE, replies |-> 0] \in ThreadRow
    BY DEF ThreadRow
  <2>3. threads'[t] # None /\ \A x \in ThreadIds : x # t => threads'[x] = threads[x]
    BY <2>1, <2>2, NullIsNoRow DEF TypeInv, TypeOK
  <2>4. QED BY <2>3 DEF Threads
<1>3. CASE UpdateLastPost(p) \/ LockThread(p) \/ PinThread(p)
  <2>1. \A t \in Threads :
          /\ [threads[t] EXCEPT !.replies = @ + 1] # None
          /\ [threads[t] EXCEPT !.locked = req[p].flag] # None
          /\ [threads[t] EXCEPT !.pinned = req[p].flag] # None
    <3>1. \A t \in Threads : threads[t] \in ThreadRow
      BY DEF TypeInv, TypeOK, Threads
    <3>2. req[p].flag \in BOOLEAN
      BY DEF TypeInv, TypeOK, Request
    <3>3. \A t \in Threads :
          /\ [threads[t] EXCEPT !.replies = @ + 1] \in ThreadRow
          /\ [threads[t] EXCEPT !.locked = req[p].flag] \in ThreadRow
          /\ [threads[t] EXCEPT !.pinned = req[p].flag] \in ThreadRow
      BY <3>1, <3>2 DEF ThreadRow
    <3>4. QED BY <3>3, NullIsNoRow
  <2>2. QED BY <1>3, <2>1 DEF UpdateLastPost, LockThread, PinThread, Threads
<1>4. DeleteThread(p) \/ UNCHANGED threads \/ NewThread(p)
      \/ UpdateLastPost(p) \/ LockThread(p) \/ PinThread(p)
  BY DEF Reply, ReplyRead, DepthCheck, ReplyInsert, IncrementPostCount, CreateThread,
         OpInsert, EditPost, EditRead, EditSave, RemovePost, DeletePostRead, DeletePost,
         Moderate, LockRead, PinRead, DeleteThreadRead,
         Fail, InsertFails, LogAndGoOn, Abort
<1>5. QED BY <1>1, <1>2, <1>3, <1>4

\* What is lost stays lost.
LEMMA LostStays ==
    ASSUME NEW p \in Procs,
           Reply(p) \/ CreateThread(p) \/ EditPost(p) \/ RemovePost(p) \/ Moderate(p) \/ Fail(p)
    PROVE  lost \subseteq lost'
BY DEF Reply, ReplyRead, DepthCheck, ReplyInsert, UpdateLastPost, IncrementPostCount,
       CreateThread, NewThread, OpInsert, EditPost, EditRead, EditSave, RemovePost,
       DeletePostRead, DeletePost, Moderate, LockRead, LockThread, PinRead, PinThread,
       DeleteThreadRead, DeleteThread, Fail, InsertFails, LogAndGoOn, Abort

\* A row that an insert refers to in vain is lost.
LEMMA MissingIsLost ==
    ASSUME NEW i, NEW t \in ThreadIds, NEW parent \in PostIds \cup {None},
           lost' = lost \cup Missing(i, t, parent)
    PROVE  /\ t \in Threads \/ <<"thread", t>> \in lost'
           /\ parent \in Posts \cup {i, None} \/ <<"post", parent>> \in lost'
<1>1. t \notin Threads => <<"thread", t>> \in {"thread"} \X ({t} \ Threads)
  OBVIOUS
<1>2. parent \notin Posts \cup {i, None}
        => <<"post", parent>> \in {"post"} \X ({parent} \ (Posts \cup {i, None}))
  OBVIOUS
<1>3. QED BY <1>1, <1>2 DEF Missing

\* A deletion without foreign keys leaves only references that are lost, and
\* one with them leaves none that was not there.
LEMMA ReferencesDelete ==
    ASSUME TypeInv, NoDanglingReference, NEW p \in Procs, DeleteThread(p)
    PROVE  NoDanglingReference'
<1>0. \A i \in Posts : i \in PostIds /\ posts[i] \in PostRow
  BY DEF TypeInv, TypeOK, Posts
<1>1. PICK t \in ThreadIds : t = req[p].thread
  BY DEF DeleteThread, At, LocalsSet, TypeInv
<1>2. threads' = [threads EXCEPT ![t] = None]
  BY <1>1 DEF DeleteThread
<1>3. \A k \in Threads : k # t => k \in Threads'
  BY <1>2 DEF Threads, TypeInv, TypeOK
<1>4. CASE UNCHANGED posts /\ lost' = lost \cup {<<"thread", t>>}
  <2>1. Posts' = Posts /\ <<"thread", t>> \in lost' /\ lost \subseteq lost'
    BY <1>4 DEF Posts
  <2>2. ASSUME NEW i \in Posts
        PROVE  /\ posts'[i].thread \in Threads' \/ <<"thread", posts'[i].thread>> \in lost'
               /\ posts'[i].parent \in Posts' \cup {None} \/ <<"post", posts'[i].parent>> \in lost'
    <3>1. posts'[i] = posts[i]
      BY <1>4
    <3>2. PICK k, parent : k = posts[i].thread /\ parent = posts[i].parent
      OBVIOUS
    <3>3. /\ k \in Threads \/ <<"thread", k>> \in lost
          /\ parent \in Posts \cup {None} \/ <<"post", parent>> \in lost
      BY <3>2 DEF NoDanglingReference
    <3>4. CASE k = t
      BY <2>1, <3>1, <3>2, <3>3, <3>4
    <3>5. CASE k # t
      BY <1>3, <2>1, <3>1, <3>2, <3>3, <3>5
    <3>6. QED BY <3>4, <3>5
  <2>3. QED BY <2>1, <2>2 DEF NoDanglingReference
<1>5. CASE CascadePosts(t) /\ lost' = lost
  <2>1. ASSUME NEW i \in Posts, ~(posts[i].thread = t /\ t \in Threads)
        PROVE  i \in Posts'
    <3>1. [posts[i] EXCEPT !.parent = None] \in PostRow
      BY <1>0 DEF PostRow
    <3>2. i \in PostIds /\ posts[i] # None
      BY <1>0, NullIsNoRow
    <3>3. posts'[i] # None
      BY <1>5, <2>1, <3>1, <3>2, NullIsNoRow, ReparentsPosts
    <3>4. QED BY <3>2, <3>3 DEF Posts
  <2>2. ASSUME NEW i \in Posts'
        PROVE  /\ posts'[i].thread \in Threads' \/ <<"thread", posts'[i].thread>> \in lost'
               /\ posts'[i].parent \in Posts' \cup {None} \/ <<"post", posts'[i].parent>> \in lost'
    <3>1. i \in PostIds /\ posts'[i] # None
      BY DEF Posts
    <3>2. /\ i \in Posts /\ ~(posts[i].thread = t /\ t \in Threads)
          /\ \/ /\ posts'[i] = posts[i]
                /\ ~(/\ ParentOf(i) \in Posts /\ posts[ParentOf(i)].thread = t
                     /\ t \in Threads)
             \/ posts'[i] = [posts[i] EXCEPT !.parent = None]
      BY <1>5, <3>1, ReparentsPosts DEF Posts
    <3>3. PICK row \in PostRow : row = posts[i]
      BY <1>0, <3>2
    <3>4. PICK new : new = posts'[i]
      OBVIOUS
    <3>5. /\ row.thread \in Threads \/ <<"thread", row.thread>> \in lost
          /\ row.parent \in Posts \cup {None} \/ <<"post", row.parent>> \in lost
          /\ ParentOf(i) = row.parent
      BY <3>2, <3>3 DEF NoDanglingReference, ParentOf
    <3>6. new.thread = row.thread /\ (new.parent = None \/ new = row)
      BY <3>2, <3>3, <3>4 DEF PostRow
    <3>7. row.thread \in Threads' \/ <<"thread", row.thread>> \in lost'
      BY <1>3, <1>5, <3>2, <3>3, <3>5
    <3>8. new.parent \in Posts' \cup {None} \/ <<"post", new.parent>> \in lost'
      <4>1. CASE new.parent = None
        BY <4>1
      <4>2. CASE new.parent # None
        <5>1. new = row /\ new # [row EXCEPT !.parent = None]
          BY <3>3, <3>6, <4>2 DEF PostRow
        <5>2. ~(/\ row.parent \in Posts /\ posts[row.parent].thread = t /\ t \in Threads)
          BY <3>2, <3>3, <3>4, <3>5, <5>1
        <5>3. QED BY <1>5, <2>1, <3>5, <4>2, <5>1, <5>2
      <4>3. QED BY <4>1, <4>2
    <3>9. QED BY <3>4, <3>6, <3>7, <3>8
  <2>3. QED BY <2>2 DEF NoDanglingReference
<1>6. QED BY <1>1, <1>4, <1>5 DEF DeleteThread

\* A statement that leaves a reference to a missing row had no foreign keys,
\* and the key is lost: an insert is checked, a deletion cascades.
LEMMA ReferencesStep ==
    ASSUME TypeInv, NoDanglingReference, NEW p \in Procs,
           Reply(p) \/ CreateThread(p) \/ EditPost(p) \/ RemovePost(p) \/ Moderate(p) \/ Fail(p)
    PROVE  NoDanglingReference'
<1>1. lost \subseteq lost'
  BY LostStays
<1>2. CASE UNCHANGED posts /\ ~DeleteThread(p)
  <2>1. Threads \subseteq Threads' /\ Posts' = Posts
    BY <1>2, ThreadsStay DEF Posts
  <2>2. QED BY <1>1, <1>2, <2>1 DEF NoDanglingReference
<1>3. CASE ReplyInsert(p) \/ OpInsert(p)
  <2>1. PICK i \in PostIds, t \in ThreadIds, u \in Users,
             parent \in PostIds \cup {None}, op \in BOOLEAN, late \in BOOLEAN :
          /\ InsertPost(i, t, u, parent, op, late)
          /\ lost' = lost \cup Missing(i, t, parent)
          /\ \/ parent = None
             \/ ReplyInsert(p) /\ parent = req[p].parent /\ late = req[p].late
    BY <1>3, Inserts, Zenon
  <2>2. /\ Posts' = Posts \cup {i}
        /\ posts'[i].thread = t /\ posts'[i].parent = parent
        /\ \A j \in Posts : posts'[j] = posts[j]
    <3>1. InsertPost(i, t, u, parent, op, late)
      BY <2>1
    <3>2. QED BY <3>1, InsertKeepsRows DEF Posts
  <2>3. Threads' = Threads
    BY <1>3 DEF ReplyInsert, OpInsert, Threads
  <2>4. /\ t \in Threads \/ <<"thread", t>> \in lost'
        /\ parent \in Posts \cup {i, None} \/ <<"post", parent>> \in lost'
    BY <2>1, MissingIsLost
  <2>5. QED BY <1>1, <2>2, <2>3, <2>4 DEF NoDanglingReference
<1>4. CASE EditSave(p) \/ DeletePost(p)
  <2>1. Threads' = Threads
    BY <1>4 DEF EditSave, DeletePost, Threads
  <2>2. QED BY <1>1, <1>4, <2>1, UpdateKeepsRows DEF NoDanglingReference
<1>5. CASE DeleteThread(p)
  BY <1>5, ReferencesDelete
<1>6. QED BY <1>2, <1>3, <1>4, <1>5, PostWriters

\* No step leaves a reference without its row but those that are lost.
LEMMA ReferencesKept == TypeInv /\ NoDanglingReference /\ [Next]_vars => NoDanglingReference'
<1> SUFFICES ASSUME TypeInv, NoDanglingReference, [Next]_vars PROVE NoDanglingReference'
  OBVIOUS
<1>1. CASE UNCHANGED vars
  BY <1>1 DEF vars, NoDanglingReference, Posts, Threads
<1>2. CASE Next
  BY <1>2, ReferencesStep DEF Next
<1>3. QED BY <1>1, <1>2

\* Whatever connections the statements run on, a post belongs to a thread that
\* exists and answers a post that exists, but for the rows that a statement
\* without foreign keys deleted or referred to in vain.
THEOREM NoReferenceDangles == Spec => []NoDanglingReference
BY TypeInit, TypeStep, ReferencesInit, ReferencesKept, PTL DEF Spec

-----------------------------------------------------------------------------
(* Nesting.                                                                *)

\* A post that a reply whose parent was there may answer: it is not too deep,
\* or has become so because its own parent was a guess that came true.
Fits(i) == /\ i \in Posts \cup {None}
           /\ TooDeep(i) => <<"post", ParentOf(i)>> \in lost

\* The bound on the chains of parents, and the parent of a post is a row unless
\* it was none at the depth check.
ChainsHold ==
    /\ NestingBounded
    /\ \A i \in Posts : posts[i].late \/ posts[i].parent \in Posts \cup {None}

\* While no thread is deleted, what passed the depth check still fits.
NestingInv ==
    /\ ChainsHold
    /\ \A p \in Procs :
         /\ ~At(p, "deleteThread")
         /\ At(p, "insert") => req[p].late \/ Fits(req[p].parent)

\* Steps that keep the rows and their parents keep all chains of parents.
LEMMA ChainsKept ==
    ASSUME ChainsHold, Posts' = Posts, lost \subseteq lost',
           \A i \in Posts : posts'[i].parent = posts[i].parent /\ posts'[i].late = posts[i].late
    PROVE  ChainsHold' /\ \A i : Fits(i) => Fits(i)'
<1>1. \A i : ParentOf(i)' = ParentOf(i)
  BY DEF ParentOf
<1>2. \A i \in Posts :
        /\ (ParentOf(ParentOf(i)))' = ParentOf(ParentOf(i))
        /\ (ParentOf(ParentOf(ParentOf(i))))' = ParentOf(ParentOf(ParentOf(i)))
  BY DEF ParentOf
<1>3. \A i : TooDeep(i)' = TooDeep(i)
  BY DEF TooDeep, ParentOf
<1>4. \A i : Fits(i) => Fits(i)'
  BY <1>1, <1>3 DEF Fits
<1>5. NestingBounded'
  BY <1>1, <1>2 DEF ChainsHold, NestingBounded
<1>6. QED BY <1>4, <1>5 DEF ChainsHold

\* An insert below a post that fits, or one that says it came too late, keeps
\* the bound, and what fits still fits.
LEMMA ChainsGrow ==
    ASSUME NoDanglingReference, ChainsHold, lost \subseteq lost',
           NEW i \in PostIds, i \notin Posts, Posts' = Posts \cup {i},
           \A j \in Posts : posts'[j] = posts[j],
           posts'[i].late \/ Fits(posts'[i].parent)
    PROVE  ChainsHold' /\ \A j : Fits(j) => Fits(j)'
<1>1. None \notin Posts /\ None \notin Posts' /\ i # None
  BY NullIsNoRow DEF Posts
<1>2. \A j \in Posts : ParentOf(j)' = ParentOf(j) /\ ParentOf(j) = posts[j].parent
  BY DEF ParentOf
<1>3. \A j : j \notin Posts' => ParentOf(j)' = None
  BY DEF ParentOf
<1>4. \A j \in Posts : ParentOf(j) = i => <<"post", i>> \in lost'
  BY <1>1, <1>2 DEF NoDanglingReference
<1>5. ASSUME NEW j \in Posts
      PROVE  \/ TooDeep(j)' => TooDeep(j)
             \/ <<"post", ParentOf(j)>> \in lost'
  <2>1. PICK b : b = ParentOf(j)
    OBVIOUS
  <2>2. ParentOf(j)' = b
    BY <1>2, <2>1
  <2>3. TooDeep(j)' = (ParentOf(b)' # None) /\ TooDeep(j) = (ParentOf(b) # None)
    BY <2>1, <2>2 DEF TooDeep, ParentOf
  <2>4. CASE b \in Posts
    BY <1>2, <2>3, <2>4
  <2>5. CASE b = i
    BY <1>4, <2>1, <2>5
  <2>6. CASE b \notin Posts'
    BY <1>3, <2>3, <2>6
  <2>7. QED BY <2>4, <2>5, <2>6
<1>6. ASSUME NEW j, Fits(j) PROVE Fits(j)'
  <2>1. CASE j = None
    <3>1. ParentOf(j)' = None /\ ParentOf(None)' = None
      BY <1>1, <1>3, <2>1
    <3>2. ~TooDeep(j)'
      BY <1>1, <2>1 DEF TooDeep, ParentOf
    <3>3. QED BY <2>1, <3>2 DEF Fits
  <2>2. CASE j \in Posts
    <3>1. PICK b : b = ParentOf(j) /\ ParentOf(j)' = b
      BY <1>2, <2>2
    <3>2. TooDeep(j)' => <<"post", b>> \in lost'
      BY <1>5, <1>6, <2>2, <3>1 DEF Fits
    <3>3. QED BY <2>2, <3>1, <3>2 DEF Fits
  <2>3. QED BY <1>6, <2>1, <2>2 DEF Fits
<1>7. ASSUME NEW j \in Posts', (ParentOf(ParentOf(ParentOf(j))))' # None, ~posts'[j].late
      PROVE  <<"post", (ParentOf(ParentOf(j)))'>> \in lost'
  <2>1. PICK a : a = posts'[j].parent /\ ParentOf(j)' = a
    BY DEF ParentOf
  <2>2. (ParentOf(ParentOf(j)))' = ParentOf(a)' /\ TooDeep(a)'
    BY <1>7, <2>1 DEF ParentOf, TooDeep
  <2>3. CASE j = i
    <3>1. Fits(a)'
      BY <1>6, <1>7, <2>1, <2>3
    <3>2. QED BY <2>2, <3>1 DEF Fits
  <2>4. CASE j \in Posts
    <3>1. posts[j].parent = a /\ ~posts[j].late
      BY <1>7, <2>1, <2>4
    <3>2. a \in Posts \cup {None}
      BY <2>4, <3>1 DEF ChainsHold
    <3>3. a # None
      BY <1>1, <2>2 DEF TooDeep, ParentOf
    <3>4. PICK b : b = ParentOf(a) /\ ParentOf(a)' = b
      BY <1>2, <3>2, <3>3
    <3>5. CASE TooDeep(a)
      <4>1. (ParentOf(ParentOf(ParentOf(j))) # None) /\ ParentOf(ParentOf(j)) = b
        BY <2>4, <3>1, <3>4, <3>5 DEF TooDeep, ParentOf
      <4>2. QED BY <2>2, <2>4, <3>1, <3>4, <4>1 DEF ChainsHold, NestingBounded
    <3>6. CASE ~TooDeep(a)
      BY <1>5, <2>2, <3>2, <3>3, <3>4, <3>6
    <3>7. QED BY <3>5, <3>6
  <2>5. QED BY <2>3, <2>4
<1>8. NestingBounded'
  BY <1>7 DEF NestingBounded
<1>9. \A j \in Posts' : posts'[j].late \/ posts'[j].parent \in Posts' \cup {None}
  BY DEF ChainsHold, Fits
<1>10. QED BY <1>6, <1>8, <1>9 DEF ChainsHold

\* The start of a chain fits.
LEMMA TopFits == Fits(None)
BY NullIsNoRow DEF Fits, TooDeep, ParentOf, Posts

\* Where a request may stand before its insert.
LEMMA BeforeInsert ==
    ASSUME TypeInv, NestingInv, "deleteThread" \notin Kinds, NEW p \in Procs,
           Reply(p) \/ CreateThread(p) \/ EditPost(p) \/ RemovePost(p) \/ Moderate(p) \/ Fail(p)
    PROVE  /\ req'[p].pc # "deleteThread"
           /\ req'[p].pc = "insert" => req'[p].late \/ Fits(req'[p].parent)
<1>0. req \in [Procs -> Request]
  BY DEF TypeInv, TypeOK
<1>1. ~DeleteThread(p) /\ ~DeleteThreadRead(p)
  BY DEF NestingInv, DeleteThread, DeleteThreadRead, Start
<1>2. CASE ReplyRead(p)
  <2>1. PICK parent \in PostIds \cup {None}, pc \in {"insert", "depth"} :
          /\ req'[p].pc = pc /\ req'[p].parent = parent
          /\ pc = "insert" => parent = None
    BY <1>0, <1>2 DEF ReplyRead, Start, NoRequest
  <2>2. QED BY <2>1, TopFits
<1>3. CASE DepthCheck(p)
  <2>1. CASE Finish(p)
    BY <1>0, <2>1 DEF Finish, NoRequest
  <2>2. CASE /\ ~TooDeep(req[p].parent)
             /\ req' = [req EXCEPT ![p].pc = "insert", ![p].late = req[p].parent \notin Posts]
    <3>1. PICK old \in Request : old = req[p]
      BY <1>0
    <3>2. CASE old.parent \in Posts
      <4>1. PICK r : r = [old EXCEPT !.pc = "insert", !.late = FALSE]
        OBVIOUS
      <4>2. req'[p] = r
        BY <1>0, <2>2, <3>1, <3>2, <4>1
      <4>3. r.pc = "insert" /\ r.parent = old.parent
        BY <4>1 DEF Request
      <4>4. QED BY <2>2, <3>1, <3>2, <4>2, <4>3 DEF Fits
    <3>3. CASE old.parent \notin Posts
      <4>1. PICK r : r = [old EXCEPT !.pc = "insert", !.late = TRUE]
        OBVIOUS
      <4>2. req'[p] = r
        BY <1>0, <2>2, <3>1, <3>3, <4>1
      <4>3. r.pc = "insert" /\ r.late
        BY <4>1 DEF Request
      <4>4. QED BY <4>2, <4>3
    <3>4. QED BY <3>2, <3>3
  <2>3. QED BY <1>3, <2>1, <2>2 DEF DepthCheck
<1>4. CASE ReplyInsert(p)
  BY <1>0, <1>4 DEF ReplyInsert, Request
<1>5. CASE Finish(p) \/ Goto(p, "postCount")
  BY <1>0, <1>5 DEF Finish, Goto, NoRequest, Request
<1>6. CASE NewThread(p)
  BY <1>0, <1>6 DEF NewThread, Start, NoRequest
<1>7. CASE EditRead(p) \/ DeletePostRead(p)
  BY <1>0, <1>7 DEF EditRead, DeletePostRead, Start, NoRequest
<1>8. CASE LockRead(p)
  BY <1>0, <1>8 DEF LockRead, Start, NoRequest
<1>9. CASE PinRead(p)
  BY <1>0, <1>9 DEF PinRead, Start, NoRequest
<1>10. \/ ReplyRead(p) \/ DepthCheck(p) \/ ReplyInsert(p) \/ Finish(p) \/ Goto(p, "postCount")
       \/ NewThread(p) \/ EditRead(p) \/ DeletePostRead(p) \/ LockRead(p) \/ PinRead(p)
  BY <1>1 DEF Reply, UpdateLastPost, IncrementPostCount,
     CreateThread, OpInsert, EditPost, EditSave, RemovePost, DeletePost,
     Moderate, LockThread, PinThread, Fail, InsertFails, LogAndGoOn, Abort
<1>11. QED BY <1>2, <1>3, <1>4, <1>5, <1>6, <1>7, <1>8, <1>9, <1>10

\* One step keeps the invariant when no client deletes a thread.
LEMMA NestingStep ==
    ASSUME "deleteThread" \notin Kinds, TypeInv, NoDanglingReference, NestingInv,
           NEW p \in Procs,
           Reply(p) \/ CreateThread(p) \/ EditPost(p) \/ RemovePost(p) \/ Moderate(p) \/ Fail(p)
    PROVE  NestingInv'
<1>0. req \in [Procs -> Request]
  BY DEF TypeInv, TypeOK
<1>1. \A q \in Procs : q # p => req'[q] = req[q]
  BY <1>0 DEF Reply, ReplyRead, DepthCheck, ReplyInsert, UpdateLastPost, IncrementPostCount,
       CreateThread, NewThread, OpInsert, EditPost, EditRead, EditSave, RemovePost,
       DeletePostRead, DeletePost, Moderate, LockRead, LockThread, PinRead, PinThread,
       DeleteThreadRead, DeleteThread, Fail, InsertFails, LogAndGoOn, Abort,
       Start, Finish, Goto
<1>2. ChainsHold /\ lost \subseteq lost' /\ ~DeleteThread(p)
  BY LostStays DEF NestingInv, ChainsHold, DeleteThread
<1>3. ChainsHold' /\ \A j : Fits(j) => Fits(j)'
  <2>1. CASE ReplyInsert(p) \/ OpInsert(p)
    <3>1. PICK i \in PostIds, t \in ThreadIds, u \in Users,
               parent \in PostIds \cup {None}, op \in BOOLEAN, late \in BOOLEAN :
            /\ InsertPost(i, t, u, parent, op, late)
            /\ lost' = lost \cup Missing(i, t, parent)
            /\ \/ parent = None
               \/ ReplyInsert(p) /\ parent = req[p].parent /\ late = req[p].late
      BY <2>1, Inserts, Zenon
    <3>2. InsertPost(i, t, u, parent, op, late)
      BY <3>1
    <3>3. /\ Posts' = Posts \cup {i} /\ posts'[i].parent = parent
          /\ \A j \in Posts : posts'[j] = posts[j]
      BY <3>2, InsertKeepsRows DEF Posts
    <3>4. i \notin Posts /\ (late => posts'[i].late)
      BY <3>2, InsertKeepsRows
    <3>5. late \/ Fits(parent)
      <4>1. CASE parent = None
        BY <4>1, TopFits
      <4>2. CASE ReplyInsert(p) /\ parent = req[p].parent /\ late = req[p].late
        BY <4>2 DEF ReplyInsert, At, NestingInv
      <4>3. QED BY <3>1, <4>1, <4>2
    <3>6. posts'[i].late \/ Fits(posts'[i].parent)
      BY <3>3, <3>4, <3>5
    <3>7. QED BY <1>2, <3>3, <3>4, <3>6, ChainsGrow
  <2>2. CASE UNCHANGED posts \/ EditSave(p) \/ DeletePost(p)
    <3>1. /\ Posts' = Posts
          /\ \A i \in Posts : posts'[i].parent = posts[i].parent /\ posts'[i].late = posts[i].late
      BY <2>2, UpdateKeepsRows DEF Posts
    <3>2. QED BY <1>2, <3>1, ChainsKept
  <2>3. QED BY <1>2, <2>1, <2>2, PostWriters
<1>4. ASSUME NEW q \in Procs
      PROVE  /\ req'[q].pc # "deleteThread"
             /\ req'[q].pc = "insert" => req'[q].late \/ Fits(req'[q].parent)
  <2>1. CASE q = p
    BY <2>1, BeforeInsert
  <2>2. CASE q # p
    BY <1>1, <2>2 DEF NestingInv, At
  <2>3. QED BY <2>1, <2>2
<1>5. ASSUME NEW q \in Procs, req'[q].pc = "insert"
      PROVE  (req[q].late \/ Fits(req[q].parent))'
  <2>1. PICK j : j = req'[q].parent
    OBVIOUS
  <2>2. req'[q].late \/ Fits(j)'
    BY <1>3, <1>4, <1>5, <2>1
  <2>3. Fits(j)' => (Fits(req[q].parent))'
    BY <2>1 DEF Fits, TooDeep, ParentOf
  <2>4. QED BY <2>2, <2>3
<1>6. QED BY <1>3, <1>4, <1>5 DEF NestingInv, ChainsHold, At

\* As long as no thread is deleted, a chain of replies is at most two levels
\* below a top-level post, whatever replies race between check and insert and
\* whatever parents clients guess, but for the replies to a guess.
THEOREM NestingStaysBounded ==
    ASSUME "deleteThread" \notin Kinds
    PROVE  Spec => []NestingBounded
<1>1. Init => NestingInv
  BY DEF Init, NestingInv, ChainsHold, NestingBounded, Posts, At, NoRequest
<1>2. TypeInv /\ NoDanglingReference /\ NestingInv /\ [Next]_vars => NestingInv'
  <2> SUFFICES ASSUME TypeInv, NoDanglingReference, NestingInv, [Next]_vars PROVE NestingInv'
    OBVIOUS
  <2>1. CASE UNCHANGED vars
    BY <2>1 DEF vars, NestingInv, ChainsHold, NestingBounded, Fits, TooDeep, ParentOf, Posts, At
  <2>2. CASE Next
    BY <2>2, NestingStep DEF Next
  <2>3. QED BY <2>1, <2>2
<1>3. NestingInv => NestingBounded
  BY DEF NestingInv, ChainsHold
<1>4. QED BY <1>1, <1>2, <1>3, TypeInit, TypeStep, ReferencesInit, ReferencesKept, PTL DEF Spec

-----------------------------------------------------------------------------
(* Counters.                                                               *)

Step(p) ==
    Reply(p) \/ CreateThread(p) \/ EditPost(p) \/ RemovePost(p) \/ Moderate(p) \/ Fail(p)

\* While no thread is deleted, posts and requests in flight name threads that
\* exist, so that a new thread begins with no post and no reply on the way.
PlacesInv ==
    /\ \A i \in Posts : posts[i].thread \in Threads
    /\ \A p \in Procs :
         /\ ~At(p, "deleteThread")
         /\ req[p].pc \in {"depth", "insert", "lastPost", "opInsert"} => req[p].thread \in Threads

\* The row of a reply, and of an opening post.
LEMMA ReplyInserted ==
    ASSUME TypeInv, NEW p \in Procs, ReplyInsert(p)
    PROVE  \E i \in PostIds :
             /\ i \notin Posts /\ Posts' = Posts \cup {i}
             /\ posts'[i].thread = req[p].thread /\ posts'[i].author = req[p].user
             /\ ~posts'[i].op
             /\ \A j \in Posts : posts'[j] = posts[j]
             /\ req'[p].pc = "lastPost" /\ req'[p].thread = req[p].thread
             /\ req'[p].user = req[p].user
<1>1. PICK old \in Request : old = req[p] /\ old.pc = "insert" /\ LocalsSet(old)
  BY DEF ReplyInsert, At, TypeInv, TypeOK
<1>2. PICK i \in PostIds :
        /\ InsertPost(i, old.thread, old.user, old.parent, FALSE, old.late)
        /\ req' = [req EXCEPT ![p].pc = "lastPost", ![p].post = i]
  BY <1>1 DEF ReplyInsert
<1>3. PICK row : row = [thread |-> old.thread, author |-> old.user, parent |-> old.parent,
                        deleted |-> FALSE, editedBy |-> None, op |-> FALSE,
                        late |-> old.late]
  OBVIOUS
<1>4. posts' = [posts EXCEPT ![i] = row]
  BY <1>2, <1>3 DEF InsertPost
<1>5. row.thread = old.thread /\ row.author = old.user /\ ~row.op
  BY <1>3
<1>6. posts'[i] = row
  BY <1>4 DEF TypeInv, TypeOK
<1>7. /\ old.thread \in ThreadIds /\ old.user \in Users /\ old.parent \in PostIds \cup {None}
  BY <1>1 DEF LocalsSet, Request
<1>8. i \notin Posts /\ Posts' = Posts \cup {i} /\ \A j \in Posts : posts'[j] = posts[j]
  <2>1. PICK t \in ThreadIds, u \in Users, parent \in PostIds \cup {None} :
          t = old.thread /\ u = old.user /\ parent = old.parent
    BY <1>7
  <2>2. PICK op \in BOOLEAN, late \in BOOLEAN : op = FALSE /\ late = old.late
    BY <1>1 DEF Request
  <2>3. InsertPost(i, t, u, parent, op, late)
    BY <1>2, <2>1, <2>2
  <2>4. i \notin Posts
    BY <2>3, InsertKeepsRows
  <2>5. \A j \in Posts : posts'[j] = posts[j]
    BY <2>3, InsertKeepsRows
  <2>6. QED BY <2>3, <2>4, <2>5, InsertKeepsRows DEF Posts
<1>9. PICK new : new = [old EXCEPT !.pc = "lastPost", !.post = i]
  OBVIOUS
<1>10. new.pc = "lastPost" /\ new.thread = old.thread /\ new.user = old.user
  BY <1>9 DEF Request
<1>11. req'[p] = new
  BY <1>1, <1>2, <1>9 DEF TypeInv, TypeOK
<1>12. QED BY <1>1, <1>5, <1>6, <1>8, <1>10, <1>11

LEMMA OpInserted ==
    ASSUME TypeInv, NEW p \in Procs, OpInsert(p)
    PROVE  \E i \in PostIds :
             /\ i \notin Posts /\ Posts' = Posts \cup {i}
             /\ posts'[i].thread = req[p].thread /\ posts'[i].op
             /\ \A j \in Posts : posts'[j] = posts[j]
<1>1. PICK old \in Request : old = req[p] /\ old.pc = "opInsert" /\ LocalsSet(old)
  BY DEF OpInsert, At, TypeInv, TypeOK
<1>2. PICK i \in PostIds : InsertPost(i, old.thread, old.user, None, TRUE, FALSE)
  BY <1>1 DEF OpInsert
<1>3. PICK row : row = [thread |-> old.thread, author |-> old.user, parent |-> None,
                        deleted |-> FALSE, editedBy |-> None, op |-> TRUE,
                        late |-> FALSE]
  OBVIOUS
<1>4. posts' = [posts EXCEPT ![i] = row] /\ row.thread = old.thread /\ row.op
  BY <1>2, <1>3 DEF InsertPost
<1>5. posts'[i] = row
  BY <1>4 DEF TypeInv, TypeOK
<1>6. old.thread \in ThreadIds /\ old.user \in Users /\ None \in PostIds \cup {None}
  BY <1>1 DEF LocalsSet
<1>7. i \notin Posts /\ Posts' = Posts \cup {i} /\ \A j \in Posts : posts'[j] = posts[j]
  <2>1. PICK t \in ThreadIds, u \in Users, parent \in PostIds \cup {None} :
          t = old.thread /\ u = old.user /\ parent = None
    BY <1>6
  <2>2. PICK op \in BOOLEAN, late \in BOOLEAN : op = TRUE /\ late = FALSE
    OBVIOUS
  <2>3. InsertPost(i, t, u, parent, op, late)
    BY <1>2, <2>1, <2>2
  <2>4. i \notin Posts
    BY <2>3, InsertKeepsRows
  <2>5. \A j \in Posts : posts'[j] = posts[j]
    BY <2>3, InsertKeepsRows
  <2>6. QED BY <2>3, <2>4, <2>5, InsertKeepsRows DEF Posts
<1>8. QED BY <1>1, <1>4, <1>5, <1>7

\* The statements that update a post keep whose it is and that it is a reply.
LEMMA UpdatesKeep ==
    ASSUME TypeInv, NEW p \in Procs, EditSave(p) \/ DeletePost(p)
    PROVE  /\ Posts' = Posts
           /\ \A i \in Posts : /\ posts'[i].thread = posts[i].thread
                               /\ posts'[i].author = posts[i].author
                               /\ posts'[i].op = posts[i].op
<1>1. \A i \in Posts : i \in PostIds /\ posts[i] \in PostRow
  BY DEF TypeInv, TypeOK, Posts
<1>2. ASSUME NEW i \in Posts
      PROVE  posts'[i].author = posts[i].author /\ posts'[i].op = posts[i].op
  <2>1. PICK row \in PostRow : row = posts[i]
    BY <1>1
  <2>2. \/ posts'[i] = row
        \/ posts'[i] = [row EXCEPT !.editedBy = req[p].user]
        \/ posts'[i] = [row EXCEPT !.deleted = TRUE, !.editedBy = req[p].user]
    BY <1>1, <2>1 DEF EditSave, DeletePost
  <2>3. QED BY <2>1, <2>2 DEF PostRow
<1>3. QED BY <1>2, UpdateKeepsRows

\* Where a request stands after a step.
LEMMA OneSteps ==
    ASSUME TypeInv, NEW p \in Procs, Step(p)
    PROVE  \A q \in Procs \ {p} : req'[q] = req[q]
BY DEF TypeInv, TypeOK, Step, Reply, ReplyRead, DepthCheck, ReplyInsert, UpdateLastPost,
       IncrementPostCount, CreateThread, NewThread, OpInsert, EditPost, EditRead, EditSave,
       RemovePost, DeletePostRead, DeletePost, Moderate, LockRead, LockThread, PinRead,
       PinThread, DeleteThreadRead, DeleteThread, Fail, InsertFails, LogAndGoOn, Abort,
       Start, Finish, Goto

\* A request that is in no counting label before or after its step.
LEMMA GotoKeeps ==
    ASSUME TypeInv, NEW p \in Procs, NEW label, Goto(p, label)
    PROVE  /\ req'[p].pc = label /\ req'[p].thread = req[p].thread
           /\ req'[p].user = req[p].user
<1>1. PICK old \in Request : old = req[p]
  BY DEF TypeInv, TypeOK
<1>2. PICK new : new = [old EXCEPT !.pc = label]
  OBVIOUS
<1>3. new.pc = label /\ new.thread = old.thread /\ new.user = old.user
  BY <1>2 DEF Request
<1>4. req'[p] = new
  BY <1>1, <1>2 DEF Goto, TypeInv, TypeOK
<1>5. QED BY <1>1, <1>3, <1>4

LEMMA DepthKeeps ==
    ASSUME TypeInv, NEW p \in Procs, DepthCheck(p)
    PROVE  \/ req'[p].pc = "idle"
           \/ req'[p].pc = "insert" /\ req'[p].thread = req[p].thread
<1>1. CASE Finish(p)
  BY <1>1 DEF Finish, NoRequest, TypeInv, TypeOK
<1>2. CASE req' = [req EXCEPT ![p].pc = "insert", ![p].late = req[p].parent \notin Posts]
  <2>1. PICK old \in Request : old = req[p]
    BY DEF TypeInv, TypeOK
  <2>2. PICK new : new = [old EXCEPT !.pc = "insert", !.late = old.parent \notin Posts]
    OBVIOUS
  <2>3. new.pc = "insert" /\ new.thread = old.thread
    BY <2>2 DEF Request
  <2>4. req'[p] = new
    BY <1>2, <2>1, <2>2 DEF TypeInv, TypeOK
  <2>5. QED BY <2>1, <2>3, <2>4
<1>3. QED BY <1>1, <1>2 DEF DepthCheck

LEMMA FinishKeeps ==
    ASSUME TypeInv, NEW p \in Procs, Finish(p)
    PROVE  req'[p].pc = "idle"
BY DEF Finish, NoRequest, TypeInv, TypeOK

\* The labels a request starts at.
LEMMA StartKeeps ==
    ASSUME TypeInv, NEW p \in Procs,
           \/ ReplyRead(p) \/ NewThread(p) \/ EditRead(p) \/ DeletePostRead(p)
           \/ LockRead(p) \/ PinRead(p) \/ DeleteThreadRead(p)
    PROVE  /\ At(p, "idle")
           /\ req'[p].pc \in {"depth", "insert", "opInsert", "edit", "deletePost", "lock",
                              "pin", "deleteThread"}
           /\ req'[p].pc = "deleteThread" => "deleteThread" \in Kinds
           /\ req'[p].pc \in {"depth", "insert", "opInsert"} => req'[p].thread \in Threads'
<1>1. At(p, "idle")
  BY DEF ReplyRead, NewThread, EditRead, DeletePostRead, LockRead, PinRead,
         DeleteThreadRead, Start
<1>2. CASE ReplyRead(p)
  <2>1. PICK u \in Users, t \in Threads, parent \in PostIds \cup {None} :
          req' = [req EXCEPT ![p] =
                [NoRequest EXCEPT !.pc = IF parent = None THEN "insert" ELSE "depth",
                                  !.user = u, !.thread = t, !.parent = parent]]
    BY <1>2 DEF ReplyRead, Start
  <2>2. PICK r : r = [NoRequest EXCEPT !.pc = IF parent = None THEN "insert" ELSE "depth",
                                       !.user = u, !.thread = t, !.parent = parent]
    OBVIOUS
  <2>3. r.pc \in {"depth", "insert"} /\ r.thread = t
    BY <2>2 DEF NoRequest
  <2>4. req'[p] = r
    BY <2>1, <2>2 DEF TypeInv, TypeOK
  <2>5. QED BY <1>1, <1>2, <2>3, <2>4 DEF ReplyRead, Threads
<1>3. CASE NewThread(p)
  <2>1. PICK u \in Users, t \in ThreadIds :
          /\ req' = [req EXCEPT ![p] =
               [NoRequest EXCEPT !.pc = "opInsert", !.user = u, !.thread = t]]
          /\ threads' = [threads EXCEPT ![t] = [locked |-> FALSE, pinned |-> FALSE, replies |-> 0]]
    BY <1>3 DEF NewThread, Start
  <2>2. PICK r : r = [NoRequest EXCEPT !.pc = "opInsert", !.user = u, !.thread = t]
    OBVIOUS
  <2>3. r.pc = "opInsert" /\ r.thread = t
    BY <2>2 DEF NoRequest
  <2>4. req'[p] = r
    BY <2>1, <2>2 DEF TypeInv, TypeOK
  <2>5. t \in Threads'
    <3>1. [locked |-> FALSE, pinned |-> FALSE, replies |-> 0] \in ThreadRow
      BY DEF ThreadRow
    <3>2. QED BY <2>1, <3>1, NullIsNoRow DEF Threads, TypeInv, TypeOK
  <2>6. QED BY <1>1, <2>3, <2>4, <2>5
<1>4. CASE EditRead(p) \/ DeletePostRead(p) \/ LockRead(p) \/ PinRead(p)
  <2>1. req \in [Procs -> Request]
    BY DEF TypeInv, TypeOK
  <2>2. CASE EditRead(p) \/ DeletePostRead(p)
    BY <1>1, <2>1, <2>2 DEF EditRead, DeletePostRead, Start, NoRequest
  <2>3. CASE LockRead(p)
    <3>1. PICK u \in Mods, t \in Threads :
            req' = [req EXCEPT ![p] =
              [NoRequest EXCEPT !.pc = "lock", !.user = u, !.thread = t,
                                !.flag = ~threads[t].locked]]
      BY <2>3 DEF LockRead, Start
    <3>2. PICK r : r = [NoRequest EXCEPT !.pc = "lock", !.user = u, !.thread = t,
                                         !.flag = ~threads[t].locked]
      OBVIOUS
    <3>3. r.pc = "lock"
      BY <3>2 DEF NoRequest
    <3>4. req'[p] = r
      BY <2>1, <3>1, <3>2
    <3>5. QED BY <1>1, <3>3, <3>4
  <2>4. CASE PinRead(p)
    <3>1. PICK u \in Mods, t \in Threads :
            req' = [req EXCEPT ![p] =
              [NoRequest EXCEPT !.pc = "pin", !.user = u, !.thread = t,
                                !.flag = ~threads[t].pinned]]
      BY <2>4 DEF PinRead, Start
    <3>2. PICK r : r = [NoRequest EXCEPT !.pc = "pin", !.user = u, !.thread = t,
                                         !.flag = ~threads[t].pinned]
      OBVIOUS
    <3>3. r.pc = "pin"
      BY <3>2 DEF NoRequest
    <3>4. req'[p] = r
      BY <2>1, <3>1, <3>2
    <3>5. QED BY <1>1, <3>3, <3>4
  <2>5. QED BY <1>4, <2>2, <2>3, <2>4
<1>5. CASE DeleteThreadRead(p)
  <2>1. "deleteThread" \in Kinds
    BY <1>5 DEF DeleteThreadRead, Start
  <2>2. req'[p].pc = "deleteThread"
    BY <1>5 DEF DeleteThreadRead, Start, NoRequest, TypeInv, TypeOK
  <2>3. QED BY <1>1, <2>1, <2>2
<1>6. QED BY <1>2, <1>3, <1>4, <1>5

\* No thread goes, a new one has no reply, and only UpdateLastPost counts.
LEMMA ThreadsMove ==
    ASSUME TypeInv, NEW p \in Procs, Step(p), ~DeleteThread(p)
    PROVE  /\ \A t \in Threads :
                /\ t \in Threads'
                /\ \/ threads'[t].replies = threads[t].replies
                   \/ /\ UpdateLastPost(p) /\ t = req[p].thread
                      /\ threads'[t].replies = threads[t].replies + 1
                /\ UpdateLastPost(p) /\ t = req[p].thread
                     => threads'[t].replies = threads[t].replies + 1
           /\ \A t \in Threads' : t \notin Threads => threads'[t].replies = 0
<1>1. \A t \in ThreadIds : threads[t] \in ThreadRow \cup {None}
  BY DEF TypeInv, TypeOK
<1>2. CASE UNCHANGED threads /\ ~UpdateLastPost(p)
  BY <1>2 DEF Threads
<1>3. CASE NewThread(p)
  <2>0. PICK row : row = [locked |-> FALSE, pinned |-> FALSE, replies |-> 0]
    OBVIOUS
  <2>1. PICK k \in ThreadIds : NextKey(Threads, k) /\ threads' = [threads EXCEPT ![k] = row]
    BY <1>3, <2>0 DEF NewThread
  <2>2. row.replies = 0
    BY <2>0
  <2>3. k \notin Threads
    BY <2>1 DEF NextKey, ThreadIds
  <2>4. threads'[k] = row /\ \A t \in ThreadIds \ {k} : threads'[t] = threads[t]
    BY <2>1 DEF TypeInv, TypeOK
  <2>5. ~UpdateLastPost(p)
    BY <1>3 DEF NewThread, UpdateLastPost, Start, At
  <2>6. QED BY <2>2, <2>3, <2>4, <2>5 DEF Threads
<1>4. CASE UpdateLastPost(p) \/ LockThread(p) \/ PinThread(p)
  <2>1. ASSUME NEW t \in Threads
        PROVE  /\ threads'[t] # None
               /\ UpdateLastPost(p) /\ t = req[p].thread
                    => threads'[t].replies = threads[t].replies + 1
               /\ ~(UpdateLastPost(p) /\ t = req[p].thread)
                    => threads'[t].replies = threads[t].replies
    <3>1. PICK row \in ThreadRow : row = threads[t]
      BY <1>1, <2>1 DEF Threads
    <3>2. req[p].flag \in BOOLEAN
      BY DEF TypeInv, TypeOK, Request
    <3>3. PICK new : /\ new = threads'[t]
                     /\ \/ new = row
                        \/ new = [row EXCEPT !.replies = row.replies + 1]
                        \/ new = [row EXCEPT !.locked = req[p].flag]
                        \/ new = [row EXCEPT !.pinned = req[p].flag]
                     /\ UpdateLastPost(p) => IF t = req[p].thread
                          THEN new = [row EXCEPT !.replies = row.replies + 1] ELSE new = row
                     /\ ~UpdateLastPost(p) => \/ new = row
                                              \/ new = [row EXCEPT !.locked = req[p].flag]
                                              \/ new = [row EXCEPT !.pinned = req[p].flag]
      BY <1>4, <2>1, <3>1 DEF UpdateLastPost, LockThread, PinThread, Threads
    <3>4. new \in ThreadRow
      BY <3>1, <3>2, <3>3 DEF ThreadRow
    <3>5. new # None
      BY <3>4, NullIsNoRow
    <3>6. QED BY <3>1, <3>3, <3>5 DEF ThreadRow
  <2>2. \A t \in ThreadIds : t \notin Threads => threads'[t] = None
    BY <1>4 DEF UpdateLastPost, LockThread, PinThread, Threads
  <2>3. QED BY <2>1, <2>2 DEF Threads
<1>5. UNCHANGED threads \/ NewThread(p) \/ UpdateLastPost(p) \/ LockThread(p) \/ PinThread(p)
  BY DEF Step, Reply, ReplyRead, DepthCheck, ReplyInsert, IncrementPostCount, CreateThread,
         OpInsert, EditPost, EditRead, EditSave, RemovePost, DeletePostRead, DeletePost,
         Moderate, LockRead, PinRead, DeleteThreadRead, Fail, InsertFails, LogAndGoOn, Abort
<1>6. QED BY <1>2, <1>3, <1>4, <1>5

\* What a step does to posts and to the standing of its request, as far as the
\* counters go.
CountSteps(p) ==
    \/ /\ ReplyInsert(p)
    \/ /\ OpInsert(p)
    \/ /\ UpdateLastPost(p)
    \/ /\ IncrementPostCount(p)
    \/ /\ LogAndGoOn(p) /\ At(p, "lastPost")
    \/ /\ LogAndGoOn(p) /\ At(p, "postCount")
    \/ /\ Abort(p) /\ req[p].pc \in {"lastPost", "postCount"}

\* The steps that count nothing: the request is at no counter before or after,
\* and the posts stay as they are but for the columns of an edit.
LEMMA OtherSteps ==
    ASSUME TypeInv, NEW p \in Procs, Step(p),
           ~DeleteThread(p), ~CountSteps(p)
    PROVE  /\ req[p].pc \notin {"lastPost", "postCount"}
           /\ req'[p].pc \notin {"lastPost", "postCount"}
           /\ req'[p].pc = "deleteThread" => "deleteThread" \in Kinds
           /\ req'[p].pc \in {"depth", "insert", "opInsert"} =>
                \/ req'[p].thread \in Threads'
                \/ /\ req[p].pc \in {"depth", "insert", "opInsert"}
                   /\ req'[p].thread = req[p].thread
           /\ Posts' = Posts
           /\ \A i \in Posts : /\ posts'[i].thread = posts[i].thread
                               /\ posts'[i].author = posts[i].author
                               /\ posts'[i].op = posts[i].op
           /\ UNCHANGED postCount
<1>1. CASE \/ ReplyRead(p) \/ NewThread(p) \/ EditRead(p) \/ DeletePostRead(p)
           \/ LockRead(p) \/ PinRead(p) \/ DeleteThreadRead(p)
  <2>1. UNCHANGED <<posts, postCount>>
    BY <1>1 DEF ReplyRead, NewThread, EditRead, DeletePostRead, LockRead, PinRead,
                DeleteThreadRead
  <2>2. QED BY <1>1, <2>1, StartKeeps DEF Posts, At
<1>2. CASE DepthCheck(p)
  <2>1. At(p, "depth") /\ UNCHANGED <<posts, postCount>>
    BY <1>2 DEF DepthCheck
  <2>2. \/ req'[p].pc = "idle"
        \/ req'[p].pc = "insert" /\ req'[p].thread = req[p].thread
    BY <1>2, DepthKeeps
  <2>3. QED BY <2>1, <2>2 DEF At, Posts
<1>3. CASE EditSave(p) \/ DeletePost(p)
  <2>1. req[p].pc \in {"edit", "deletePost"} /\ Finish(p) /\ UNCHANGED postCount
    BY <1>3 DEF EditSave, DeletePost, At
  <2>2. QED BY <1>3, <2>1, FinishKeeps, UpdatesKeep
<1>4. CASE LockThread(p) \/ PinThread(p) \/ InsertFails(p) \/ Abort(p)
  <2>1. Finish(p) /\ UNCHANGED <<posts, postCount>>
    BY <1>4 DEF LockThread, PinThread, InsertFails, Abort
  <2>2. req[p].pc \notin {"lastPost", "postCount"}
    BY <1>4 DEF LockThread, PinThread, InsertFails, At, CountSteps
  <2>3. QED BY <2>1, <2>2, FinishKeeps DEF Posts
<1>5. QED BY <1>1, <1>2, <1>3, <1>4
      DEF CountSteps, Step, Reply, CreateThread, EditPost, RemovePost, Moderate, Fail, LogAndGoOn

\* Where nobody deletes threads, no step does.
LEMMA NoThreadGoes ==
    ASSUME PlacesInv, NEW p \in Procs
    PROVE  ~DeleteThread(p)
BY DEF PlacesInv, DeleteThread

\* One step keeps PlacesInv.
LEMMA PlacesStep ==
    ASSUME TypeInv, PlacesInv, "deleteThread" \notin Kinds, NEW p \in Procs, Step(p)
    PROVE  PlacesInv' /\ Threads \subseteq Threads'
<1>1. ~DeleteThread(p)
  BY NoThreadGoes
<1>2. Threads \subseteq Threads'
  BY <1>1, ThreadsMove
<1>3. \A i \in Posts' : posts'[i].thread \in Threads'
  <2>1. CASE ReplyInsert(p)
    <3>1. req[p].thread \in Threads
      BY <2>1 DEF PlacesInv, ReplyInsert, At
    <3>2. PICK i \in PostIds : /\ Posts' = Posts \cup {i} /\ posts'[i].thread = req[p].thread
                               /\ \A j \in Posts : posts'[j] = posts[j]
      BY <2>1, ReplyInserted
    <3>3. QED BY <1>2, <3>1, <3>2 DEF PlacesInv
  <2>2. CASE OpInsert(p)
    BY <1>2, <2>2, OpInserted DEF PlacesInv, OpInsert, At
  <2>3. CASE ~ReplyInsert(p) /\ ~OpInsert(p)
    <3>1. CASE CountSteps(p)
      <4>1. UNCHANGED posts
        BY <2>3, <3>1 DEF CountSteps, UpdateLastPost, IncrementPostCount, LogAndGoOn, Abort
      <4>2. QED BY <1>2, <4>1 DEF PlacesInv, Posts
    <3>2. CASE ~CountSteps(p)
      BY <1>1, <1>2, <3>2, OtherSteps DEF PlacesInv
    <3>3. QED BY <3>1, <3>2
  <2>4. QED BY <2>1, <2>2, <2>3
<1>4. /\ req'[p].pc # "deleteThread"
      /\ req'[p].pc \in {"depth", "insert", "lastPost", "opInsert"} => req'[p].thread \in Threads'
  <2>1. CASE ReplyInsert(p)
    BY <1>2, <2>1, ReplyInserted DEF PlacesInv, ReplyInsert, At
  <2>2. CASE CountSteps(p) /\ ~ReplyInsert(p)
    <3>1. Finish(p) \/ Goto(p, "postCount")
      BY <2>2 DEF CountSteps, OpInsert, UpdateLastPost, IncrementPostCount, LogAndGoOn, Abort
    <3>2. QED BY <3>1, FinishKeeps, GotoKeeps
  <2>3. CASE ~CountSteps(p)
    BY <1>1, <1>2, <2>3, OtherSteps DEF PlacesInv, At
  <2>4. QED BY <2>1, <2>2, <2>3
<1>5. QED BY <1>2, <1>3, <1>4, OneSteps DEF PlacesInv, At

\* How the number n that a counter has counted or missed, the requests C on
\* their way to it and the replies R may change: nothing; a reply arrives; it is
\* counted or missed.
Recounts(n, C, R, m, D, S) ==
    \/ m = n /\ D = C /\ S = R
    \/ m = n /\ \E p, i : p \notin C /\ D = C \cup {p} /\ i \notin R /\ S = R \cup {i}
    \/ m = n + 1 /\ S = R /\ \E p \in C : D = C \ {p}

\* So an exact counter stays exact.
LEMMA RecountsKeep ==
    ASSUME NEW n \in Nat, NEW C, NEW R, NEW m, NEW D, NEW S,
           IsFiniteSet(C), IsFiniteSet(R), Recounts(n, C, R, m, D, S),
           n + Cardinality(C) = Cardinality(R)
    PROVE  m + Cardinality(D) = Cardinality(S)
<1>1. Cardinality(C) \in Nat /\ Cardinality(R) \in Nat
  BY FS_CardinalityType
<1>2. CASE m = n /\ D = C /\ S = R
  BY <1>2
<1>3. CASE m = n /\ \E p, i : p \notin C /\ D = C \cup {p} /\ i \notin R /\ S = R \cup {i}
  <2>1. Cardinality(D) = Cardinality(C) + 1 /\ Cardinality(S) = Cardinality(R) + 1
    BY <1>3, FS_AddElement
  <2>2. QED BY <1>1, <1>3, <2>1
<1>4. CASE m = n + 1 /\ S = R /\ \E p \in C : D = C \ {p}
  <2>1. Cardinality(D) = Cardinality(C) - 1 /\ Cardinality(S) = Cardinality(R)
    BY <1>4, FS_RemoveElement
  <2>2. QED BY <1>1, <1>4, <2>1
<1>5. QED BY <1>2, <1>3, <1>4 DEF Recounts

\* Who writes the history of missed counts.
LEMMA MissedMoves ==
    ASSUME NEW p \in Procs, Step(p)
    PROVE  \/ UNCHANGED missed
           \/ NewThread(p)
           \/ LogAndGoOn(p) /\ At(p, "lastPost") /\ Miss({req[p].thread})
           \/ LogAndGoOn(p) /\ At(p, "postCount") /\ Miss({req[p].user})
           \/ Abort(p) /\ Miss(Skipped(p))
BY DEF Step, Reply, ReplyRead, DepthCheck, ReplyInsert, UpdateLastPost, IncrementPostCount,
       CreateThread, OpInsert, EditPost, EditRead, EditSave, RemovePost, DeletePostRead,
       DeletePost, Moderate, LockRead, LockThread, PinRead, PinThread, DeleteThreadRead,
       DeleteThread, Fail, InsertFails, LogAndGoOn, Abort

\* A new thread has missed nothing, and the counters that were there have
\* missed what they had.
LEMMA MissedStart ==
    ASSUME TypeInv, NEW p \in Procs, NewThread(p)
    PROVE  /\ \A c \in Threads \cup Users : missed'[c] = missed[c]
           /\ \A t \in Threads' : t \notin Threads => missed'[t] = 0
<1>0. PICK row : row = [locked |-> FALSE, pinned |-> FALSE, replies |-> 0]
  OBVIOUS
<1>1. PICK k \in ThreadIds : /\ NextKey(Threads, k) /\ threads' = [threads EXCEPT ![k] = row]
                             /\ missed' = [missed EXCEPT ![k] = 0]
  BY <1>0 DEF NewThread
<1>2. k \notin Threads
  BY <1>1 DEF NextKey, ThreadIds
<1>3. k \notin Users
  BY ConstantsOK
<1>4. \A t \in ThreadIds \ {k} : threads'[t] = threads[t]
  BY <1>1 DEF TypeInv, TypeOK
<1>5. missed'[k] = 0 /\ \A c \in (ThreadIds \cup Users) \ {k} : missed'[c] = missed[c]
  BY <1>1 DEF TypeInv, TypeOK
<1>6. QED BY <1>2, <1>3, <1>4, <1>5 DEF Threads

\* Steps that are on no way to a counter miss none.
LEMMA MissedStays ==
    ASSUME TypeInv, NEW p \in Procs, Step(p), ~CountSteps(p)
    PROVE  \A c \in Threads \cup Users : missed'[c] = missed[c]
<1>1. CASE UNCHANGED missed
  BY <1>1
<1>2. CASE NewThread(p)
  BY <1>2, MissedStart
<1>3. CASE Abort(p) /\ Miss(Skipped(p))
  <2>1. Skipped(p) = {}
    BY <1>3 DEF Skipped, CountSteps, At
  <2>2. QED BY <1>3, <2>1 DEF Miss, Threads
<1>4. QED BY <1>1, <1>2, <1>3, MissedMoves DEF CountSteps

\* When the request keeps its standing and the posts whose they are, the sets
\* that belong to a counter stay.
LEMMA SetsStay ==
    ASSUME NEW p \in Procs, \A q \in Procs \ {p} : req'[q] = req[q],
           Posts' = Posts,
           \A i \in Posts : /\ posts'[i].thread = posts[i].thread
                            /\ posts'[i].author = posts[i].author
                            /\ posts'[i].op = posts[i].op
    PROVE  /\ \A t : RepliesIn(t)' = RepliesIn(t)
           /\ \A u : RepliesBy(u)' = RepliesBy(u)
           /\ req[p].pc # "lastPost" /\ req'[p].pc # "lastPost"
                => \A t : Counting(t)' = Counting(t)
           /\ req[p].pc \notin {"lastPost", "postCount"}
              /\ req'[p].pc \notin {"lastPost", "postCount"}
                => \A u : Crediting(u)' = Crediting(u)
BY DEF RepliesIn, RepliesBy, Counting, Crediting, At

\* The reply counter of a thread.
LEMMA ThreadCounts ==
    ASSUME TypeInv, NEW p \in Procs, Step(p), ~DeleteThread(p),
           NEW t \in Threads
    PROVE  Recounts(threads[t].replies + missed[t], Counting(t), RepliesIn(t),
                    threads'[t].replies + missed'[t], Counting(t)', RepliesIn(t)')
<1>0. /\ ~DeleteThread(p)
      /\ \A q \in Procs \ {p} : req'[q] = req[q]
      /\ threads[t].replies \in Nat /\ missed[t] \in Nat /\ t \in ThreadIds /\ t \notin Users
  BY OneSteps, ConstantsOK DEF TypeInv, TypeOK, Threads, ThreadRow
<1>1. CASE ~CountSteps(p)
  <2>1. threads'[t].replies = threads[t].replies /\ missed'[t] = missed[t]
    BY <1>0, <1>1, ThreadsMove, MissedStays DEF CountSteps
  <2>2. Counting(t)' = Counting(t) /\ RepliesIn(t)' = RepliesIn(t)
    <3>1. /\ req[p].pc # "lastPost" /\ req'[p].pc # "lastPost" /\ Posts' = Posts
          /\ \A i \in Posts : /\ posts'[i].thread = posts[i].thread
                              /\ posts'[i].author = posts[i].author
                              /\ posts'[i].op = posts[i].op
      BY <1>0, <1>1, OtherSteps
    <3>2. QED BY <1>0, <3>1, SetsStay
  <2>3. QED BY <2>1, <2>2 DEF Recounts
<1>2. CASE ReplyInsert(p)
  <2>1. threads'[t].replies = threads[t].replies /\ missed'[t] = missed[t]
    BY <1>2 DEF ReplyInsert
  <2>2. PICK i \in PostIds :
          /\ i \notin Posts /\ Posts' = Posts \cup {i}
          /\ posts'[i].thread = req[p].thread /\ ~posts'[i].op
          /\ \A j \in Posts : posts'[j] = posts[j]
          /\ req'[p].pc = "lastPost" /\ req'[p].thread = req[p].thread
    BY <1>2, ReplyInserted
  <2>3. req[p].pc = "insert"
    BY <1>2 DEF ReplyInsert, At
  <2>4. CASE t = req[p].thread
    <3>1. p \notin Counting(t) /\ Counting(t)' = Counting(t) \cup {p}
      BY <1>0, <2>2, <2>3, <2>4 DEF Counting, At
    <3>2. i \notin RepliesIn(t) /\ RepliesIn(t)' = RepliesIn(t) \cup {i}
      BY <2>2, <2>4 DEF RepliesIn
    <3>3. QED BY <2>1, <3>1, <3>2 DEF Recounts
  <2>5. CASE t # req[p].thread
    <3>1. Counting(t)' = Counting(t)
      BY <1>0, <2>2, <2>3, <2>5 DEF Counting, At
    <3>2. RepliesIn(t)' = RepliesIn(t)
      BY <2>2, <2>5 DEF RepliesIn
    <3>3. QED BY <2>1, <3>1, <3>2 DEF Recounts
  <2>6. QED BY <2>4, <2>5
<1>3. CASE OpInsert(p)
  <2>1. threads'[t].replies = threads[t].replies /\ missed'[t] = missed[t]
    BY <1>3 DEF OpInsert
  <2>2. PICK i \in PostIds :
          /\ i \notin Posts /\ Posts' = Posts \cup {i} /\ posts'[i].op
          /\ \A j \in Posts : posts'[j] = posts[j]
    BY <1>3, OpInserted
  <2>3. req[p].pc = "opInsert" /\ req'[p].pc = "idle"
    BY <1>3, FinishKeeps DEF OpInsert, At
  <2>4. Counting(t)' = Counting(t) /\ RepliesIn(t)' = RepliesIn(t)
    BY <1>0, <2>2, <2>3 DEF Counting, RepliesIn, At
  <2>5. QED BY <2>1, <2>4 DEF Recounts
<1>4. ASSUME UNCHANGED posts, req[p].pc = "lastPost", req'[p].pc # "lastPost"
      PROVE  /\ RepliesIn(t)' = RepliesIn(t)
             /\ t = req[p].thread => p \in Counting(t) /\ Counting(t)' = Counting(t) \ {p}
             /\ t # req[p].thread => Counting(t)' = Counting(t)
  BY <1>0, <1>4 DEF Counting, RepliesIn, Posts, At
<1>5. CASE UpdateLastPost(p)
  <2>1. /\ UNCHANGED <<posts, missed>> /\ req[p].pc = "lastPost"
        /\ req'[p].pc = "postCount"
    BY <1>5, GotoKeeps DEF UpdateLastPost, At
  <2>2. CASE t = req[p].thread
    <3>1. threads'[t].replies = threads[t].replies + 1
      BY <1>0, <1>5, <2>2, ThreadsMove
    <3>2. threads'[t].replies + missed'[t] = threads[t].replies + missed[t] + 1
      BY <1>0, <2>1, <3>1
    <3>3. QED BY <1>4, <2>1, <2>2, <3>2 DEF Recounts
  <2>3. CASE t # req[p].thread
    <3>1. threads'[t].replies = threads[t].replies
      BY <1>5, <2>3 DEF UpdateLastPost, Threads
    <3>2. QED BY <1>4, <2>1, <2>3, <3>1 DEF Recounts
  <2>4. QED BY <2>2, <2>3
<1>6. CASE IncrementPostCount(p) \/ (req[p].pc = "postCount" /\ (LogAndGoOn(p) \/ Abort(p)))
  <2>1. UNCHANGED <<threads, posts>> /\ req[p].pc = "postCount" /\ req'[p].pc # "lastPost"
    BY <1>6, FinishKeeps DEF IncrementPostCount, LogAndGoOn, Abort, At
  <2>2. Counting(t)' = Counting(t) /\ RepliesIn(t)' = RepliesIn(t)
    BY <1>0, <2>1 DEF Counting, RepliesIn, Posts, At
  <2>3. missed'[t] = missed[t]
    <3>1. CASE UNCHANGED missed
      BY <3>1
    <3>2. CASE Miss({req[p].user})
      <4>1. req[p].user \in Users
        BY <2>1 DEF TypeInv, LocalsSet
      <4>2. QED BY <1>0, <3>2, <4>1 DEF Miss
    <3>3. QED BY <1>6, <2>1, <3>1, <3>2 DEF IncrementPostCount, LogAndGoOn, Abort, Skipped, At
  <2>4. QED BY <2>1, <2>2, <2>3 DEF Recounts
<1>7. CASE req[p].pc = "lastPost" /\ (LogAndGoOn(p) \/ Abort(p))
  <2>1. UNCHANGED <<threads, posts>> /\ req'[p].pc # "lastPost"
    BY <1>7, FinishKeeps, GotoKeeps DEF LogAndGoOn, Abort, At
  <2>2. missed'[t] = IF t = req[p].thread THEN missed[t] + 1 ELSE missed[t]
    <3>1. req[p].user \in Users
      BY <1>7 DEF TypeInv, LocalsSet
    <3>2. Miss({req[p].thread}) \/ Miss({req[p].thread, req[p].user})
      BY <1>7 DEF LogAndGoOn, Abort, Skipped, At
    <3>3. QED BY <1>0, <3>1, <3>2 DEF Miss
  <2>3. CASE t = req[p].thread
    <3>1. threads'[t].replies + missed'[t] = threads[t].replies + missed[t] + 1
      BY <1>0, <2>1, <2>2, <2>3
    <3>2. QED BY <1>4, <1>7, <2>1, <2>3, <3>1 DEF Recounts
  <2>4. CASE t # req[p].thread
    BY <1>4, <1>7, <2>1, <2>2, <2>4 DEF Recounts
  <2>5. QED BY <2>3, <2>4
<1>8. ASSUME CountSteps(p)
      PROVE  \/ ReplyInsert(p) \/ OpInsert(p) \/ UpdateLastPost(p)
             \/ IncrementPostCount(p)
             \/ /\ req[p].pc = "postCount"
                /\ LogAndGoOn(p) \/ Abort(p)
             \/ /\ req[p].pc = "lastPost"
                /\ LogAndGoOn(p) \/ Abort(p)
  BY <1>8 DEF CountSteps, At
<1>9. QED BY <1>1, <1>2, <1>3, <1>5, <1>6, <1>7, <1>8

\* The post counter of a user.
LEMMA UserCounts ==
    ASSUME TypeInv, NEW p \in Procs, Step(p), ~DeleteThread(p),
           NEW u \in Users
    PROVE  Recounts(postCount[u] + missed[u], Crediting(u), RepliesBy(u),
                    postCount'[u] + missed'[u], Crediting(u)', RepliesBy(u)')
<1>0. /\ ~DeleteThread(p) /\ \A q \in Procs \ {p} : req'[q] = req[q]
      /\ postCount[u] \in Nat /\ missed[u] \in Nat /\ u \notin ThreadIds
  BY OneSteps, ConstantsOK DEF TypeInv, TypeOK
<1>1. CASE ~CountSteps(p)
  <2>1. /\ req[p].pc \notin {"lastPost", "postCount"}
        /\ req'[p].pc \notin {"lastPost", "postCount"} /\ Posts' = Posts
        /\ \A i \in Posts : /\ posts'[i].thread = posts[i].thread
                            /\ posts'[i].author = posts[i].author
                            /\ posts'[i].op = posts[i].op
        /\ UNCHANGED postCount
    BY <1>0, <1>1, OtherSteps
  <2>2. Crediting(u)' = Crediting(u) /\ RepliesBy(u)' = RepliesBy(u)
    BY <1>0, <2>1, SetsStay
  <2>3. missed'[u] = missed[u]
    BY <1>1, MissedStays
  <2>4. QED BY <2>1, <2>2, <2>3 DEF Recounts
<1>2. CASE ReplyInsert(p)
  <2>1. UNCHANGED <<postCount, missed>>
    BY <1>2 DEF ReplyInsert
  <2>2. PICK i \in PostIds :
          /\ i \notin Posts /\ Posts' = Posts \cup {i}
          /\ posts'[i].author = req[p].user /\ ~posts'[i].op
          /\ \A j \in Posts : posts'[j] = posts[j]
          /\ req'[p].pc = "lastPost" /\ req'[p].user = req[p].user
    BY <1>2, ReplyInserted
  <2>3. req[p].pc = "insert"
    BY <1>2 DEF ReplyInsert, At
  <2>4. CASE u = req[p].user
    <3>1. p \notin Crediting(u) /\ Crediting(u)' = Crediting(u) \cup {p}
      BY <1>0, <2>2, <2>3, <2>4 DEF Crediting
    <3>2. i \notin RepliesBy(u) /\ RepliesBy(u)' = RepliesBy(u) \cup {i}
      BY <2>2, <2>4 DEF RepliesBy
    <3>3. QED BY <2>1, <3>1, <3>2 DEF Recounts
  <2>5. CASE u # req[p].user
    <3>1. Crediting(u)' = Crediting(u)
      BY <1>0, <2>2, <2>3, <2>5 DEF Crediting
    <3>2. RepliesBy(u)' = RepliesBy(u)
      BY <2>2, <2>5 DEF RepliesBy
    <3>3. QED BY <2>1, <3>1, <3>2 DEF Recounts
  <2>6. QED BY <2>4, <2>5
<1>3. CASE OpInsert(p)
  <2>1. UNCHANGED <<postCount, missed>>
    BY <1>3 DEF OpInsert
  <2>2. PICK i \in PostIds :
          /\ i \notin Posts /\ Posts' = Posts \cup {i} /\ posts'[i].op
          /\ \A j \in Posts : posts'[j] = posts[j]
    BY <1>3, OpInserted
  <2>3. req[p].pc = "opInsert" /\ req'[p].pc = "idle"
    BY <1>3, FinishKeeps DEF OpInsert, At
  <2>4. Crediting(u)' = Crediting(u) /\ RepliesBy(u)' = RepliesBy(u)
    BY <1>0, <2>2, <2>3 DEF Crediting, RepliesBy
  <2>5. QED BY <2>1, <2>4 DEF Recounts
<1>4. CASE UpdateLastPost(p) \/ (LogAndGoOn(p) /\ At(p, "lastPost"))
  <2>1. /\ UNCHANGED <<posts, postCount>> /\ req[p].pc = "lastPost"
        /\ req'[p].pc = "postCount" /\ req'[p].user = req[p].user
    BY <1>4, GotoKeeps DEF UpdateLastPost, LogAndGoOn, At
  <2>2. Crediting(u)' = Crediting(u) /\ RepliesBy(u)' = RepliesBy(u)
    BY <1>0, <2>1 DEF Crediting, RepliesBy, Posts
  <2>3. missed'[u] = missed[u]
    <3>1. CASE UNCHANGED missed
      BY <3>1
    <3>2. CASE Miss({req[p].thread})
      <4>1. req[p].thread \in ThreadIds
        BY <2>1 DEF TypeInv, LocalsSet
      <4>2. QED BY <1>0, <3>2, <4>1 DEF Miss
    <3>3. QED BY <1>4, <2>1, <3>1, <3>2 DEF UpdateLastPost, LogAndGoOn, At
  <2>4. QED BY <2>1, <2>2, <2>3 DEF Recounts
<1>5. ASSUME UNCHANGED posts, req[p].pc \in {"lastPost", "postCount"}, req'[p].pc = "idle"
      PROVE  /\ RepliesBy(u)' = RepliesBy(u)
             /\ u = req[p].user => p \in Crediting(u) /\ Crediting(u)' = Crediting(u) \ {p}
             /\ u # req[p].user => Crediting(u)' = Crediting(u)
  BY <1>0, <1>5 DEF Crediting, RepliesBy, Posts
<1>6. CASE IncrementPostCount(p)
  <2>1. UNCHANGED <<posts, missed>> /\ req[p].pc = "postCount" /\ req'[p].pc = "idle"
    BY <1>6, FinishKeeps DEF IncrementPostCount, At
  <2>2. postCount'[u] = IF u = req[p].user THEN postCount[u] + 1 ELSE postCount[u]
    BY <1>6 DEF IncrementPostCount, TypeInv, TypeOK
  <2>3. postCount'[u] + missed'[u]
        = IF u = req[p].user THEN postCount[u] + missed[u] + 1 ELSE postCount[u] + missed[u]
    BY <1>0, <2>1, <2>2
  <2>4. QED BY <1>5, <2>1, <2>3 DEF Recounts
<1>7. CASE \/ LogAndGoOn(p) /\ At(p, "postCount")
           \/ Abort(p) /\ req[p].pc \in {"lastPost", "postCount"}
  <2>1. UNCHANGED <<posts, postCount>> /\ req'[p].pc = "idle"
    BY <1>7, FinishKeeps DEF LogAndGoOn, Abort, At
  <2>2. req[p].pc \in {"lastPost", "postCount"}
    BY <1>7 DEF At
  <2>3. missed'[u] = IF u = req[p].user THEN missed[u] + 1 ELSE missed[u]
    <3>1. req[p].pc = "lastPost" => req[p].thread \in ThreadIds
      BY DEF TypeInv, LocalsSet
    <3>2. \/ Miss({req[p].user})
          \/ req[p].pc = "lastPost" /\ Miss({req[p].thread, req[p].user})
      BY <1>7, <2>2 DEF LogAndGoOn, Abort, Skipped, At
    <3>3. QED BY <1>0, <3>1, <3>2 DEF Miss
  <2>4. CASE u = req[p].user
    <3>1. postCount'[u] + missed'[u] = postCount[u] + missed[u] + 1
      BY <1>0, <2>1, <2>3, <2>4
    <3>2. QED BY <1>5, <2>1, <2>2, <2>4, <3>1 DEF Recounts
  <2>5. CASE u # req[p].user
    BY <1>5, <2>1, <2>2, <2>3, <2>5 DEF Recounts
  <2>6. QED BY <2>4, <2>5
<1>8. QED BY <1>1, <1>2, <1>3, <1>4, <1>6, <1>7 DEF CountSteps

\* A thread is new only by NewThread, and then it has counted nothing.
LEMMA OnlyNewThread ==
    ASSUME TypeInv, NEW p \in Procs, Step(p), NEW t \in Threads', t \notin Threads
    PROVE  /\ NewThread(p) /\ ~DeleteThread(p) /\ UNCHANGED posts
           /\ threads'[t].replies = 0 /\ missed'[t] = 0
           /\ req'[p].pc # "lastPost" /\ \A q \in Procs \ {p} : req'[q] = req[q]
<1>1. ~DeleteThread(p)
  <2>1. ASSUME DeleteThread(p) PROVE FALSE
    <3>1. threads' = [threads EXCEPT ![req[p].thread] = None]
      BY <2>1 DEF DeleteThread
    <3>2. threads'[t] = threads[t] \/ threads'[t] = None
      BY <3>1 DEF Threads, TypeInv, TypeOK
    <3>3. QED BY <3>2 DEF Threads
  <2>2. QED BY <2>1
<1>2. threads'[t].replies = 0
  BY <1>1, ThreadsMove
<1>3. NewThread(p)
  <2>1. CASE UNCHANGED threads \/ UpdateLastPost(p) \/ LockThread(p) \/ PinThread(p)
    BY <2>1 DEF UpdateLastPost, LockThread, PinThread, Threads
  <2>2. QED
    BY <1>1, <2>1
       DEF Step, Reply, ReplyRead, DepthCheck, ReplyInsert, IncrementPostCount, CreateThread,
           OpInsert, EditPost, EditRead, EditSave, RemovePost, DeletePostRead, DeletePost,
           Moderate, LockRead, PinRead, DeleteThreadRead, Fail, InsertFails, LogAndGoOn, Abort
<1>4. UNCHANGED posts /\ At(p, "idle")
  BY <1>3 DEF NewThread, Start
<1>5. ~CountSteps(p)
  BY <1>4 DEF CountSteps, ReplyInsert, OpInsert, UpdateLastPost, IncrementPostCount,
              LogAndGoOn, Abort, At
<1>6. req'[p].pc # "lastPost" /\ \A q \in Procs \ {p} : req'[q] = req[q]
  BY <1>1, <1>5, OtherSteps, OneSteps
<1>7. missed'[t] = 0
  BY <1>3, MissedStart
<1>8. QED BY <1>1, <1>2, <1>3, <1>4, <1>6, <1>7

\* Where no thread is deleted it also has no post and no reply on the way.
LEMMA NewThreadsAreEmpty ==
    ASSUME TypeInv, PlacesInv, NEW p \in Procs, Step(p), NEW t \in Threads', t \notin Threads
    PROVE  /\ threads'[t].replies = 0 /\ missed'[t] = 0
           /\ Counting(t)' = {} /\ RepliesIn(t)' = {}
<1>1. /\ UNCHANGED posts /\ threads'[t].replies = 0 /\ missed'[t] = 0
      /\ req'[p].pc # "lastPost"
      /\ \A q \in Procs \ {p} : req'[q] = req[q]
  BY OnlyNewThread
<1>2. Counting(t)' = {}
  BY <1>1 DEF Counting, At, PlacesInv
<1>3. RepliesIn(t)' = {}
  BY <1>1 DEF RepliesIn, PlacesInv, Posts
<1>4. QED BY <1>1, <1>2, <1>3

\* The sets that are counted are finite.
LEMMA CountedAreFinite ==
    ASSUME IsFiniteSet(Procs)
    PROVE  /\ \A t : IsFiniteSet(Counting(t)) /\ IsFiniteSet(RepliesIn(t))
           /\ \A u : IsFiniteSet(Crediting(u)) /\ IsFiniteSet(RepliesBy(u))
<1>1. IsFiniteSet(PostIds)
  BY ConstantsOK, FS_Interval DEF PostIds
<1>2. \A S \in SUBSET PostIds : IsFiniteSet(S)
  BY <1>1, FS_Subset
<1>3. \A S \in SUBSET Procs : IsFiniteSet(S)
  BY FS_Subset
<1>4. /\ \A t : Counting(t) \in SUBSET Procs /\ RepliesIn(t) \in SUBSET PostIds
      /\ \A u : Crediting(u) \in SUBSET Procs /\ RepliesBy(u) \in SUBSET PostIds
  BY DEF Counting, Crediting, RepliesIn, RepliesBy, Posts
<1>5. QED BY <1>2, <1>3, <1>4

\* At the start nothing is counted, nothing on its way and nothing posted.
LEMMA CountersInit ==
    ASSUME Init
    PROVE  PlacesInv /\ CountersExact
<1>1. Threads = {} /\ Posts = {}
  BY DEF Init, Threads, Posts
<1>2. \A p \in Procs : req[p].pc = "idle"
  BY DEF Init, NoRequest
<1>3. PlacesInv
  BY <1>1, <1>2 DEF PlacesInv, At
<1>4. \A u \in Users : /\ postCount[u] = 0 /\ missed[u] = 0
                       /\ Crediting(u) = {} /\ RepliesBy(u) = {}
  BY <1>1, <1>2 DEF Init, Crediting, RepliesBy
<1>5. Cardinality({}) = 0
  BY FS_EmptySet
<1>6. \A u \in Users : postCount[u] + missed[u] + Cardinality(Crediting(u)) = 0
                       /\ Cardinality(RepliesBy(u)) = 0
  BY <1>4, <1>5
<1>7. QED BY <1>1, <1>3, <1>6 DEF CountersExact

\* A step keeps the counters exact.
LEMMA CountersStep ==
    ASSUME TypeInv, PlacesInv, "deleteThread" \notin Kinds, IsFiniteSet(Procs), CountersExact,
           NEW p \in Procs, Step(p)
    PROVE  CountersExact'
<1>1. ASSUME NEW t \in Threads
      PROVE  threads'[t].replies + missed'[t] + Cardinality(Counting(t)')
             = Cardinality(RepliesIn(t)')
  <2>1. Recounts(threads[t].replies + missed[t], Counting(t), RepliesIn(t),
                 threads'[t].replies + missed'[t], Counting(t)', RepliesIn(t)')
    BY ThreadCounts, NoThreadGoes
  <2>2. IsFiniteSet(Counting(t)) /\ IsFiniteSet(RepliesIn(t))
    BY CountedAreFinite
  <2>3. threads[t].replies + missed[t] \in Nat
    BY DEF TypeInv, TypeOK, Threads, ThreadRow
  <2>4. threads[t].replies + missed[t] + Cardinality(Counting(t)) = Cardinality(RepliesIn(t))
    BY DEF CountersExact
  <2>5. QED BY <2>1, <2>2, <2>3, <2>4, RecountsKeep
<1>2. ASSUME NEW t \in Threads', t \notin Threads
      PROVE  threads'[t].replies + missed'[t] + Cardinality(Counting(t)')
             = Cardinality(RepliesIn(t)')
  <2>1. /\ threads'[t].replies = 0 /\ missed'[t] = 0
        /\ Counting(t)' = {} /\ RepliesIn(t)' = {}
    BY <1>2, NewThreadsAreEmpty
  <2>2. QED BY <2>1, FS_EmptySet
<1>3. ASSUME NEW u \in Users
      PROVE  postCount'[u] + missed'[u] + Cardinality(Crediting(u)')
             = Cardinality(RepliesBy(u)')
  <2>1. Recounts(postCount[u] + missed[u], Crediting(u), RepliesBy(u),
                 postCount'[u] + missed'[u], Crediting(u)', RepliesBy(u)')
    BY UserCounts, NoThreadGoes
  <2>2. IsFiniteSet(Crediting(u)) /\ IsFiniteSet(RepliesBy(u))
    BY CountedAreFinite
  <2>3. postCount[u] + missed[u] \in Nat
    BY DEF TypeInv, TypeOK
  <2>4. postCount[u] + missed[u] + Cardinality(Crediting(u)) = Cardinality(RepliesBy(u))
    BY DEF CountersExact
  <2>5. QED BY <2>1, <2>2, <2>3, <2>4, RecountsKeep
<1>4. QED BY <1>1, <1>2, <1>3 DEF CountersExact

\* A stuttering step moves none of the sets.
LEMMA NothingMoves ==
    ASSUME UNCHANGED vars
    PROVE  /\ \A t : Counting(t)' = Counting(t) /\ RepliesIn(t)' = RepliesIn(t)
           /\ \A u : Crediting(u)' = Crediting(u) /\ RepliesBy(u)' = RepliesBy(u)
BY DEF vars, Posts, At, Counting, Crediting, RepliesIn, RepliesBy

\* As long as no thread is deleted, reply_count and post_count are exact, whatever
\* statements fail: each reply was counted or missed once, or is on its way.
THEOREM CountersAreExact ==
    ASSUME "deleteThread" \notin Kinds, IsFiniteSet(Procs)
    PROVE  Spec => []CountersExact
<1>1. Init => PlacesInv /\ CountersExact
  BY CountersInit
<1>2. TypeInv /\ PlacesInv /\ CountersExact /\ [Next]_vars
        => PlacesInv' /\ CountersExact'
  <2> SUFFICES ASSUME TypeInv, PlacesInv, CountersExact, [Next]_vars
               PROVE  PlacesInv' /\ CountersExact'
    OBVIOUS
  <2>1. CASE UNCHANGED vars
    BY <2>1, NothingMoves DEF PlacesInv, CountersExact, Posts, Threads, At, vars
  <2>2. CASE Next
    <3>1. PICK p \in Procs : Step(p)
      BY <2>2 DEF Next, Step
    <3>2. QED BY <3>1, PlacesStep, CountersStep
  <2>3. QED BY <2>1, <2>2
<1>3. QED BY <1>1, <1>2, TypeInit, TypeStep, PTL DEF Spec

-----------------------------------------------------------------------------
(* Counters and deletions.                                                 *)

\* A deletion takes replies away and leaves the counters of the threads that
\* stay, and the requests on their way to one, as they are.
LEMMA DeletionShrinks ==
    ASSUME TypeInv, NEW p \in Procs, Step(p), DeleteThread(p)
    PROVE  /\ \A t \in Threads' : t \in Threads /\ threads'[t] = threads[t]
           /\ UNCHANGED <<postCount, missed>>
           /\ \A t : Counting(t)' = Counting(t) /\ RepliesIn(t)' \subseteq RepliesIn(t)
           /\ \A u : Crediting(u)' = Crediting(u) /\ RepliesBy(u)' \subseteq RepliesBy(u)
<1>1. /\ threads' = [threads EXCEPT ![req[p].thread] = None]
      /\ CascadePosts(req[p].thread) \/ UNCHANGED posts
      /\ Finish(p) /\ UNCHANGED <<postCount, missed>>
      /\ req[p].pc = "deleteThread"
  BY DEF DeleteThread, At
<1>2. \A t \in Threads' : t \in Threads /\ threads'[t] = threads[t]
  <2>1. \A t \in ThreadIds : threads'[t] = None \/ threads'[t] = threads[t]
    BY <1>1 DEF TypeInv, TypeOK
  <2>2. QED BY <2>1 DEF Threads
<1>3. ASSUME NEW i \in Posts'
      PROVE  /\ i \in Posts /\ posts'[i].thread = posts[i].thread
             /\ posts'[i].author = posts[i].author /\ posts'[i].op = posts[i].op
  <2>1. i \in PostIds /\ posts'[i] # None
    BY <1>3 DEF Posts
  <2>2. i \in Posts /\ (posts'[i] = posts[i] \/ posts'[i] = [posts[i] EXCEPT !.parent = None])
    BY <1>1, <2>1, ReparentsPosts DEF Posts
  <2>3. PICK row \in PostRow : row = posts[i]
    BY <2>1, <2>2 DEF TypeInv, TypeOK, Posts
  <2>4. PICK new : new = posts'[i] /\ (new = row \/ new = [row EXCEPT !.parent = None])
    BY <2>2, <2>3
  <2>5. new.thread = row.thread /\ new.author = row.author /\ new.op = row.op
    BY <2>3, <2>4 DEF PostRow
  <2>6. QED BY <2>2, <2>3, <2>4, <2>5
<1>4. /\ \A t : RepliesIn(t)' \subseteq RepliesIn(t)
      /\ \A u : RepliesBy(u)' \subseteq RepliesBy(u)
  BY <1>3 DEF RepliesIn, RepliesBy
<1>5. req'[p].pc = "idle" /\ \A q \in Procs \ {p} : req'[q] = req[q]
  BY <1>1, FinishKeeps, OneSteps
<1>6. /\ \A t : Counting(t)' = Counting(t)
      /\ \A u : Crediting(u)' = Crediting(u)
  BY <1>1, <1>5 DEF Counting, Crediting, At
<1>7. QED BY <1>1, <1>2, <1>4, <1>6

\* A counter that is not behind stays so, when what it counts moves or shrinks.
LEMMA RecountsCatchUp ==
    ASSUME NEW n \in Nat, NEW C, NEW R, NEW m, NEW D, NEW S,
           IsFiniteSet(C), IsFiniteSet(R),
           \/ Recounts(n, C, R, m, D, S)
           \/ m = n /\ D = C /\ S \subseteq R,
           n + Cardinality(C) >= Cardinality(R)
    PROVE  m + Cardinality(D) >= Cardinality(S)
<1>1. Cardinality(C) \in Nat /\ Cardinality(R) \in Nat
  BY FS_CardinalityType
<1>2. CASE m = n /\ D = C /\ S \subseteq R
  <2>1. Cardinality(S) \in Nat /\ Cardinality(S) <= Cardinality(R)
    BY <1>2, FS_Subset, FS_CardinalityType
  <2>2. QED BY <1>1, <1>2, <2>1
<1>3. CASE m = n /\ \E p, i : p \notin C /\ D = C \cup {p} /\ i \notin R /\ S = R \cup {i}
  <2>1. Cardinality(D) = Cardinality(C) + 1 /\ Cardinality(S) = Cardinality(R) + 1
    BY <1>3, FS_AddElement
  <2>2. QED BY <1>1, <1>3, <2>1
<1>4. CASE m = n + 1 /\ S = R /\ \E p \in C : D = C \ {p}
  <2>1. Cardinality(D) = Cardinality(C) - 1 /\ Cardinality(S) = Cardinality(R)
    BY <1>4, FS_RemoveElement
  <2>2. QED BY <1>1, <1>4, <2>1
<1>5. QED BY <1>2, <1>3, <1>4 DEF Recounts

\* A step leaves no counter behind.
LEMMA BehindStep ==
    ASSUME IsFiniteSet(Procs), TypeInv, NoDanglingReference, CountersNeverBehind,
           NEW p \in Procs, Step(p)
    PROVE  CountersNeverBehind'
<1>0. lost \subseteq lost'
  BY LostStays DEF Step
<1>1. ASSUME NEW t \in Threads, t \in Threads', <<"thread", t>> \notin lost'
      PROVE  threads'[t].replies + missed'[t] + Cardinality(Counting(t)')
             >= Cardinality(RepliesIn(t)')
  <2>1. \/ Recounts(threads[t].replies + missed[t], Counting(t), RepliesIn(t),
                    threads'[t].replies + missed'[t], Counting(t)', RepliesIn(t)')
        \/ /\ threads'[t].replies + missed'[t] = threads[t].replies + missed[t]
           /\ Counting(t)' = Counting(t) /\ RepliesIn(t)' \subseteq RepliesIn(t)
    BY <1>1, ThreadCounts, DeletionShrinks
  <2>2. threads[t].replies + missed[t] + Cardinality(Counting(t)) >= Cardinality(RepliesIn(t))
    BY <1>0, <1>1 DEF CountersNeverBehind
  <2>3. /\ threads[t].replies + missed[t] \in Nat
        /\ IsFiniteSet(Counting(t)) /\ IsFiniteSet(RepliesIn(t))
    BY CountedAreFinite DEF TypeInv, TypeOK, Threads, ThreadRow
  <2>4. QED BY <2>1, <2>2, <2>3, RecountsCatchUp
<1>2. ASSUME NEW t \in Threads', t \notin Threads, <<"thread", t>> \notin lost'
      PROVE  threads'[t].replies + missed'[t] + Cardinality(Counting(t)')
             >= Cardinality(RepliesIn(t)')
  <2>1. UNCHANGED posts /\ threads'[t].replies = 0 /\ missed'[t] = 0
    BY <1>2, OnlyNewThread
  <2>2. RepliesIn(t)' = {}
    BY <1>0, <1>2, <2>1 DEF RepliesIn, NoDanglingReference, Posts
  <2>3. IsFiniteSet(Counting(t)')
    BY FS_Subset DEF Counting
  <2>4. Cardinality(Counting(t)') \in Nat /\ Cardinality({}) = 0
    BY <2>3, FS_CardinalityType, FS_EmptySet
  <2>5. QED BY <2>1, <2>2, <2>4
<1>3. ASSUME NEW u \in Users
      PROVE  postCount'[u] + missed'[u] + Cardinality(Crediting(u)')
             >= Cardinality(RepliesBy(u)')
  <2>1. \/ Recounts(postCount[u] + missed[u], Crediting(u), RepliesBy(u),
                    postCount'[u] + missed'[u], Crediting(u)', RepliesBy(u)')
        \/ /\ postCount'[u] + missed'[u] = postCount[u] + missed[u]
           /\ Crediting(u)' = Crediting(u) /\ RepliesBy(u)' \subseteq RepliesBy(u)
    BY UserCounts, DeletionShrinks
  <2>2. postCount[u] + missed[u] + Cardinality(Crediting(u)) >= Cardinality(RepliesBy(u))
    BY DEF CountersNeverBehind
  <2>3. /\ postCount[u] + missed[u] \in Nat
        /\ IsFiniteSet(Crediting(u)) /\ IsFiniteSet(RepliesBy(u))
    BY CountedAreFinite DEF TypeInv, TypeOK
  <2>4. QED BY <2>1, <2>2, <2>3, RecountsCatchUp
<1>4. QED BY <1>1, <1>2, <1>3 DEF CountersNeverBehind

\* Whatever is deleted, whichever keys come back and whatever statements fail,
\* a reply that is there is accounted for in its thread and for its author,
\* unless a statement without foreign keys left it behind.
THEOREM CountersKeepUp ==
    ASSUME IsFiniteSet(Procs)
    PROVE  Spec => []CountersNeverBehind
<1>1. Init => CountersNeverBehind
  <2> SUFFICES ASSUME Init PROVE CountersNeverBehind
    OBVIOUS
  <2>1. Threads = {}
    BY DEF Init, Threads
  <2>2. \A u \in Users : /\ postCount[u] = 0 /\ missed[u] = 0
                         /\ Crediting(u) = {} /\ RepliesBy(u) = {}
    BY DEF Init, NoRequest, Crediting, RepliesBy, Posts
  <2>3. \A u \in Users : /\ postCount[u] + missed[u] = 0 /\ Cardinality(Crediting(u)) = 0
                         /\ Cardinality(RepliesBy(u)) = 0
    BY <2>2, FS_EmptySet
  <2>4. QED BY <2>1, <2>3 DEF CountersNeverBehind
<1>2. TypeInv /\ NoDanglingReference /\ CountersNeverBehind /\ [Next]_vars
        => CountersNeverBehind'
  <2> SUFFICES ASSUME TypeInv, NoDanglingReference, CountersNeverBehind, [Next]_vars
               PROVE  CountersNeverBehind'
    OBVIOUS
  <2>1. CASE UNCHANGED vars
    BY <2>1, NothingMoves DEF CountersNeverBehind, Threads, vars
  <2>2. CASE Next
    <3>1. PICK p \in Procs : Step(p)
      BY <2>2 DEF Next, Step
    <3>2. QED BY <3>1, BehindStep
  <2>3. QED BY <2>1, <2>2
<1>3. QED BY <1>1, <1>2, TypeInit, TypeStep, ReferencesInit, ReferencesKept, PTL DEF Spec
=============================================================================
