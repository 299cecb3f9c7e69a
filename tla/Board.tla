------------------------------- MODULE Board -------------------------------
(***************************************************************************)
(* Categories and subcategories: the admin handlers of handler/admin.go    *)
(* over store/sqlite/category.go, and the threads that sit in them as far  *)
(* as deletion cares.                                                      *)
(*                                                                         *)
(* A request is a goroutine and one action is one statement, as in         *)
(* Discussion, except that ReorderCategories and ReorderSubcategories are  *)
(* transactions, hence one action each.  Names, slugs, descriptions and    *)
(* the public flag come from the form whole and decide nothing here; a     *)
(* slug that is taken makes the statement fail, which GiveUp covers.       *)
(* migrate.go turns foreign keys on for one connection of the pool, so a   *)
(* statement may run with or without them.                                 *)
(***************************************************************************)
EXTENDS Integers, FiniteSets, Sequences

CONSTANTS
    MaxCat,       \* bound on category keys
    MaxSub,       \* bound on subcategory keys
    MaxThreads,   \* bound on the threads of a subcategory
    Procs,        \* request goroutines
    Kinds,        \* the request kinds clients send
    ForeignKeys,  \* values foreign_keys may have where a statement runs
    None          \* SQL NULL / Go nil

CatIds == 1 .. MaxCat
SubIds == 1 .. MaxSub

AllKinds == {"createCat", "editCat", "deleteCat", "moveCat",
             "createSub", "editSub", "deleteSub", "moveSub",
             "newThread", "deleteThread"}

\* The columns a handler decides on.
SubRow == [cat : CatIds, order : Nat]

ASSUME ConstantsOK ==
    /\ MaxCat \in Nat /\ MaxSub \in Nat /\ MaxThreads \in Nat
    /\ Kinds \subseteq AllKinds
    /\ ForeignKeys \subseteq BOOLEAN
    /\ None \notin CatIds \cup SubIds \cup Nat \cup SubRow

VARIABLES
    cats,     \* categories table: id -> display_order
    subs,     \* subcategories table: id -> row
    threads,  \* number of threads rows with this subcategory_id
    lost,     \* history: <<table, key>> of rows that a statement without
              \* foreign keys deleted, or referred to, while they were missed
    req       \* the request each goroutine is serving

vars == <<cats, subs, threads, lost, req>>

PCs == {"idle", "catInsert", "catUpdate", "catStats", "catDelete", "catReorder",
        "subInsert", "subUpdate", "subDelete", "subReorder", "threadInsert"}

\* The locals of a handler: the row it works on, the rows it listed, and the
\* display_order it will write.
Request == [pc : PCs, cat : CatIds \cup {None}, sub : SubIds \cup {None},
            list : Seq(CatIds \cup SubIds), order : Nat]

NoRequest == [pc |-> "idle", cat |-> None, sub |-> None, list |-> << >>, order |-> 0]

Cats == {c \in CatIds : cats[c] # None}
Subs == {s \in SubIds : subs[s] # None}
SubsOf(c) == {s \in Subs : subs[s].cat = c}

CatOrder == [c \in Cats |-> cats[c]]
SubOrder == [s \in Subs |-> subs[s].order]

At(p, label) == req[p].pc = label
Finish(p) == req' = [req EXCEPT ![p] = NoRequest]
Start(p, kind, r) == At(p, "idle") /\ kind \in Kinds /\ req' = [req EXCEPT ![p] = r]

\* A statement after which rows refer to what is missing: a constraint refuses
\* it where foreign keys are enforced.
Leaving(missing) ==
    /\ missing = {} \/ FALSE \in ForeignKeys
    /\ lost' = lost \cup missing

\* The key SQLite gives the next row of a table whose keys in use are keys.
NextKey(keys, k) ==
    /\ \A j \in keys : j < k
    /\ k = 1 \/ k - 1 \in keys

-----------------------------------------------------------------------------
(* Listing and moving.                                                     *)

\* ORDER BY display_order, id: display orders may be equal and have gaps.
Before(order, i, j) == order[i] < order[j] \/ (order[i] = order[j] /\ i < j)

Above(S, order, i) == {j \in S : Before(order, j, i)}

Listing(S, order) ==
    [n \in 1 .. Cardinality(S) |-> CHOOSE i \in S : Cardinality(Above(S, order, i)) = n - 1]

\* A row trades places with its neighbour, upwards or downwards.
Swapped(list, n) == [list EXCEPT ![n] = list[n + 1], ![n + 1] = list[n]]

\* Mutant: the positions start at the row's old display_order.
PositionAdded(list, i, old) ==
    old + (CHOOSE n \in DOMAIN list : list[n] = i)

\* Mutant: the loop counts one too few.
PositionBelow(list, i, old) == (CHOOSE n \in DOMAIN list : list[n] = i) - 2

\* The position Reorder writes, counted from 0.
Position(list, i, old) == (CHOOSE n \in DOMAIN list : list[n] = i) - 1

Listed(list, i) == \E n \in DOMAIN list : list[n] = i

-----------------------------------------------------------------------------
(* Categories.                                                             *)

CreateCategoryRead(p) ==
    /\ Start(p, "createCat", [NoRequest EXCEPT !.pc = "catInsert",
                                               !.order = Cardinality(Cats) + 1])
    /\ UNCHANGED <<cats, subs, threads, lost>>

CreateCategory(p) ==
    /\ At(p, "catInsert")
    /\ \E c \in CatIds :
         /\ NextKey(Cats, c)
         /\ cats' = [cats EXCEPT ![c] = req[p].order]
         /\ lost' = lost \ {<<"cat", c>>}
    /\ Finish(p)
    /\ UNCHANGED <<subs, threads>>

EditCategoryRead(p) ==
    /\ \E c \in Cats :
         Start(p, "editCat", [NoRequest EXCEPT !.pc = "catUpdate", !.cat = c,
                                               !.order = cats[c]])
    /\ UNCHANGED <<cats, subs, threads, lost>>

\* UPDATE of every column, display_order as it was read.
UpdateCategory(p) ==
    /\ At(p, "catUpdate")
    /\ cats' = [c \in CatIds |->
                  IF c = req[p].cat /\ c \in Cats THEN req[p].order ELSE cats[c]]
    /\ Finish(p)
    /\ UNCHANGED <<subs, threads, lost>>

\* The id comes from the form and is not looked up: a page may be out of date.
DeleteCategoryRead(p) ==
    /\ \E c \in CatIds :
         Start(p, "deleteCat",
               [NoRequest EXCEPT !.pc = IF SubsOf(c) = {} THEN "catDelete" ELSE "catStats",
                                 !.cat = c, !.list = Listing(SubsOf(c), SubOrder)])
    /\ UNCHANGED <<cats, subs, threads, lost>>

\* The statistics come from the subcategories that still exist.
DeleteCategoryCheck(p) ==
    /\ At(p, "catStats")
    /\ IF \E s \in Subs : Listed(req[p].list, s) /\ threads[s] > 0
       THEN Finish(p)
       ELSE req' = [req EXCEPT ![p].pc = "catDelete", ![p].list = << >>]
    /\ UNCHANGED <<cats, subs, threads, lost>>

\* Mutant: ON DELETE RESTRICT is left out of subcategories.category_id.
DeleteCategoryUnrestricted(p) ==
    /\ At(p, "catDelete")
    /\ cats' = [cats EXCEPT ![req[p].cat] = None]
    /\ Finish(p)
    /\ UNCHANGED <<subs, threads, lost>>

\* ON DELETE RESTRICT: a category that still has subcategories stays.
DeleteCategory(p) ==
    /\ At(p, "catDelete")
    /\ Leaving({"cat"} \X {c \in {req[p].cat} : SubsOf(c) # {}})
    /\ cats' = [cats EXCEPT ![req[p].cat] = None]
    /\ Finish(p)
    /\ UNCHANGED <<subs, threads>>

MoveCategoryRead(p) ==
    /\ At(p, "idle")
    /\ LET list == Listing(Cats, CatOrder) IN
         \E n \in 1 .. Len(list) - 1 :
           Start(p, "moveCat", [NoRequest EXCEPT !.pc = "catReorder",
                                                 !.list = Swapped(list, n)])
    /\ UNCHANGED <<cats, subs, threads, lost>>

ReorderCategories(p) ==
    /\ At(p, "catReorder")
    /\ cats' = [c \in CatIds |->
                  IF c \in Cats /\ Listed(req[p].list, c)
                  THEN Position(req[p].list, c, cats[c]) ELSE cats[c]]
    /\ Finish(p)
    /\ UNCHANGED <<subs, threads, lost>>

-----------------------------------------------------------------------------
(* Subcategories.                                                          *)

CreateSubcategoryRead(p) ==
    /\ \E c \in CatIds :
         Start(p, "createSub", [NoRequest EXCEPT !.pc = "subInsert", !.cat = c,
                                                 !.order = Cardinality(SubsOf(c)) + 1])
    /\ UNCHANGED <<cats, subs, threads, lost>>

CreateSubcategory(p) ==
    /\ At(p, "subInsert")
    /\ req[p].cat \in Cats \/ FALSE \in ForeignKeys
    /\ \E s \in SubIds :
         /\ NextKey(Subs, s)
         /\ subs' = [subs EXCEPT ![s] = [cat |-> req[p].cat, order |-> req[p].order]]
         /\ lost' = (lost \ {<<"sub", s>>}) \cup {"cat"} \X ({req[p].cat} \ Cats)
    /\ Finish(p)
    /\ UNCHANGED <<cats, threads>>

EditSubcategoryRead(p) ==
    /\ \E s \in Subs :
         Start(p, "editSub", [NoRequest EXCEPT !.pc = "subUpdate", !.sub = s,
                                !.cat = subs[s].cat, !.order = subs[s].order])
    /\ UNCHANGED <<cats, subs, threads, lost>>

\* UPDATE of every column, category_id and display_order as they were read.
UpdateSubcategory(p) ==
    /\ At(p, "subUpdate")
    /\ Leaving({"cat"} \X {c \in {req[p].cat} \ Cats : req[p].sub \in Subs})
    /\ subs' = [s \in SubIds |->
                  IF s = req[p].sub /\ s \in Subs
                  THEN [cat |-> req[p].cat, order |-> req[p].order] ELSE subs[s]]
    /\ Finish(p)
    /\ UNCHANGED <<cats, threads>>

\* The check that precedes the DELETE, for whatever id the form holds; the
\* threads are counted through their subcategory's row.
DeleteSubcategoryCheck(p) ==
    /\ \E s \in SubIds :
         /\ s \in Subs => threads[s] = 0
         /\ Start(p, "deleteSub", [NoRequest EXCEPT !.pc = "subDelete", !.sub = s])
    /\ UNCHANGED <<cats, subs, threads, lost>>

\* ON DELETE RESTRICT: a subcategory that has got a thread since stays.
DeleteSubcategory(p) ==
    /\ At(p, "subDelete")
    /\ Leaving({"sub"} \X {s \in {req[p].sub} : threads[s] > 0})
    /\ subs' = [subs EXCEPT ![req[p].sub] = None]
    /\ Finish(p)
    /\ UNCHANGED <<cats, threads>>

MoveSubcategoryRead(p) ==
    /\ At(p, "idle")
    /\ \E c \in CatIds :
         LET list == Listing(SubsOf(c), SubOrder) IN
           \E n \in 1 .. Len(list) - 1 :
             Start(p, "moveSub", [NoRequest EXCEPT !.pc = "subReorder",
                                                   !.list = Swapped(list, n)])
    /\ UNCHANGED <<cats, subs, threads, lost>>

ReorderSubcategories(p) ==
    /\ At(p, "subReorder")
    /\ subs' = [s \in SubIds |->
                  IF s \in Subs /\ Listed(req[p].list, s)
                  THEN [subs[s] EXCEPT !.order = Position(req[p].list, s, @)] ELSE subs[s]]
    /\ Finish(p)
    /\ UNCHANGED <<cats, threads, lost>>

-----------------------------------------------------------------------------
(* Threads, and requests that end early.                                   *)

\* The subcategory is looked up by its slug and its category's.
NewThreadRead(p) ==
    /\ \E s \in Subs :
         /\ subs[s].cat \in Cats
         /\ Start(p, "newThread", [NoRequest EXCEPT !.pc = "threadInsert", !.sub = s])
    /\ UNCHANGED <<cats, subs, threads, lost>>

CreateThread(p) ==
    /\ At(p, "threadInsert")
    /\ threads[req[p].sub] < MaxThreads
    /\ Leaving({"sub"} \X ({req[p].sub} \ Subs))
    /\ threads' = [threads EXCEPT ![req[p].sub] = @ + 1]
    /\ Finish(p)
    /\ UNCHANGED <<cats, subs>>

DeleteThread(p) ==
    /\ At(p, "idle") /\ "deleteThread" \in Kinds
    /\ \E s \in SubIds : threads[s] > 0 /\ threads' = [threads EXCEPT ![s] = @ - 1]
    /\ UNCHANGED <<cats, subs, lost, req>>

\* A statement is refused by a constraint or fails, or the request is cut off:
\* each handler writes with its last statement only, so nothing is half done.
GiveUp(p) ==
    /\ ~At(p, "idle")
    /\ Finish(p)
    /\ UNCHANGED <<cats, subs, threads, lost>>

Init ==
    /\ cats = [c \in CatIds |-> None]
    /\ subs = [s \in SubIds |-> None]
    /\ threads = [s \in SubIds |-> 0]
    /\ lost = {}
    /\ req = [p \in Procs |-> NoRequest]

Category(p) ==
    \/ CreateCategoryRead(p) \/ CreateCategory(p) \/ EditCategoryRead(p) \/ UpdateCategory(p)
    \/ DeleteCategoryRead(p) \/ DeleteCategoryCheck(p) \/ DeleteCategory(p)
    \/ MoveCategoryRead(p) \/ ReorderCategories(p)
Subcategory(p) ==
    \/ CreateSubcategoryRead(p) \/ CreateSubcategory(p)
    \/ EditSubcategoryRead(p) \/ UpdateSubcategory(p)
    \/ DeleteSubcategoryCheck(p) \/ DeleteSubcategory(p)
    \/ MoveSubcategoryRead(p) \/ ReorderSubcategories(p)
Posting(p) == NewThreadRead(p) \/ CreateThread(p) \/ DeleteThread(p)

Next == \E p \in Procs : Category(p) \/ Subcategory(p) \/ Posting(p) \/ GiveUp(p)

Spec == Init /\ [][Next]_vars

-----------------------------------------------------------------------------
(* Properties.                                                             *)

TypeOK ==
    /\ cats \in [CatIds -> Nat \cup {None}]
    /\ subs \in [SubIds -> SubRow \cup {None}]
    /\ threads \in [SubIds -> Nat]
    /\ lost \subseteq {"cat"} \X CatIds \cup {"sub"} \X SubIds
    /\ req \in [Procs -> Request]

\* Foreign keys alone keep rows from being orphaned, and wherever they are
\* enforced they do: a subcategory is without its category, or a thread without
\* its subcategory, only if a statement on a connection without them deleted the
\* row or referred to it although missing, and only until its key is handed out
\* again.  The handlers look in one statement whether a row is still in use and
\* delete it in another, and an edit writes back the category it read.
NothingOrphaned ==
    /\ \A s \in Subs : subs[s].cat \in Cats \/ <<"cat", subs[s].cat>> \in lost
    /\ \A s \in SubIds : threads[s] > 0 => s \in Subs \/ <<"sub", s>> \in lost

\* The order in which a page lists the rows of a list.
ShownInOrder(list, S, order) ==
    \A m, n \in DOMAIN list :
        m < n /\ list[m] \in S /\ list[n] \in S => Before(order, list[m], list[n])

\* A move decides the order of the rows it listed, whatever was created,
\* deleted, edited or moved since, and whatever ties and gaps that left in
\* their display orders: pages then list them as its admin saw them, with
\* the two neighbours exchanged.
MovesDecideTheOrder ==
    [][\A p \in Procs :
         /\ ReorderCategories(p) => ShownInOrder(req[p].list, Cats', CatOrder')
         /\ ReorderSubcategories(p) => ShownInOrder(req[p].list, Subs', SubOrder')]_vars
=============================================================================
