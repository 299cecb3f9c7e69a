---------------------------- MODULE Board_proofs ----------------------------
(***************************************************************************)
(* Proofs about Board, for any goroutines and any bounds on keys.          *)
(***************************************************************************)
EXTENDS Board, FiniteSetTheorems, TLAPS

-----------------------------------------------------------------------------
(* Listings.                                                               *)

\* No row is listed twice.
NoRepeats(list) == \A m, n \in DOMAIN list : list[m] = list[n] => m = n

\* A row shown above another has fewer rows above it.
LEMMA FewerAbove ==
    ASSUME NEW S \in SUBSET Nat, IsFiniteSet(S), NEW order, \A i \in S : order[i] \in Nat,
           NEW i \in S, NEW k \in S, Before(order, i, k)
    PROVE  Cardinality(Above(S, order, i)) < Cardinality(Above(S, order, k))
<1>1. /\ IsFiniteSet(Above(S, order, i)) /\ IsFiniteSet(Above(S, order, k))
      /\ Cardinality(Above(S, order, i)) \in Nat /\ Cardinality(Above(S, order, k)) \in Nat
  BY FS_Subset, FS_CardinalityType DEF Above
<1>2. Above(S, order, i) \subseteq Above(S, order, k)
  <2>1. SUFFICES ASSUME NEW j \in S, Before(order, j, i) PROVE Before(order, j, k)
    BY DEF Above
  <2>2. i \in Nat /\ j \in Nat /\ k \in Nat
    OBVIOUS
  <2>3. order[i] \in Nat /\ order[j] \in Nat /\ order[k] \in Nat
    OBVIOUS
  <2>4. QED BY <2>1, <2>2, <2>3 DEF Before
<1>3. i \in Above(S, order, k) /\ i \notin Above(S, order, i)
  BY DEF Above, Before
<1>4. Above(S, order, i) # Above(S, order, k)
  BY <1>3
<1>5. QED BY <1>1, <1>2, <1>4, FS_Subset

\* Each place of a page is taken by some row.
LEMMA EveryPlaceTaken ==
    ASSUME NEW S \in SUBSET Nat, IsFiniteSet(S), NEW order, \A i \in S : order[i] \in Nat,
           NEW n \in 1 .. Cardinality(S)
    PROVE  \E i \in S : Cardinality(Above(S, order, i)) = n - 1
<1> DEFINE above == [i \in S |-> Cardinality(Above(S, order, i))]
           places == 0 .. (Cardinality(S) - 1)
<1>1. Cardinality(S) \in Nat
  BY FS_CardinalityType
<1>2. above \in [S -> places]
  <2>1. ASSUME NEW i \in S PROVE Cardinality(Above(S, order, i)) \in places
    <3>1. Above(S, order, i) \subseteq S /\ i \notin Above(S, order, i)
      BY DEF Above, Before
    <3>2. Above(S, order, i) # S
      BY <3>1
    <3>3. Cardinality(Above(S, order, i)) \in Nat
      BY <3>1, FS_Subset, FS_CardinalityType
    <3>4. Cardinality(Above(S, order, i)) < Cardinality(S)
      BY <1>1, <3>1, <3>2, <3>3, FS_Subset
    <3>5. QED BY <1>1, <3>3, <3>4
  <2>2. QED BY <2>1
<1>3. \A i, k \in S : above[i] = above[k] => i = k
  <2>1. SUFFICES ASSUME NEW i \in S, NEW k \in S, i # k PROVE above[i] # above[k]
    OBVIOUS
  <2>2. Before(order, i, k) \/ Before(order, k, i)
    BY <2>1 DEF Before
  <2>3. above[i] < above[k] \/ above[k] < above[i]
    BY <2>2, FewerAbove
  <2>4. above[i] \in Nat /\ above[k] \in Nat
    BY <1>2
  <2>5. QED BY <2>3, <2>4
<1>4. above \in Injection(S, places)
  <2>1. IsInjective(above)
    <3>1. DOMAIN above = S
      OBVIOUS
    <3> HIDE DEF above
    <3>2. QED BY <1>3, <3>1 DEF IsInjective
  <2>2. QED
    <3> HIDE DEF above, places
    <3>1. QED BY <1>2, <2>1 DEF Injection
<1>5. IsFiniteSet(places) /\ Cardinality(places) = Cardinality(S)
  <2>1. PICK c \in Nat : c = Cardinality(S)
    BY <1>1
  <2>2. c - 1 \in Int /\ 0 \in Int
    BY <2>1
  <2>3. IsFiniteSet(0 .. (c - 1)) /\ Cardinality(0 .. (c - 1)) = c
    BY <2>1, <2>2, FS_Interval
  <2>4. QED BY <2>1, <2>3
<1>6. above \in Surjection(S, places)
  BY <1>4, <1>5, FS_Injection
<1>7. n - 1 \in places
  BY <1>1
<1>8. PICK i \in S : above[i] = n - 1
  BY <1>6, <1>7 DEF Surjection
<1>9. QED BY <1>8

\* A page lists rows of its table, each of them once.
LEMMA ListingLists ==
    ASSUME NEW S \in SUBSET Nat, IsFiniteSet(S), NEW order, \A i \in S : order[i] \in Nat
    PROVE  Listing(S, order) \in Seq(S) /\ NoRepeats(Listing(S, order))
<1>1. Cardinality(S) \in Nat
  BY FS_CardinalityType
<1>2. PICK list : list = Listing(S, order)
  OBVIOUS
<1>3. ASSUME NEW n \in 1 .. Cardinality(S)
      PROVE  list[n] \in S /\ Cardinality(Above(S, order, list[n])) = n - 1
  <2>1. list[n] = CHOOSE i \in S : Cardinality(Above(S, order, i)) = n - 1
    BY <1>2 DEF Listing
  <2>2. QED BY <2>1, EveryPlaceTaken
<1>4. DOMAIN list = 1 .. Cardinality(S)
  BY <1>2 DEF Listing
<1>5. list = [n \in 1 .. Cardinality(S) |-> list[n]]
  BY <1>2 DEF Listing
<1>6. list \in Seq(S)
  BY <1>1, <1>3, <1>5
<1>7. NoRepeats(list)
  <2>1. SUFFICES ASSUME NEW m \in DOMAIN list, NEW n \in DOMAIN list, list[m] = list[n]
                 PROVE  m = n
    BY DEF NoRepeats
  <2>2. m - 1 = n - 1
    BY <1>3, <1>4, <2>1
  <2>3. QED BY <1>1, <1>4, <2>2
<1>8. QED BY <1>2, <1>6, <1>7

\* Two neighbours that trade places leave a list of the same rows.
LEMMA SwappedLists ==
    ASSUME NEW S, NEW list \in Seq(S), NoRepeats(list), NEW n \in 1 .. Len(list) - 1
    PROVE  Swapped(list, n) \in Seq(S) /\ NoRepeats(Swapped(list, n))
<1>1. Len(list) \in Nat /\ DOMAIN list = 1 .. Len(list)
  OBVIOUS
<1>2. n \in DOMAIN list /\ n + 1 \in DOMAIN list /\ n # n + 1
  BY <1>1
<1>3. PICK s : s = Swapped(list, n)
  OBVIOUS
<1>4. DOMAIN s = DOMAIN list
  BY <1>3 DEF Swapped
<1>5. \A m \in DOMAIN list :
        s[m] = IF m = n + 1 THEN list[n] ELSE IF m = n THEN list[n + 1] ELSE list[m]
  BY <1>2, <1>3 DEF Swapped
<1>6. s \in Seq(S)
  <2>1. s = [m \in 1 .. Len(list) |-> s[m]]
    BY <1>1, <1>3 DEF Swapped
  <2>2. \A m \in 1 .. Len(list) : s[m] \in S
    BY <1>1, <1>2, <1>5
  <2>3. QED BY <1>1, <2>1, <2>2
<1>7. NoRepeats(s)
  BY <1>2, <1>4, <1>5 DEF NoRepeats
<1>8. QED BY <1>3, <1>6, <1>7

\* The position of a listed row is its place, counted from 0.
LEMMA PositionIsPlace ==
    ASSUME NEW S, NEW list \in Seq(S), NEW i, NEW old, Listed(list, i)
    PROVE  /\ Position(list, i, old) \in Nat
           /\ NoRepeats(list) => \A n \in DOMAIN list :
                 list[n] = i => Position(list, i, old) = n - 1
<1>1. Len(list) \in Nat /\ DOMAIN list = 1 .. Len(list)
  OBVIOUS
<1>2. PICK k : k = CHOOSE n \in DOMAIN list : list[n] = i
  OBVIOUS
<1>3. k \in DOMAIN list /\ list[k] = i
  BY <1>2 DEF Listed
<1>4. Position(list, i, old) = k - 1
  BY <1>2 DEF Position
<1>5. QED BY <1>1, <1>3, <1>4 DEF NoRepeats

-----------------------------------------------------------------------------
(* Types.                                                                  *)

\* NULL is no key, no position and no row.
LEMMA NullIsNoRow ==
    None \notin CatIds /\ None \notin SubIds /\ None \notin Nat /\ None \notin SubRow
BY ConstantsOK

\* The locals the label of a request needs are set, and no list repeats a row.
LocalsSet(r) ==
    /\ r.pc \in {"catUpdate", "catStats", "catDelete", "subInsert", "subUpdate"} => r.cat \in CatIds
    /\ r.pc \in {"subUpdate", "subDelete", "threadInsert"} => r.sub \in SubIds
    /\ NoRepeats(r.list)

TypeInv == TypeOK /\ \A p \in Procs : LocalsSet(req[p])

\* A step that moves p to proper locals and keeps the tables typed.
LEMMA AdvanceOne ==
    ASSUME TypeInv, NEW p \in Procs, NEW r, req' = [req EXCEPT ![p] = r],
           r \in Request, LocalsSet(r),
           cats' \in [CatIds -> Nat \cup {None}],
           subs' \in [SubIds -> SubRow \cup {None}],
           threads' \in [SubIds -> Nat],
           lost' \subseteq {"cat"} \X CatIds \cup {"sub"} \X SubIds
    PROVE  TypeInv'
BY DEF TypeInv, TypeOK

LEMMA EmptyList == << >> \in Seq(CatIds \cup SubIds) /\ NoRepeats(<< >>)
BY DEF NoRepeats

LEMMA NoRequestType == NoRequest \in Request /\ LocalsSet(NoRequest)
BY DEF NoRequest, Request, PCs, LocalsSet, NoRepeats

\* Lists of categories and of the subcategories of one.
LEMMA TablesList ==
    ASSUME TypeOK
    PROVE  /\ IsFiniteSet(Cats) /\ Cardinality(Cats) \in Nat
           /\ Listing(Cats, CatOrder) \in Seq(Cats) /\ NoRepeats(Listing(Cats, CatOrder))
           /\ \A c \in CatIds :
                /\ IsFiniteSet(SubsOf(c)) /\ Cardinality(SubsOf(c)) \in Nat
                /\ Listing(SubsOf(c), SubOrder) \in Seq(SubsOf(c))
                /\ NoRepeats(Listing(SubsOf(c), SubOrder))
<1>1. IsFiniteSet(CatIds) /\ IsFiniteSet(SubIds) /\ CatIds \subseteq Nat /\ SubIds \subseteq Nat
  BY ConstantsOK, FS_Interval DEF CatIds, SubIds
<1>2. Cats \subseteq CatIds /\ \A c \in CatIds : SubsOf(c) \subseteq SubIds
  BY DEF Cats, Subs, SubsOf
<1>3. \A c \in Cats : CatOrder[c] \in Nat
  BY DEF CatOrder, Cats, TypeOK
<1>4. \A s \in Subs : SubOrder[s] \in Nat
  BY DEF SubOrder, Subs, TypeOK, SubRow
<1>5. IsFiniteSet(Cats) /\ Cats \in SUBSET Nat
  BY <1>1, <1>2, FS_Subset
<1>6. ASSUME NEW c \in CatIds
      PROVE  /\ IsFiniteSet(SubsOf(c)) /\ SubsOf(c) \in SUBSET Nat
             /\ \A s \in SubsOf(c) : SubOrder[s] \in Nat
  BY <1>1, <1>2, <1>4, FS_Subset DEF SubsOf
<1>7. QED BY <1>3, <1>5, <1>6, ListingLists, FS_CardinalityType

\* Requests that only start: the read that precedes each write.
LEMMA TypeStart ==
    ASSUME TypeInv, NEW p \in Procs,
           \/ CreateCategoryRead(p) \/ EditCategoryRead(p) \/ DeleteCategoryRead(p)
           \/ MoveCategoryRead(p) \/ CreateSubcategoryRead(p) \/ EditSubcategoryRead(p)
           \/ DeleteSubcategoryCheck(p) \/ MoveSubcategoryRead(p) \/ NewThreadRead(p)
    PROVE  TypeInv'
<1> USE NullIsNoRow, EmptyList
<1>1. PICK r : /\ req' = [req EXCEPT ![p] = r]
               /\ r \in Request /\ LocalsSet(r)
  <2>1. CASE CreateCategoryRead(p)
    <3>1. PICK last \in Nat : last = Cardinality(Cats) + 1
      BY TablesList DEF TypeInv
    <3>2. PICK r : r = [NoRequest EXCEPT !.pc = "catInsert", !.order = last]
      OBVIOUS
    <3>3. r \in Request /\ LocalsSet(r)
      BY <3>2 DEF NoRequest, Request, PCs, LocalsSet
    <3>4. QED BY <2>1, <3>1, <3>2, <3>3 DEF CreateCategoryRead, Start
  <2>2. CASE EditCategoryRead(p)
    <3>1. PICK c \in Cats :
            req' = [req EXCEPT ![p] = [NoRequest EXCEPT !.pc = "catUpdate", !.cat = c,
                                                        !.order = cats[c]]]
      BY <2>2 DEF EditCategoryRead, Start
    <3>2. PICK r : r = [NoRequest EXCEPT !.pc = "catUpdate", !.cat = c, !.order = cats[c]]
      OBVIOUS
    <3>3. c \in CatIds /\ cats[c] \in Nat
      BY DEF Cats, TypeInv, TypeOK
    <3>4. r \in Request /\ LocalsSet(r)
      BY <3>2, <3>3 DEF NoRequest, Request, PCs, LocalsSet
    <3>5. QED BY <3>1, <3>2, <3>4
  <2>3. CASE DeleteCategoryRead(p)
    <3>1. PICK c \in CatIds :
            req' = [req EXCEPT ![p] =
               [NoRequest EXCEPT !.pc = IF SubsOf(c) = {} THEN "catDelete" ELSE "catStats",
                                 !.cat = c, !.list = Listing(SubsOf(c), SubOrder)]]
      BY <2>3 DEF DeleteCategoryRead, Start
    <3>2. PICK list : list = Listing(SubsOf(c), SubOrder)
      OBVIOUS
    <3>3. PICK r : r = [NoRequest EXCEPT !.pc = IF SubsOf(c) = {} THEN "catDelete" ELSE "catStats",
                                 !.cat = c, !.list = list]
      OBVIOUS
    <3>4. SubsOf(c) \subseteq CatIds \cup SubIds
      BY DEF SubsOf, Subs
    <3>5. list \in Seq(CatIds \cup SubIds) /\ NoRepeats(list)
      BY <3>2, <3>4, TablesList DEF TypeInv
    <3>6. r \in Request /\ LocalsSet(r)
      BY <3>3, <3>4, <3>5 DEF NoRequest, Request, PCs, LocalsSet
    <3>7. QED BY <3>1, <3>2, <3>3, <3>6
  <2>4. CASE MoveCategoryRead(p)
    <3>1. PICK list : list = Listing(Cats, CatOrder)
      OBVIOUS
    <3>2. PICK n \in 1 .. Len(list) - 1 :
            req' = [req EXCEPT ![p] = [NoRequest EXCEPT !.pc = "catReorder",
                                                        !.list = Swapped(list, n)]]
      BY <2>4, <3>1 DEF MoveCategoryRead, Start
    <3>3. PICK swapped : swapped = Swapped(list, n)
      OBVIOUS
    <3>4. list \in Seq(CatIds \cup SubIds) /\ NoRepeats(list)
      BY <3>1, TablesList DEF TypeInv, Cats
    <3>5. swapped \in Seq(CatIds \cup SubIds) /\ NoRepeats(swapped)
      BY <3>3, <3>4, SwappedLists
    <3>6. PICK r : r = [NoRequest EXCEPT !.pc = "catReorder", !.list = swapped]
      OBVIOUS
    <3>7. r \in Request /\ LocalsSet(r)
      BY <3>5, <3>6 DEF NoRequest, Request, PCs, LocalsSet
    <3>8. QED BY <3>2, <3>3, <3>6, <3>7
  <2>5. CASE CreateSubcategoryRead(p)
    <3>1. PICK c \in CatIds :
            req' = [req EXCEPT ![p] = [NoRequest EXCEPT !.pc = "subInsert", !.cat = c,
                                         !.order = Cardinality(SubsOf(c)) + 1]]
      BY <2>5 DEF CreateSubcategoryRead, Start
    <3>2. PICK last \in Nat : last = Cardinality(SubsOf(c)) + 1
      BY TablesList DEF TypeInv
    <3>3. PICK r : r = [NoRequest EXCEPT !.pc = "subInsert", !.cat = c, !.order = last]
      OBVIOUS
    <3>4. r \in Request /\ LocalsSet(r)
      BY <3>3 DEF NoRequest, Request, PCs, LocalsSet
    <3>5. QED BY <3>1, <3>2, <3>3, <3>4
  <2>6. CASE EditSubcategoryRead(p)
    <3>1. PICK s \in Subs :
            req' = [req EXCEPT ![p] = [NoRequest EXCEPT !.pc = "subUpdate", !.sub = s,
                                         !.cat = subs[s].cat, !.order = subs[s].order]]
      BY <2>6 DEF EditSubcategoryRead, Start
    <3>2. PICK r : r = [NoRequest EXCEPT !.pc = "subUpdate", !.sub = s,
                                         !.cat = subs[s].cat, !.order = subs[s].order]
      OBVIOUS
    <3>3. s \in SubIds /\ subs[s].cat \in CatIds /\ subs[s].order \in Nat
      BY DEF Subs, TypeInv, TypeOK, SubRow
    <3>4. r \in Request /\ LocalsSet(r)
      BY <3>2, <3>3 DEF NoRequest, Request, PCs, LocalsSet
    <3>5. QED BY <3>1, <3>2, <3>4
  <2>7. CASE DeleteSubcategoryCheck(p)
    <3>1. PICK s \in SubIds : req' = [req EXCEPT ![p] =
                                          [NoRequest EXCEPT !.pc = "subDelete", !.sub = s]]
      BY <2>7 DEF DeleteSubcategoryCheck, Start
    <3>2. PICK r : r = [NoRequest EXCEPT !.pc = "subDelete", !.sub = s]
      OBVIOUS
    <3>3. r \in Request /\ LocalsSet(r)
      BY <3>2 DEF NoRequest, Request, PCs, LocalsSet
    <3>4. QED BY <3>1, <3>2, <3>3
  <2>8. CASE MoveSubcategoryRead(p)
    <3>1. PICK c \in CatIds :
            \E n \in 1 .. Len(Listing(SubsOf(c), SubOrder)) - 1 :
              req' = [req EXCEPT ![p] = [NoRequest EXCEPT !.pc = "subReorder",
                                           !.list = Swapped(Listing(SubsOf(c), SubOrder), n)]]
      BY <2>8 DEF MoveSubcategoryRead, Start
    <3>2. PICK list : list = Listing(SubsOf(c), SubOrder)
      OBVIOUS
    <3>3. PICK n \in 1 .. Len(list) - 1 :
            req' = [req EXCEPT ![p] = [NoRequest EXCEPT !.pc = "subReorder",
                                                        !.list = Swapped(list, n)]]
      BY <3>1, <3>2
    <3>4. PICK swapped : swapped = Swapped(list, n)
      OBVIOUS
    <3>5. SubsOf(c) \subseteq CatIds \cup SubIds
      BY DEF SubsOf, Subs
    <3>6. list \in Seq(CatIds \cup SubIds) /\ NoRepeats(list)
      BY <3>2, <3>5, TablesList DEF TypeInv
    <3>7. swapped \in Seq(CatIds \cup SubIds) /\ NoRepeats(swapped)
      BY <3>4, <3>6, SwappedLists
    <3>8. PICK r : r = [NoRequest EXCEPT !.pc = "subReorder", !.list = swapped]
      OBVIOUS
    <3>9. r \in Request /\ LocalsSet(r)
      BY <3>5, <3>7, <3>8 DEF NoRequest, Request, PCs, LocalsSet
    <3>10. QED BY <3>3, <3>4, <3>8, <3>9
  <2>9. CASE NewThreadRead(p)
    <3>1. PICK s \in Subs : req' = [req EXCEPT ![p] =
                                        [NoRequest EXCEPT !.pc = "threadInsert", !.sub = s]]
      BY <2>9 DEF NewThreadRead, Start
    <3>2. PICK r : r = [NoRequest EXCEPT !.pc = "threadInsert", !.sub = s]
      OBVIOUS
    <3>3. r \in Request /\ LocalsSet(r)
      BY <3>2 DEF Subs, NoRequest, Request, PCs, LocalsSet
    <3>4. QED BY <3>1, <3>2, <3>3
  <2>10. QED BY <2>1, <2>2, <2>3, <2>4, <2>5, <2>6, <2>7, <2>8, <2>9
<1>2. UNCHANGED <<cats, subs, threads, lost>>
  BY DEF CreateCategoryRead, EditCategoryRead, DeleteCategoryRead, MoveCategoryRead,
         CreateSubcategoryRead, EditSubcategoryRead, DeleteSubcategoryCheck,
         MoveSubcategoryRead, NewThreadRead
<1>3. QED BY <1>1, <1>2, AdvanceOne DEF TypeInv, TypeOK

\* The statements that write, the check of a category's threads, and requests
\* that end early.
LEMMA TypeWrite ==
    ASSUME TypeInv, NEW p \in Procs,
           \/ CreateCategory(p) \/ UpdateCategory(p) \/ DeleteCategory(p) \/ ReorderCategories(p)
           \/ CreateSubcategory(p) \/ UpdateSubcategory(p) \/ DeleteSubcategory(p)
           \/ ReorderSubcategories(p) \/ CreateThread(p) \/ GiveUp(p)
    PROVE  TypeInv'
<1> USE NullIsNoRow
<1>1. /\ req[p] \in Request /\ LocalsSet(req[p])
      /\ req[p].order \in Nat /\ req[p].list \in Seq(CatIds \cup SubIds)
      /\ cats \in [CatIds -> Nat \cup {None}]
      /\ subs \in [SubIds -> SubRow \cup {None}]
      /\ threads \in [SubIds -> Nat]
  BY DEF TypeInv, TypeOK, Request
<1>2. req' = [req EXCEPT ![p] = NoRequest]
  BY DEF CreateCategory, UpdateCategory, DeleteCategory, ReorderCategories, CreateSubcategory,
         UpdateSubcategory, DeleteSubcategory, ReorderSubcategories, CreateThread, GiveUp, Finish
<1>3. cats' \in [CatIds -> Nat \cup {None}]
  <2>1. CASE CreateCategory(p)
    BY <1>1, <2>1 DEF CreateCategory
  <2>2. CASE UpdateCategory(p)
    BY <1>1, <2>2 DEF UpdateCategory
  <2>3. CASE DeleteCategory(p)
    BY <1>1, <2>3 DEF DeleteCategory
  <2>4. CASE ReorderCategories(p)
    BY <1>1, <2>4, PositionIsPlace DEF ReorderCategories
  <2>5. CASE UNCHANGED cats
    BY <1>1, <2>5
  <2>6. QED BY <2>1, <2>2, <2>3, <2>4, <2>5
            DEF CreateSubcategory, UpdateSubcategory, DeleteSubcategory,
                ReorderSubcategories, CreateThread, GiveUp
<1>4. subs' \in [SubIds -> SubRow \cup {None}]
  <2>1. CASE CreateSubcategory(p)
    <3>1. req[p].cat \in CatIds
      BY <1>1, <2>1 DEF CreateSubcategory, At, LocalsSet
    <3>2. [cat |-> req[p].cat, order |-> req[p].order] \in SubRow
      BY <1>1, <3>1 DEF SubRow
    <3>3. QED BY <1>1, <2>1, <3>2 DEF CreateSubcategory
  <2>2. CASE UpdateSubcategory(p)
    <3>1. req[p].cat \in CatIds
      BY <1>1, <2>2 DEF UpdateSubcategory, At, LocalsSet
    <3>2. [cat |-> req[p].cat, order |-> req[p].order] \in SubRow
      BY <1>1, <3>1 DEF SubRow
    <3>3. QED BY <1>1, <2>2, <3>2 DEF UpdateSubcategory
  <2>3. CASE DeleteSubcategory(p)
    BY <1>1, <2>3 DEF DeleteSubcategory
  <2>4. CASE ReorderSubcategories(p)
    <3>1. ASSUME NEW s \in Subs, Listed(req[p].list, s)
          PROVE  [subs[s] EXCEPT !.order = Position(req[p].list, s, @)] \in SubRow
      <4>1. subs[s] \in SubRow
        BY <1>1 DEF Subs
      <4>2. Position(req[p].list, s, subs[s].order) \in Nat
        BY <1>1, <3>1, PositionIsPlace
      <4>3. QED BY <4>1, <4>2 DEF SubRow
    <3>2. QED BY <1>1, <2>4, <3>1 DEF ReorderSubcategories
  <2>5. CASE UNCHANGED subs
    BY <1>1, <2>5
  <2>6. QED BY <2>1, <2>2, <2>3, <2>4, <2>5
            DEF CreateCategory, UpdateCategory, DeleteCategory, ReorderCategories,
                CreateThread, GiveUp
<1>5. threads' \in [SubIds -> Nat]
  <2>1. CASE CreateThread(p)
    <3>1. req[p].sub \in SubIds
      BY <1>1, <2>1 DEF CreateThread, At, LocalsSet
    <3>2. QED BY <1>1, <2>1, <3>1 DEF CreateThread
  <2>2. CASE UNCHANGED threads
    BY <1>1, <2>2
  <2>3. QED BY <2>1, <2>2
            DEF CreateCategory, UpdateCategory, DeleteCategory, ReorderCategories,
                CreateSubcategory, UpdateSubcategory, DeleteSubcategory,
                ReorderSubcategories, GiveUp
<1>6. lost' \subseteq {"cat"} \X CatIds \cup {"sub"} \X SubIds
  <2>1. lost \subseteq {"cat"} \X CatIds \cup {"sub"} \X SubIds
    BY DEF TypeInv, TypeOK
  <2>2. CASE CreateCategory(p)
    BY <2>1, <2>2 DEF CreateCategory
  <2>3. CASE DeleteCategory(p)
    BY <1>1, <2>1, <2>3 DEF DeleteCategory, At, LocalsSet, Leaving
  <2>4. CASE CreateSubcategory(p)
    BY <1>1, <2>1, <2>4 DEF CreateSubcategory, At, LocalsSet
  <2>5. CASE UpdateSubcategory(p)
    BY <1>1, <2>1, <2>5 DEF UpdateSubcategory, At, LocalsSet, Leaving
  <2>6. CASE DeleteSubcategory(p)
    BY <1>1, <2>1, <2>6 DEF DeleteSubcategory, At, LocalsSet, Leaving
  <2>7. CASE CreateThread(p)
    BY <1>1, <2>1, <2>7 DEF CreateThread, At, LocalsSet, Leaving
  <2>8. CASE UNCHANGED lost
    BY <2>1, <2>8
  <2>9. QED BY <2>2, <2>3, <2>4, <2>5, <2>6, <2>7, <2>8
            DEF UpdateCategory, ReorderCategories, ReorderSubcategories, GiveUp
<1>7. QED BY <1>2, <1>3, <1>4, <1>5, <1>6, NoRequestType, AdvanceOne

\* Threads that are deleted, and the check that precedes a category's DELETE.
LEMMA TypeRest ==
    ASSUME TypeInv, NEW p \in Procs, DeleteThread(p) \/ DeleteCategoryCheck(p)
    PROVE  TypeInv'
<1>1. CASE DeleteThread(p)
  <2>1. PICK s \in SubIds : threads[s] > 0 /\ threads' = [threads EXCEPT ![s] = @ - 1]
    BY <1>1 DEF DeleteThread
  <2>2. threads' \in [SubIds -> Nat]
    BY <2>1 DEF TypeInv, TypeOK
  <2>3. UNCHANGED <<cats, subs, lost, req>>
    BY <1>1 DEF DeleteThread
  <2>4. QED BY <2>2, <2>3 DEF TypeInv, TypeOK
<1>2. CASE DeleteCategoryCheck(p)
  <2>1. UNCHANGED <<cats, subs, threads, lost>>
    BY <1>2 DEF DeleteCategoryCheck
  <2>2. CASE Finish(p)
    BY <2>1, <2>2, NoRequestType, AdvanceOne DEF Finish, TypeInv, TypeOK
  <2>3. CASE req' = [req EXCEPT ![p].pc = "catDelete", ![p].list = << >>]
    <3>1. PICK r : r = [req[p] EXCEPT !.pc = "catDelete", !.list = << >>]
      OBVIOUS
    <3>2. req[p] \in Request /\ req[p].cat \in CatIds
      BY <1>2 DEF TypeInv, TypeOK, DeleteCategoryCheck, At, LocalsSet
    <3>3. r \in Request /\ LocalsSet(r)
      BY <3>1, <3>2, EmptyList DEF Request, PCs, LocalsSet
    <3>4. req' = [req EXCEPT ![p] = r]
      BY <2>3, <3>1 DEF TypeInv, TypeOK
    <3>5. QED BY <2>1, <3>3, <3>4, AdvanceOne DEF TypeInv, TypeOK
  <2>4. QED BY <1>2, <2>2, <2>3 DEF DeleteCategoryCheck
<1>3. QED BY <1>1, <1>2

LEMMA TypeStep == TypeInv /\ [Next]_vars => TypeInv'
<1>1. CASE UNCHANGED vars
  BY <1>1 DEF vars, TypeInv, TypeOK
<1>2. ASSUME TypeInv, NEW p \in Procs, Category(p) \/ Subcategory(p) \/ Posting(p) \/ GiveUp(p)
      PROVE  TypeInv'
  BY <1>2, TypeStart, TypeWrite, TypeRest DEF Category, Subcategory, Posting
<1>3. QED BY <1>1, <1>2 DEF Next

\* The locals of every request in flight are what its next statement needs.
LEMMA TypeInvHolds == Spec => []TypeInv
<1>1. Init => TypeInv
  BY NoRequestType, NullIsNoRow DEF Init, TypeInv, TypeOK
<1>2. QED BY <1>1, TypeStep, PTL DEF Spec

\* The tables and the locals of every request keep their shape.
THEOREM TypeCorrect == Spec => []TypeOK
<1>1. TypeInv => TypeOK
  BY DEF TypeInv
<1>2. QED BY <1>1, TypeInvHolds, PTL

-----------------------------------------------------------------------------
(* References.                                                             *)

\* No statement orphans a row and leaves no trace of it: the checks of the
\* handlers are not needed for it, and their locals promise nothing.
LEMMA StepOrphansNothing ==
    ASSUME TypeInv, NothingOrphaned, [Next]_vars
    PROVE  NothingOrphaned'
<1> USE NullIsNoRow
<1>1. /\ cats \in [CatIds -> Nat \cup {None}]
      /\ subs \in [SubIds -> SubRow \cup {None}]
      /\ threads \in [SubIds -> Nat]
      /\ \A p \in Procs : req[p] \in Request /\ LocalsSet(req[p])
  BY DEF TypeInv, TypeOK
<1>2. CASE UNCHANGED <<cats, subs, threads, lost>>
  BY <1>2 DEF NothingOrphaned, Cats, Subs
<1>3. ASSUME NEW p \in Procs,
             CreateCategory(p) \/ UpdateCategory(p) \/ ReorderCategories(p)
      PROVE  NothingOrphaned'
  <2>1. UNCHANGED <<subs, threads>>
    BY <1>3 DEF CreateCategory, UpdateCategory, ReorderCategories
  <2>2. Cats \subseteq Cats'
    <3>1. req[p].order \in Nat /\ req[p].list \in Seq(CatIds \cup SubIds)
      BY <1>1 DEF Request
    <3>2. \A c \in CatIds : Listed(req[p].list, c) => Position(req[p].list, c, cats[c]) \in Nat
      BY <3>1, PositionIsPlace
    <3>3. CASE CreateCategory(p)
      BY <1>1, <3>1, <3>3 DEF CreateCategory, Cats
    <3>4. CASE UpdateCategory(p)
      BY <1>1, <3>1, <3>4 DEF UpdateCategory, Cats
    <3>5. CASE ReorderCategories(p)
      BY <1>1, <3>2, <3>5 DEF ReorderCategories, Cats
    <3>6. QED BY <1>3, <3>3, <3>4, <3>5
  <2>3. \A l \in lost : l \in lost' \/ \E c \in Cats' : l = <<"cat", c>>
    <3>1. CASE CreateCategory(p)
      <4>1. req[p].order \in Nat
        BY <1>1 DEF Request
      <4>2. PICK c \in CatIds : /\ cats' = [cats EXCEPT ![c] = req[p].order]
                                /\ lost' = lost \ {<<"cat", c>>}
        BY <3>1 DEF CreateCategory
      <4>3. c \in Cats'
        BY <1>1, <4>1, <4>2 DEF Cats
      <4>4. QED BY <4>2, <4>3
    <3>2. CASE UNCHANGED lost
      BY <3>2
    <3>3. QED BY <1>3, <3>1, <3>2 DEF UpdateCategory, ReorderCategories
  <2>4. QED BY <2>1, <2>2, <2>3 DEF NothingOrphaned, Subs
<1>4. ASSUME NEW p \in Procs, DeleteCategory(p)
      PROVE  NothingOrphaned'
  <2>1. PICK c : c = req[p].cat
    OBVIOUS
  <2>2. /\ cats' = [cats EXCEPT ![c] = None]
        /\ lost' = lost \cup {"cat"} \X {d \in {c} : SubsOf(d) # {}}
        /\ UNCHANGED <<subs, threads>>
    BY <1>4, <2>1 DEF DeleteCategory, Leaving
  <2>3. \A d \in Cats : d # c => d \in Cats'
    BY <1>1, <2>2 DEF Cats
  <2>4. ASSUME NEW s \in Subs, subs[s].cat = c
        PROVE  <<"cat", c>> \in lost'
    BY <2>2, <2>4 DEF SubsOf
  <2>5. lost \subseteq lost'
    BY <2>2
  <2>6. QED BY <2>2, <2>3, <2>4, <2>5 DEF NothingOrphaned, Subs
<1>5. ASSUME NEW p \in Procs,
             CreateSubcategory(p) \/ UpdateSubcategory(p) \/ ReorderSubcategories(p)
      PROVE  NothingOrphaned'
  <2>1. UNCHANGED <<cats, threads>>
    BY <1>5 DEF CreateSubcategory, UpdateSubcategory, ReorderSubcategories
  <2>2. req[p].order \in Nat /\ req[p].list \in Seq(CatIds \cup SubIds)
    BY <1>1 DEF Request
  <2>3. PICK cat : cat = req[p].cat
    OBVIOUS
  <2>4. CASE CreateSubcategory(p)
    <3>1. cat \in CatIds
      BY <1>1, <2>3, <2>4 DEF CreateSubcategory, At, LocalsSet
    <3>2. PICK s \in SubIds :
            /\ subs' = [subs EXCEPT ![s] = [cat |-> cat, order |-> req[p].order]]
            /\ lost' = (lost \ {<<"sub", s>>}) \cup {"cat"} \X ({cat} \ Cats)
      BY <2>3, <2>4 DEF CreateSubcategory
    <3>3. [cat |-> cat, order |-> req[p].order] \in SubRow
      BY <2>2, <3>1 DEF SubRow
    <3>4. subs'[s].cat = cat /\ s \in Subs' /\ (cat \in Cats \/ <<"cat", cat>> \in lost')
      BY <1>1, <3>2, <3>3 DEF Subs
    <3>5. \A t \in SubIds : t # s => subs'[t] = subs[t]
      BY <1>1, <3>2
    <3>6. \A d : <<"cat", d>> \in lost => <<"cat", d>> \in lost'
      BY <3>2
    <3>7. \A t : t # s /\ <<"sub", t>> \in lost => <<"sub", t>> \in lost'
      BY <3>2
    <3>8. Cats' = Cats /\ threads' = threads
      BY <2>1 DEF Cats
    <3>9. \A t \in Subs' : subs'[t].cat \in Cats' \/ <<"cat", subs'[t].cat>> \in lost'
      BY <3>4, <3>5, <3>6, <3>8 DEF NothingOrphaned, Subs
    <3>10. \A t \in SubIds : threads'[t] > 0 => t \in Subs' \/ <<"sub", t>> \in lost'
      BY <3>4, <3>5, <3>7, <3>8 DEF NothingOrphaned, Subs
    <3>11. QED BY <3>9, <3>10 DEF NothingOrphaned
  <2>5. CASE UpdateSubcategory(p)
    <3>1. lost' = lost \cup {"cat"} \X {c \in {cat} \ Cats : req[p].sub \in Subs}
      BY <2>3, <2>5 DEF UpdateSubcategory, Leaving
    <3>2. cat \in CatIds
      BY <1>1, <2>3, <2>5 DEF UpdateSubcategory, At, LocalsSet
    <3>3. [cat |-> cat, order |-> req[p].order] \in SubRow
      BY <2>2, <3>2 DEF SubRow
    <3>4. \A s \in SubIds :
            subs'[s] = IF s = req[p].sub /\ s \in Subs
                       THEN [cat |-> cat, order |-> req[p].order] ELSE subs[s]
      BY <2>3, <2>5 DEF UpdateSubcategory
    <3>5. Subs' = Subs /\ Cats' = Cats /\ lost \subseteq lost'
      BY <2>1, <3>1, <3>3, <3>4 DEF Subs, Cats
    <3>6. ASSUME NEW s \in Subs
          PROVE  subs'[s].cat \in Cats \/ <<"cat", subs'[s].cat>> \in lost'
      <4>1. s \in SubIds
        BY DEF Subs
      <4>2. CASE s = req[p].sub
        <5>1. subs'[s].cat = cat
          BY <3>4, <4>1, <4>2
        <5>2. cat \in Cats \/ <<"cat", cat>> \in lost'
          BY <3>1, <4>2
        <5>3. QED BY <5>1, <5>2
      <4>3. CASE s # req[p].sub
        BY <3>4, <3>5, <4>1, <4>3 DEF NothingOrphaned
      <4>4. QED BY <4>2, <4>3
    <3>7. QED BY <2>1, <3>5, <3>6 DEF NothingOrphaned
  <2>6. CASE ReorderSubcategories(p)
    <3>1. ASSUME NEW s \in Subs
          PROVE  subs'[s] \in SubRow /\ subs'[s].cat = subs[s].cat
      <4>1. subs[s] \in SubRow
        BY <1>1 DEF Subs
      <4>2. Listed(req[p].list, s) => Position(req[p].list, s, subs[s].order) \in Nat
        BY <2>2, PositionIsPlace
      <4>3. subs'[s] = IF Listed(req[p].list, s)
                       THEN [subs[s] EXCEPT !.order = Position(req[p].list, s, @)] ELSE subs[s]
        BY <2>6 DEF ReorderSubcategories, Subs
      <4>4. QED BY <4>1, <4>2, <4>3 DEF SubRow
    <3>2. \A s \in SubIds : s \notin Subs => subs'[s] = None
      BY <2>6 DEF ReorderSubcategories, Subs
    <3>3. lost' = lost
      BY <2>6 DEF ReorderSubcategories
    <3>4. QED BY <2>1, <3>1, <3>2, <3>3 DEF NothingOrphaned, Cats, Subs
  <2>7. QED BY <1>5, <2>4, <2>5, <2>6
<1>6. ASSUME NEW p \in Procs, DeleteSubcategory(p)
      PROVE  NothingOrphaned'
  <2>1. PICK sub : sub = req[p].sub
    OBVIOUS
  <2>2. /\ subs' = [subs EXCEPT ![sub] = None]
        /\ lost' = lost \cup {"sub"} \X {s \in {sub} : threads[s] > 0}
        /\ UNCHANGED <<cats, threads>>
    BY <1>6, <2>1 DEF DeleteSubcategory, Leaving
  <2>3. Subs' = Subs \ {sub} /\ Cats' = Cats /\ lost \subseteq lost'
    BY <1>1, <2>2 DEF Subs, Cats
  <2>4. \A s \in Subs' : subs'[s] = subs[s]
    BY <1>1, <2>2, <2>3 DEF Subs
  <2>5. threads[sub] > 0 => <<"sub", sub>> \in lost'
    BY <2>2
  <2>6. QED BY <2>2, <2>3, <2>4, <2>5 DEF NothingOrphaned
<1>7. ASSUME NEW p \in Procs, CreateThread(p)
      PROVE  NothingOrphaned'
  <2>1. PICK sub : sub = req[p].sub
    OBVIOUS
  <2>2. /\ threads' = [threads EXCEPT ![sub] = @ + 1]
        /\ lost' = lost \cup {"sub"} \X ({sub} \ Subs)
        /\ UNCHANGED <<cats, subs>>
    BY <1>7, <2>1 DEF CreateThread, Leaving
  <2>3. Subs' = Subs /\ Cats' = Cats /\ lost \subseteq lost'
    BY <2>2 DEF Subs, Cats
  <2>4. sub \in Subs \/ <<"sub", sub>> \in lost'
    BY <2>2
  <2>5. \A s \in SubIds : s # sub => threads'[s] = threads[s]
    BY <1>1, <2>2
  <2>6. QED BY <2>2, <2>3, <2>4, <2>5 DEF NothingOrphaned
<1>8. ASSUME NEW p \in Procs, DeleteThread(p)
      PROVE  NothingOrphaned'
  <2>1. PICK s \in SubIds : threads[s] > 0 /\ threads' = [threads EXCEPT ![s] = @ - 1]
    BY <1>8 DEF DeleteThread
  <2>2. UNCHANGED <<cats, subs, lost>>
    BY <1>8 DEF DeleteThread
  <2>3. QED BY <1>1, <2>1, <2>2 DEF NothingOrphaned, Cats, Subs
<1>9. ASSUME NEW p \in Procs, Category(p) \/ Subcategory(p) \/ Posting(p) \/ GiveUp(p)
      PROVE  NothingOrphaned'
  BY <1>2, <1>3, <1>4, <1>5, <1>6, <1>7, <1>8, <1>9
     DEF Category, Subcategory, Posting, GiveUp, CreateCategoryRead, EditCategoryRead,
         DeleteCategoryRead, DeleteCategoryCheck, MoveCategoryRead, CreateSubcategoryRead,
         EditSubcategoryRead, DeleteSubcategoryCheck, MoveSubcategoryRead, NewThreadRead
<1>10. QED BY <1>2, <1>9 DEF Next, vars

\* Each subcategory's category exists and each subcategory that holds threads
\* exists, unless a statement on a connection without foreign keys made it
\* otherwise, however deletions, stale edits and inserts overlap and whichever
\* connections enforce foreign keys.
THEOREM NothingIsOrphaned == Spec => []NothingOrphaned
<1>1. Init => NothingOrphaned
  BY NullIsNoRow DEF Init, NothingOrphaned, Cats, Subs
<1>2. TypeInv /\ NothingOrphaned /\ [Next]_vars => NothingOrphaned'
  BY StepOrphansNothing
<1>3. QED BY <1>1, <1>2, TypeInvHolds, PTL DEF Spec

-----------------------------------------------------------------------------
(* The order a move writes.                                                *)

\* Two listed rows that get their places as positions are shown in the order
\* of the list.
LEMMA PlacesDecide ==
    ASSUME NEW list \in Seq(CatIds \cup SubIds), NoRepeats(list), NEW S, NEW order,
           NEW old, S \subseteq Nat,
           \A i \in S : Listed(list, i) => order[i] = Position(list, i, old[i])
    PROVE  ShownInOrder(list, S, order)
<1>1. Len(list) \in Nat /\ DOMAIN list = 1 .. Len(list)
  OBVIOUS
<1>2. ASSUME NEW n \in DOMAIN list, list[n] \in S
      PROVE  order[list[n]] = n - 1
  <2>1. Listed(list, list[n])
    BY DEF Listed
  <2>2. Position(list, list[n], old[list[n]]) = n - 1
    BY <2>1, PositionIsPlace
  <2>3. QED BY <1>2, <2>1, <2>2
<1>3. QED BY <1>1, <1>2 DEF ShownInOrder, Before

\* A move decides the order of the rows it listed and that still exist,
\* whatever happened to them since it listed them: what it writes depends on
\* its list alone, and no list repeats a row.
THEOREM MovesDecide == Spec => MovesDecideTheOrder
<1>1. ASSUME TypeInv, NEW p \in Procs, ReorderCategories(p)
      PROVE  ShownInOrder(req[p].list, Cats', CatOrder')
  <2>1. PICK list : list = req[p].list
    OBVIOUS
  <2>2. list \in Seq(CatIds \cup SubIds) /\ NoRepeats(list)
    BY <1>1, <2>1 DEF TypeInv, TypeOK, Request, LocalsSet
  <2>3. \A c \in CatIds : cats'[c] = IF c \in Cats /\ Listed(list, c)
                                     THEN Position(list, c, cats[c]) ELSE cats[c]
    BY <1>1, <2>1 DEF ReorderCategories
  <2>4. Cats' \subseteq CatIds /\ \A c \in Cats' : c \in Cats /\ CatOrder'[c] = cats'[c]
    BY <2>3 DEF Cats, CatOrder
  <2>5. \A c \in Cats' : Listed(list, c) => CatOrder'[c] = Position(list, c, cats[c])
    BY <2>3, <2>4
  <2>6. Cats' \subseteq Nat
    BY <2>4 DEF CatIds
  <2>7. ShownInOrder(list, Cats', CatOrder')
    BY <2>2, <2>5, <2>6, PlacesDecide
  <2>8. QED BY <2>1, <2>7
<1>2. ASSUME TypeInv, NEW p \in Procs, ReorderSubcategories(p)
      PROVE  ShownInOrder(req[p].list, Subs', SubOrder')
  <2>1. PICK list : list = req[p].list
    OBVIOUS
  <2>2. list \in Seq(CatIds \cup SubIds) /\ NoRepeats(list)
    BY <1>2, <2>1 DEF TypeInv, TypeOK, Request, LocalsSet
  <2>3. PICK old : old = [s \in SubIds |-> subs[s].order]
    OBVIOUS
  <2>4. \A s \in SubIds : subs'[s] = IF s \in Subs /\ Listed(list, s)
                                     THEN [subs[s] EXCEPT !.order = Position(list, s, @)]
                                     ELSE subs[s]
    BY <1>2, <2>1 DEF ReorderSubcategories
  <2>5. Subs' \subseteq SubIds /\ \A s \in Subs' : s \in Subs /\ SubOrder'[s] = subs'[s].order
    BY <2>4 DEF Subs, SubOrder
  <2>6. \A s \in Subs' : subs[s] \in SubRow
    BY <1>2, <2>5 DEF TypeInv, TypeOK, Subs
  <2>7. \A s \in Subs' : Listed(list, s) => SubOrder'[s] = Position(list, s, old[s])
    BY <2>3, <2>4, <2>5, <2>6 DEF SubRow
  <2>8. Subs' \subseteq Nat
    BY <2>5 DEF SubIds
  <2>9. ShownInOrder(list, Subs', SubOrder')
    BY <2>2, <2>7, <2>8, PlacesDecide
  <2>10. QED BY <2>1, <2>9
<1>3. TypeInv /\ [Next]_vars =>
        [\A p \in Procs :
           /\ ReorderCategories(p) => ShownInOrder(req[p].list, Cats', CatOrder')
           /\ ReorderSubcategories(p) => ShownInOrder(req[p].list, Subs', SubOrder')]_vars
  BY <1>1, <1>2
<1>4. QED BY <1>3, TypeInvHolds, PTL DEF Spec, MovesDecideTheOrder

=============================================================================
