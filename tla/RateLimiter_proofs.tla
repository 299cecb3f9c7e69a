------------------------- MODULE RateLimiter_proofs -------------------------
(***************************************************************************)
(* Proofs about RateLimiter, for any keys, goroutines, limit and window.   *)
(***************************************************************************)
EXTENDS RateLimiter, FiniteSetTheorems, WellFoundedInduction, TLAPS

-----------------------------------------------------------------------------
(* The first element of a set of event numbers.                            *)

\* The order of the naturals as a set of pairs.
NatLess == {ss \in Nat \X Nat : ss[1] < ss[2]}

LEMMA NatLessWellFounded == IsWellFoundedOn(NatLess, Nat)
BY NatLessThanWellFounded DEF OpToRel, NatLess

\* A set of naturals that is not empty has a first element.
LEMMA FirstIsIn ==
    ASSUME NEW S \in SUBSET Nat, S # {}
    PROVE  First(S) \in S
<1>1. PICK m \in S : \A j \in S : <<j, m>> \notin NatLess
  BY NatLessWellFounded, WFMin
<1>2. ASSUME NEW j \in S PROVE m <= j
  <2>1. <<j, m>> \in Nat \X Nat /\ <<j, m>>[1] = j /\ <<j, m>>[2] = m
    OBVIOUS
  <2>2. <<j, m>> \notin NatLess
    BY <1>1
  <2>3. QED BY <2>1, <2>2 DEF NatLess
<1>3. QED BY <1>2 DEF First

\* The larger of two naturals.
LEMMA LaterOfIsLater ==
    ASSUME NEW a \in Nat, NEW b \in Int
    PROVE  LaterOf(a, b) \in Nat /\ LaterOf(a, b) >= a /\ LaterOf(a, b) >= b
BY DEF LaterOf

-----------------------------------------------------------------------------
(* Types.                                                                  *)

LEMMA CallKey ==
    ASSUME TypeOK, NEW p \in Procs, At(p, "allow")
    PROVE  /\ req[p].key \in Keys /\ req[p].now \in Nat
           /\ req[p].pc = "allow" /\ req[p] \in Call
BY DEF TypeOK, At, Call

\* The event numbers a key holds are those of admissions.
LEMMA EventsAreAdmissions ==
    ASSUME TypeOK, NEW k \in Keys
    PROVE  /\ times[k] \in Seq(Nat) /\ Len(times[k]) \in Nat
           /\ DOMAIN times[k] = 1 .. Len(times[k])
           /\ events[k] \subseteq 1 .. Len(times[k])
           /\ \A i \in 1 .. Len(times[k]) : times[k][i] \in Nat
           /\ IsFiniteSet(events[k])
<1>1. times[k] \in Seq(Nat) /\ events[k] \subseteq DOMAIN times[k]
  BY DEF TypeOK
<1>2. Len(times[k]) \in Nat /\ DOMAIN times[k] = 1 .. Len(times[k])
  BY <1>1
<1>3. IsFiniteSet(events[k])
  <2>1. IsFiniteSet(1 .. Len(times[k]))
    BY <1>2, FS_Interval
  <2>2. QED BY <1>1, <1>2, <2>1, FS_Subset
<1>4. QED BY <1>1, <1>2, <1>3

\* Pruning only forgets, and leaves a finite set.
LEMMA PrunedIsSmaller ==
    ASSUME TypeOK, NEW k \in Keys, NEW now \in Nat
    PROVE  /\ Pruned(k, now) \subseteq events[k]
           /\ IsFiniteSet(Pruned(k, now))
           /\ Cardinality(Pruned(k, now)) \in Nat
           /\ Cardinality(events[k]) \in Nat
           /\ Cardinality(Pruned(k, now)) <= Cardinality(events[k])
<1>1. Pruned(k, now) \subseteq events[k]
  BY DEF Pruned
<1>2. IsFiniteSet(events[k])
  BY EventsAreAdmissions
<1>3. QED BY <1>1, <1>2, FS_Subset, FS_CardinalityType

\* The wait a denied client is told covers the first event held.
LEMMA RetryCovers ==
    ASSUME TypeOK, NEW k \in Keys, NEW now \in Nat, Full(k, now)
    PROVE  /\ First(Pruned(k, now)) \in Pruned(k, now)
           /\ Retry(k, now) \in Nat
           /\ times[k][First(Pruned(k, now))] + Window <= now + Retry(k, now)
<1> DEFINE f == First(Pruned(k, now))
<1>1. Pruned(k, now) # {}
  BY PrunedIsSmaller, FS_EmptySet, ConstantsOK DEF Full
<1>2. f \in Pruned(k, now)
  <2>1. Pruned(k, now) \in SUBSET Nat
    <3>1. Pruned(k, now) \subseteq events[k]
      BY PrunedIsSmaller
    <3>2. events[k] \subseteq 1 .. Len(times[k]) /\ Len(times[k]) \in Nat
      BY EventsAreAdmissions
    <3>3. 1 .. Len(times[k]) \subseteq Nat
      BY <3>2
    <3>4. QED BY <3>1, <3>2, <3>3
  <2>2. QED BY <1>1, <2>1, FirstIsIn
<1>3. times[k][f] \in Nat
  BY <1>2, PrunedIsSmaller, EventsAreAdmissions
<1>4. Second \in Nat /\ times[k][f] + Window - now \in Int
  BY <1>3, ConstantsOK
<1>5. Retry(k, now) \in Nat /\ Retry(k, now) >= times[k][f] + Window - now
  BY <1>4, LaterOfIsLater DEF Retry
<1>6. QED BY <1>2, <1>3, <1>5, ConstantsOK

LEMMA TypeInit == Init => TypeOK
BY DEF Init, TypeOK, Call, NoCall, At

LEMMA TypeStep == TypeOK /\ [Next]_vars => TypeOK'
<1> SUFFICES ASSUME TypeOK, [Next]_vars PROVE TypeOK'
  OBVIOUS
<1>1. CASE UNCHANGED vars
  BY <1>1 DEF vars, TypeOK, At
<1>2. CASE Tick
  BY <1>2 DEF Tick, TypeOK, At
<1>3. ASSUME NEW p \in Procs, ReadClock(p) PROVE TypeOK'
  <2>1. PICK k \in Keys : req' = [req EXCEPT ![p] =
                            [pc |-> "allow", key |-> k, now |-> clock, retry |-> 0]]
    BY <1>3 DEF ReadClock
  <2>2. [pc |-> "allow", key |-> k, now |-> clock, retry |-> 0] \in Call
    BY DEF TypeOK, Call
  <2>3. QED BY <1>3, <2>1, <2>2 DEF ReadClock, TypeOK, At
<1>4. ASSUME NEW p \in Procs, Admit(p) PROVE TypeOK'
  <2> DEFINE k == req[p].key
             now == req[p].now
             i == Len(times[k]) + 1
  <2>1. k \in Keys /\ now \in Nat
    BY <1>4, CallKey DEF Admit
  <2>2. /\ events' = [events EXCEPT ![k] = Pruned(k, now) \cup {i}]
        /\ times' = [times EXCEPT ![k] = Append(times[k], now)]
        /\ latest' = [latest EXCEPT ![k] = LaterOf(latest[k], now)]
        /\ onTime' = [onTime EXCEPT ![k] =
                        IF now >= latest[k] THEN onTime[k] \cup {i} ELSE onTime[k]]
        /\ req' = [req EXCEPT ![p] = NoCall] /\ clock' = clock
    BY <1>4 DEF Admit
  <2>3. /\ times[k] \in Seq(Nat) /\ Len(times[k]) \in Nat
        /\ DOMAIN times[k] = 1 .. Len(times[k])
    BY <2>1, EventsAreAdmissions
  <2>4. times' \in [Keys -> Seq(Nat)]
    BY <2>1, <2>2, <2>3 DEF TypeOK
  <2>5. DOMAIN Append(times[k], now) = 1 .. i /\ i \in Nat
    BY <2>1, <2>3
  <2>6. Pruned(k, now) \cup {i} \subseteq 1 .. i /\ onTime[k] \cup {i} \subseteq 1 .. i
    <3>1. Pruned(k, now) \subseteq 1 .. Len(times[k])
      BY <2>1, PrunedIsSmaller, EventsAreAdmissions
    <3>2. onTime[k] \subseteq 1 .. Len(times[k])
      BY <2>1, <2>3 DEF TypeOK
    <3>3. 1 .. i = (1 .. Len(times[k])) \cup {i}
      BY <2>3
    <3>4. QED BY <3>1, <3>2, <3>3
  <2>7. /\ events' \in [Keys -> SUBSET Nat] /\ onTime' \in [Keys -> SUBSET Nat]
        /\ \A x \in Keys : events'[x] \subseteq DOMAIN times'[x]
                           /\ onTime'[x] \subseteq DOMAIN times'[x]
    <3>1. 1 .. i \subseteq Nat
      BY <2>5
    <3>2. events'[k] \subseteq DOMAIN times'[k] /\ onTime'[k] \subseteq DOMAIN times'[k]
      BY <2>1, <2>2, <2>5, <2>6 DEF TypeOK
    <3>3. \A x \in Keys : x # k => /\ events'[x] = events[x] /\ onTime'[x] = onTime[x]
                                   /\ times'[x] = times[x]
      BY <2>1, <2>2 DEF TypeOK
    <3>4. events' \in [Keys -> SUBSET Nat] /\ onTime' \in [Keys -> SUBSET Nat]
      BY <2>1, <2>2, <2>6, <3>1 DEF TypeOK
    <3>5. QED BY <3>2, <3>3, <3>4 DEF TypeOK
  <2>8. latest' \in [Keys -> Nat]
    <3>1. LaterOf(latest[k], now) \in Nat
      BY <2>1 DEF TypeOK, LaterOf
    <3>2. QED BY <2>1, <2>2, <3>1 DEF TypeOK
  <2>9. req' \in [Procs -> Call] /\ \A q \in Procs : At(q, "idle")' \/ req'[q].key \in Keys
    BY <2>2 DEF TypeOK, At, NoCall, Call
  <2>10. QED BY <2>2, <2>4, <2>7, <2>8, <2>9 DEF TypeOK
<1>5. ASSUME NEW p \in Procs, Deny(p) PROVE TypeOK'
  <2> DEFINE k == req[p].key
             now == req[p].now
  <2>1. k \in Keys /\ now \in Nat /\ req[p] \in Call
    BY <1>5, CallKey DEF Deny
  <2>2. /\ events' = [events EXCEPT ![k] = Pruned(k, now)]
        /\ latest' = [latest EXCEPT ![k] = LaterOf(latest[k], now)]
        /\ req' = [req EXCEPT ![p].pc = "denied", ![p].retry = Retry(k, now)]
        /\ UNCHANGED <<clock, times, onTime>>
    BY <1>5 DEF Deny
  <2>3. events' \in [Keys -> SUBSET Nat] /\ \A x \in Keys : events'[x] \subseteq events[x]
    BY <2>1, <2>2, PrunedIsSmaller DEF TypeOK
  <2>4. latest' \in [Keys -> Nat]
    <3>1. LaterOf(latest[k], now) \in Nat
      BY <2>1 DEF TypeOK, LaterOf
    <3>2. QED BY <2>1, <2>2, <3>1 DEF TypeOK
  <2>5. Retry(k, now) \in Nat
    BY <1>5, <2>1, RetryCovers DEF Deny
  <2>6. [req[p] EXCEPT !.pc = "denied", !.retry = Retry(k, now)] \in Call
    BY <2>1, <2>5 DEF Call
  <2>7. req' \in [Procs -> Call] /\ \A q \in Procs : At(q, "idle")' \/ req'[q].key \in Keys
    BY <2>1, <2>2, <2>6 DEF TypeOK, At, Call
  <2>8. QED BY <2>2, <2>3, <2>4, <2>7 DEF TypeOK
<1>6. QED BY <1>1, <1>2, <1>3, <1>4, <1>5 DEF Next

\* The limiter's tables and the calls in flight keep their types.
THEOREM TypeCorrect == Spec => []TypeOK
BY TypeInit, TypeStep, PTL DEF Spec

-----------------------------------------------------------------------------
(* The limit.                                                              *)

\* A key holds Limit events at most, and forgets an admission only when some
\* call has come a window later.
LimiterInv ==
    \A k \in Keys :
        /\ Cardinality(events[k]) <= Limit
        /\ \A i \in DOMAIN times[k] : i \notin events[k] => times[k][i] <= latest[k] - Window

\* One element more than a set that is below the limit.
LEMMA OneMore ==
    ASSUME NEW S, IsFiniteSet(S), NEW x, NEW L \in Nat, Cardinality(S) < L,
           NEW T, T \subseteq S \cup {x}
    PROVE  Cardinality(T) <= L
<1>1. /\ IsFiniteSet(S \cup {x}) /\ Cardinality(S) \in Nat
      /\ Cardinality(S \cup {x}) = IF x \in S THEN Cardinality(S) ELSE Cardinality(S) + 1
  BY FS_AddElement, FS_CardinalityType
<1>2. IsFiniteSet(T) /\ Cardinality(T) <= Cardinality(S \cup {x})
  BY <1>1, FS_Subset
<1>3. Cardinality(T) \in Nat
  BY <1>2, FS_CardinalityType
<1>4. QED BY <1>1, <1>2, <1>3

\* An admission that nothing later overtook fits its window: what is still
\* held is counted, and what was forgotten lies before it.
LEMMA AdmitFits ==
    ASSUME TypeOK, LimiterInv, NEW k \in Keys, NEW now \in Nat,
           ~Full(k, now), now >= latest[k], NEW t, NEW n,
           n = Len(times[k]) + 1, t[n] = now,
           \A i \in 1 .. Len(times[k]) : t[i] = times[k][i]
    PROVE  Cardinality({i \in 1 .. n : t[i] > t[n] - Window}) <= Limit
<1>1. /\ Len(times[k]) \in Nat
      /\ DOMAIN times[k] = 1 .. Len(times[k])
      /\ \A i \in 1 .. Len(times[k]) : times[k][i] \in Nat
  BY EventsAreAdmissions
<1>2. latest[k] \in Nat /\ Window \in Nat /\ Limit \in Nat
  BY ConstantsOK DEF TypeOK
<1>3. ASSUME NEW i \in 1 .. n, t[i] > t[n] - Window, i # n
      PROVE  i \in Pruned(k, now)
  <2>1. i \in 1 .. Len(times[k]) /\ times[k][i] \in Nat /\ times[k][i] > now - Window
    BY <1>1, <1>3
  <2>2. i \notin events[k] => times[k][i] <= latest[k] - Window
    BY <1>1, <2>1 DEF LimiterInv
  <2>3. i \in events[k]
    BY <1>2, <2>1, <2>2
  <2>4. QED BY <2>1, <2>3 DEF Pruned
<1>4. {i \in 1 .. n : t[i] > t[n] - Window} \subseteq Pruned(k, now) \cup {n}
  BY <1>3
<1>5. IsFiniteSet(Pruned(k, now)) /\ Cardinality(Pruned(k, now)) < Limit
  BY <1>2, PrunedIsSmaller DEF Full
<1>6. QED BY <1>2, <1>4, <1>5, OneMore

LEMMA LimiterStep ==
    TypeOK /\ LimiterInv /\ AtMostLimit /\ [Next]_vars => LimiterInv' /\ AtMostLimit'
<1> SUFFICES ASSUME TypeOK, LimiterInv, AtMostLimit, [Next]_vars
             PROVE  LimiterInv' /\ AtMostLimit'
  OBVIOUS
<1>0. TypeOK' /\ Limit \in Nat /\ Window \in Nat
  BY TypeStep, ConstantsOK
<1>1. CASE UNCHANGED <<events, times, latest, onTime>>
  BY <1>1 DEF LimiterInv, AtMostLimit, InWindowOf
<1>2. ASSUME NEW p \in Procs, Admit(p) PROVE LimiterInv' /\ AtMostLimit'
  <2>0. PICK k, now, n : k = req[p].key /\ now = req[p].now /\ n = Len(times[k]) + 1
    OBVIOUS
  <2>1. k \in Keys /\ now \in Nat
    BY <1>2, <2>0, CallKey DEF Admit
  <2>2. /\ ~Full(k, now)
        /\ events' = [events EXCEPT ![k] = Pruned(k, now) \cup {n}]
        /\ times' = [times EXCEPT ![k] = Append(times[k], now)]
        /\ latest' = [latest EXCEPT ![k] = LaterOf(latest[k], now)]
        /\ onTime' = [onTime EXCEPT ![k] =
                        IF now >= latest[k] THEN onTime[k] \cup {n} ELSE onTime[k]]
    BY <1>2, <2>0 DEF Admit
  <2>3. /\ times[k] \in Seq(Nat) /\ Len(times[k]) \in Nat
        /\ DOMAIN times[k] = 1 .. Len(times[k])
        /\ \A i \in 1 .. Len(times[k]) : times[k][i] \in Nat
    BY <2>1, EventsAreAdmissions
  <2>4. /\ events'[k] = Pruned(k, now) \cup {n}
        /\ times'[k] = Append(times[k], now)
        /\ latest'[k] = LaterOf(latest[k], now)
        /\ onTime'[k] = IF now >= latest[k] THEN onTime[k] \cup {n} ELSE onTime[k]
    BY <2>1, <2>2 DEF TypeOK
  <2>5. \A x \in Keys : x # k => /\ events'[x] = events[x] /\ times'[x] = times[x]
                                 /\ latest'[x] = latest[x] /\ onTime'[x] = onTime[x]
    BY <2>1, <2>2 DEF TypeOK
  <2>6. /\ DOMAIN times'[k] = 1 .. n /\ times'[k][n] = now
        /\ \A i \in 1 .. Len(times[k]) : times'[k][i] = times[k][i]
    BY <2>0, <2>1, <2>3, <2>4
  <2>7. latest[k] \in Nat /\ latest'[k] \in Nat /\ latest'[k] >= latest[k] /\ latest'[k] >= now
    BY <2>1, <2>4 DEF TypeOK, LaterOf
  <2>8. Cardinality(events'[k]) <= Limit
    <3>1. IsFiniteSet(Pruned(k, now)) /\ Cardinality(Pruned(k, now)) < Limit
      BY <1>0, <2>1, <2>2, PrunedIsSmaller DEF Full
    <3>2. QED BY <1>0, <2>4, <3>1, OneMore
  <2>9. ASSUME NEW i \in DOMAIN times'[k], i \notin events'[k]
        PROVE  times'[k][i] <= latest'[k] - Window
    <3>1. i \in 1 .. Len(times[k]) /\ i \notin Pruned(k, now)
      BY <2>0, <2>3, <2>4, <2>6, <2>9
    <3>0. times[k][i] \in Nat /\ times'[k][i] = times[k][i]
      BY <2>3, <2>6, <3>1
    <3>2. CASE i \in events[k]
      <4>1. ~(times[k][i] > now - Window)
        BY <3>1, <3>2 DEF Pruned
      <4>2. QED BY <1>0, <2>1, <2>7, <3>0, <4>1
    <3>3. CASE i \notin events[k]
      <4>1. times[k][i] <= latest[k] - Window
        BY <2>1, <2>3, <3>1, <3>3 DEF LimiterInv
      <4>2. QED BY <1>0, <2>7, <3>0, <4>1
    <3>4. QED BY <3>2, <3>3
  <2>10. LimiterInv'
    BY <2>5, <2>8, <2>9 DEF LimiterInv
  <2>11. ASSUME NEW m \in onTime'[k]
         PROVE  Cardinality(InWindowOf(k, m)') <= Limit
    <3>1. CASE m \in onTime[k]
      <4>1. m \in 1 .. Len(times[k])
        BY <2>1, <2>3, <3>1 DEF TypeOK
      <4>2. \A i \in 1 .. m : times'[k][i] = times[k][i]
        BY <2>3, <2>6, <4>1
      <4>3. m \in 1 .. m
        BY <4>1
      <4>4. InWindowOf(k, m)' = InWindowOf(k, m)
        BY <4>2, <4>3 DEF InWindowOf
      <4>5. QED BY <2>1, <3>1, <4>4 DEF AtMostLimit
    <3>2. CASE m \notin onTime[k]
      <4>1. m = n /\ now >= latest[k]
        BY <2>4, <2>11, <3>2
      <4>2. PICK t : t = times'[k]
        OBVIOUS
      <4>3. /\ n = Len(times[k]) + 1 /\ t[n] = now
            /\ \A i \in 1 .. Len(times[k]) : t[i] = times[k][i]
        BY <2>0, <2>6, <4>2
      <4>4. Cardinality({i \in 1 .. n : t[i] > t[n] - Window}) <= Limit
        BY <2>1, <2>2, <4>1, <4>3, AdmitFits
      <4>5. InWindowOf(k, m)' = {i \in 1 .. n : t[i] > t[n] - Window}
        BY <4>1, <4>2 DEF InWindowOf
      <4>6. QED BY <4>4, <4>5
    <3>3. QED BY <3>1, <3>2
  <2>12. AtMostLimit'
    <3>1. \A x \in Keys : x # k => \A m \in onTime'[x] : InWindowOf(x, m)' = InWindowOf(x, m)
      BY <2>5 DEF InWindowOf
    <3>2. QED BY <2>5, <2>11, <3>1 DEF AtMostLimit
  <2>13. QED BY <2>10, <2>12
<1>3. ASSUME NEW p \in Procs, Deny(p) PROVE LimiterInv' /\ AtMostLimit'
  <2> DEFINE k == req[p].key
             now == req[p].now
  <2>1. k \in Keys /\ now \in Nat
    BY <1>3, CallKey DEF Deny
  <2>2. /\ events' = [events EXCEPT ![k] = Pruned(k, now)]
        /\ latest' = [latest EXCEPT ![k] = LaterOf(latest[k], now)]
        /\ times' = times /\ onTime' = onTime
    BY <1>3 DEF Deny
  <2>3. events'[k] = Pruned(k, now) /\ latest'[k] = LaterOf(latest[k], now)
    BY <2>1, <2>2 DEF TypeOK
  <2>4. \A x \in Keys : x # k => events'[x] = events[x] /\ latest'[x] = latest[x]
    BY <2>1, <2>2 DEF TypeOK
  <2>5. latest[k] \in Nat /\ latest'[k] \in Nat /\ latest'[k] >= latest[k] /\ latest'[k] >= now
    BY <2>1, <2>3 DEF TypeOK, LaterOf
  <2>6. Cardinality(events'[k]) <= Limit
    <3>1. Cardinality(events[k]) <= Limit
      BY <2>1 DEF LimiterInv
    <3>2. QED BY <1>0, <2>1, <2>3, <3>1, PrunedIsSmaller
  <2>7. ASSUME NEW i \in DOMAIN times[k], i \notin Pruned(k, now)
        PROVE  times[k][i] <= latest'[k] - Window
    <3>0. times[k][i] \in Nat
      BY <2>1, EventsAreAdmissions
    <3>1. CASE i \in events[k]
      BY <1>0, <2>1, <2>5, <2>7, <3>0, <3>1 DEF Pruned
    <3>2. CASE i \notin events[k]
      <4>1. times[k][i] <= latest[k] - Window
        BY <2>1, <3>2 DEF LimiterInv
      <4>2. QED BY <1>0, <2>5, <3>0, <4>1
    <3>3. QED BY <3>1, <3>2
  <2>8. LimiterInv'
    BY <2>2, <2>3, <2>4, <2>6, <2>7 DEF LimiterInv
  <2>9. AtMostLimit'
    BY <2>2 DEF AtMostLimit, InWindowOf
  <2>10. QED BY <2>8, <2>9
<1>4. QED BY <1>1, <1>2, <1>3 DEF Next, vars, Tick, ReadClock

LEMMA LimiterInit == Init => LimiterInv /\ AtMostLimit
BY FS_EmptySet, ConstantsOK DEF Init, LimiterInv, AtMostLimit

\* Whatever goroutines race between the clock and the mutex, a request that no
\* later one overtook is admitted only if its window holds at most Limit.
THEOREM LimitHolds == Spec => []AtMostLimit
BY TypeInit, TypeStep, LimiterInit, LimiterStep, PTL DEF Spec

\* A client that comes back after the wait it was told, or later, finds room.
LEMMA WaitSuffices ==
    ASSUME TypeOK, LimiterInv, NEW p \in Procs, Deny(p),
           NEW wait \in Nat, req'[p].retry <= wait
    PROVE  Cardinality({i \in events'[req[p].key] :
                          times[req[p].key][i] > req[p].now + wait - Window}) < Limit
<1> DEFINE k == req[p].key
           now == req[p].now
           S == Pruned(k, now)
           T == {i \in S : times[k][i] > now + wait - Window}
<1>1. k \in Keys /\ now \in Nat /\ Full(k, now) /\ req[p] \in Call
  BY CallKey DEF Deny
<1>2. events'[k] = S /\ req'[p].retry = Retry(k, now)
  BY <1>1 DEF Deny, TypeOK, Call
<1>3. /\ First(S) \in S /\ Retry(k, now) \in Nat
      /\ times[k][First(S)] + Window <= now + Retry(k, now)
  BY <1>1, RetryCovers
<1>4. T \subseteq S \ {First(S)}
  <2>1. times[k][First(S)] \in Nat /\ Window \in Nat
    BY <1>1, <1>3, PrunedIsSmaller, EventsAreAdmissions, ConstantsOK
  <2>2. ~(times[k][First(S)] > now + wait - Window)
    BY <1>1, <1>2, <1>3, <2>1
  <2>3. QED BY <2>2
<1>5. IsFiniteSet(S) /\ Cardinality(S) \in Nat /\ Cardinality(S) <= Limit
  <2>1. Cardinality(events[k]) <= Limit
    BY <1>1 DEF LimiterInv
  <2>2. QED BY <1>1, <2>1, PrunedIsSmaller, ConstantsOK
<1>6. IsFiniteSet(S \ {First(S)}) /\ Cardinality(S \ {First(S)}) = Cardinality(S) - 1
  BY <1>3, <1>5, FS_RemoveElement
<1>7. /\ IsFiniteSet(T) /\ Cardinality(T) \in Nat
      /\ Cardinality(T) <= Cardinality(S \ {First(S)})
  BY <1>4, <1>6, FS_Subset, FS_CardinalityType
<1>8. Cardinality(T) < Limit
  BY <1>5, <1>6, <1>7, ConstantsOK
<1>9. QED BY <1>2, <1>8

\* The wait a denied call is told is a natural number.
LEMMA WaitIsNat ==
    ASSUME TypeOK, NEW p \in Procs, Deny(p)
    PROVE  req'[p].retry \in Nat /\ req[p].now \in Nat
<1>1. req[p].key \in Keys /\ req[p].now \in Nat /\ req[p] \in Call
  BY CallKey DEF Deny
<1>2. req'[p].retry = Retry(req[p].key, req[p].now)
  BY <1>1 DEF Deny, TypeOK, Call
<1>3. Full(req[p].key, req[p].now)
  BY DEF Deny
<1>4. QED BY <1>1, <1>2, <1>3, RetryCovers

\* Rounding to the nearest second loses half a second at most.
LEMMA RoundingLosesHalf ==
    ASSUME NEW d \in Nat
    PROVE  /\ RoundedHeader(d) \in Nat /\ Second \div 2 \in Nat
           /\ d <= RoundedHeader(d) + Second \div 2
<1> DEFINE s == Second
           q == (2 * d + s) \div (2 * s)
           h == s \div 2
<1>1. s \in Nat /\ s > 0
  BY ConstantsOK
<1>2. h \in Nat /\ s <= 2 * h + 1
  BY <1>1
<1>3. q \in Nat /\ 2 * d + s < (2 * s) * (q + 1)
  <2> HIDE DEF s
  <2>1. 2 * s \in Nat /\ 2 * s > 0 /\ 2 * d + s \in Nat
    BY <1>1
  <2>2. \A a \in Nat, b \in Nat : b > 0 => a \div b \in Nat /\ a < b * ((a \div b) + 1)
    OBVIOUS
  <2>3. QED BY <2>1, <2>2
<1>4. (2 * s) * (q + 1) = 2 * (s * q) + 2 * s /\ s * q \in Nat
  BY <1>1, <1>3
<1>5. d <= s * q + h
  <2> HIDE DEF s, q, h
  <2> DEFINE m == s * q
  <2>1. m \in Nat /\ 2 * d + s < 2 * m + 2 * s
    BY <1>3, <1>4
  <2> HIDE DEF m
  <2>2. d <= m + h
    BY <1>1, <1>2, <2>1
  <2>3. QED BY <2>2 DEF m
<1>6. RoundedHeader(d) \in Nat /\ RoundedHeader(d) >= s * q
  <2> DEFINE m == s * q
  <2>1. RoundedHeader(d) = LaterOf(s, m)
    BY DEF RoundedHeader
  <2>2. m \in Nat
    BY <1>4
  <2> HIDE DEF s, q, m
  <2>3. LaterOf(s, m) \in Nat /\ LaterOf(s, m) >= m
    BY <1>1, <2>2, LaterOfIsLater
  <2>4. RoundedHeader(d) \in Nat /\ RoundedHeader(d) >= m
    BY <2>1, <2>3
  <2>5. QED BY <2>4 DEF m
<1>7. d <= RoundedHeader(d) + h
  <2> HIDE DEF s, q, h
  <2> DEFINE m == s * q
  <2>1. m \in Nat /\ d <= m + h /\ RoundedHeader(d) >= m
    BY <1>4, <1>5, <1>6
  <2> HIDE DEF m
  <2>2. QED BY <1>2, <1>6, <2>1
<1>8. RoundedHeader(d) \in Nat /\ h \in Nat
  BY <1>2, <1>6, Zenon
<1>9. QED BY <1>7, <1>8, Zenon

\* Cutting off what exceeds whole seconds loses less than a second.
LEMMA TruncationLosesLess ==
    ASSUME NEW d \in Nat
    PROVE  /\ TruncatedHeader(d) \in Nat
           /\ TruncatedHeader(d) + Second - 1 \in Nat
           /\ d <= TruncatedHeader(d) + Second - 1
<1>1. PICK s \in Nat : s = Second /\ s > 0
  BY ConstantsOK
<1>2. PICK m \in Nat : m = s * (d \div s) /\ d <= m + s - 1
  <2>1. \A b \in Nat : b > 0 => b * (d \div b) \in Nat /\ d <= b * (d \div b) + b - 1
    OBVIOUS
  <2>2. QED BY <1>1, <2>1
<1>3. TruncatedHeader(d) = LaterOf(s, m)
  BY <1>1, <1>2 DEF TruncatedHeader
<1>4. LaterOf(s, m) \in Nat /\ LaterOf(s, m) >= m
  BY <1>1, <1>2, LaterOfIsLater
<1>5. PICK header \in Nat : header = TruncatedHeader(d) /\ header >= m
  BY <1>3, <1>4
<1>6. header + s - 1 \in Nat /\ d <= header + s - 1
  BY <1>1, <1>2, <1>5
<1>7. QED BY <1>1, <1>5, <1>6

\* The wait Allow returns is long enough, the middleware's header promises at
\* most half a second too much, and the header of a report or a message less
\* than a second, for every limit, window and second, and whatever calls
\* overtook the one that was denied.
THEOREM RetrySuffices == Spec => RetryIsEnough
<1> DEFINE Enough ==
      \A p \in Procs : Deny(p) =>
        LET k == req[p].key
            wait == req'[p].retry
        IN  \A back \in {wait, RoundedHeader(wait) + Second \div 2,
                         TruncatedHeader(wait) + Second - 1} :
              Cardinality({i \in events'[k] :
                             times[k][i] > req[p].now + back - Window}) < Limit
<1>1. TypeOK /\ LimiterInv /\ [Next]_vars => [Enough]_vars
  <2> SUFFICES ASSUME TypeOK, LimiterInv, NEW p \in Procs, Deny(p),
                      NEW back \in {req'[p].retry, RoundedHeader(req'[p].retry) + Second \div 2,
                                    TruncatedHeader(req'[p].retry) + Second - 1}
               PROVE  Cardinality({i \in events'[req[p].key] :
                         times[req[p].key][i] > req[p].now + back - Window}) < Limit
    BY Zenon
  <2>1. req'[p].retry \in Nat /\ req[p].now \in Nat
    BY WaitIsNat
  <2>2. back \in Nat /\ req'[p].retry <= back
    BY <2>1, RoundingLosesHalf, TruncationLosesLess
  <2>3. QED BY <2>2, WaitSuffices
<1>2. QED BY <1>1, TypeInit, TypeStep, LimiterInit, LimiterStep, PTL DEF Spec, RetryIsEnough

-----------------------------------------------------------------------------
(* The decisions, against the whole history of admissions.                 *)

LEMMA HistoryInit == Init => History!Init
BY DEF Init, History!Init, History!NoCall, NoCall

\* What is held after pruning has been admitted in the window, and for a call
\* that nobody overtook it is all that has been.
LEMMA HeldIsRecent ==
    ASSUME TypeOK, LimiterInv, NEW k \in Keys, NEW now \in Nat
    PROVE  /\ Pruned(k, now) \subseteq History!Since(k, now - Window)
           /\ History!InTime(k, now) => Pruned(k, now) = History!Since(k, now - Window)
           /\ \A time : IsFiniteSet(History!Since(k, time))
<1>1. /\ events[k] \subseteq DOMAIN times[k] /\ IsFiniteSet(DOMAIN times[k])
      /\ \A i \in DOMAIN times[k] : times[k][i] \in Nat
  <2>1. /\ Len(times[k]) \in Nat /\ DOMAIN times[k] = 1 .. Len(times[k])
        /\ events[k] \subseteq 1 .. Len(times[k])
        /\ \A i \in 1 .. Len(times[k]) : times[k][i] \in Nat
    BY EventsAreAdmissions
  <2>2. IsFiniteSet(1 .. Len(times[k]))
    BY <2>1, FS_Interval
  <2>3. QED BY <2>1, <2>2
<1>2. latest[k] \in Nat /\ Window \in Nat
  BY ConstantsOK DEF TypeOK
<1>3. Pruned(k, now) \subseteq History!Since(k, now - Window)
  BY <1>1 DEF Pruned, History!Since
<1>4. ASSUME History!InTime(k, now), NEW i \in History!Since(k, now - Window)
      PROVE  i \in Pruned(k, now)
  <2>1. i \in DOMAIN times[k] /\ times[k][i] > now - Window /\ now >= latest[k]
    BY <1>4 DEF History!Since, History!InTime
  <2>2. i \notin events[k] => times[k][i] <= latest[k] - Window
    BY <2>1 DEF LimiterInv
  <2>3. i \in events[k]
    BY <1>1, <1>2, <2>1, <2>2
  <2>4. QED BY <2>1, <2>3 DEF Pruned
<1>5. ASSUME NEW time PROVE IsFiniteSet(History!Since(k, time))
  BY <1>1, FS_Subset DEF History!Since
<1>6. QED BY <1>3, <1>4, <1>5

\* Limiter counts as RateLimiter does.
LEMMA SameCardinality == \A S : History!Cardinality(S) = Cardinality(S)
BY DEF History!Cardinality, Cardinality, History!IsFiniteSet, IsFiniteSet

\* What room is.
LEMMA RoomMeans ==
    ASSUME NEW k, NEW time
    PROVE  History!Room(k, time) <=> Cardinality(History!Since(k, time - Window)) < Limit
BY SameCardinality DEF History!Room

\* A full slice means a full window, and for a call that nobody overtook a
\* full window means a full slice.
LEMMA FullMeansNoRoom ==
    ASSUME TypeOK, LimiterInv, NEW k \in Keys, NEW now \in Nat
    PROVE  /\ Full(k, now) => ~History!Room(k, now)
           /\ History!InTime(k, now) /\ ~Full(k, now) => History!Room(k, now)
<1> DEFINE S == Pruned(k, now)
           T == History!Since(k, now - Window)
<1>1. S \subseteq T /\ IsFiniteSet(T) /\ (History!InTime(k, now) => S = T)
  BY HeldIsRecent
<1>2. Cardinality(S) \in Nat /\ Cardinality(T) \in Nat /\ Cardinality(S) <= Cardinality(T)
  BY <1>1, FS_Subset, FS_CardinalityType
<1>3. Limit \in Nat
  BY ConstantsOK
<1>4. /\ Full(k, now) <=> Cardinality(S) >= Limit
      /\ History!Room(k, now) <=> Cardinality(T) < Limit
  BY RoomMeans DEF Full
<1>5. History!InTime(k, now) => Cardinality(S) = Cardinality(T)
  BY <1>1
<1> HIDE DEF S, T
<1>6. QED BY <1>2, <1>3, <1>4, <1>5

\* The wait is the time until an admission of the window leaves it.
LEMMA WaitEnds ==
    ASSUME TypeOK, LimiterInv, NEW k \in Keys, NEW now \in Nat, Full(k, now)
    PROVE  \E i \in History!Since(k, now - Window) :
             Retry(k, now) = History!LaterOf(Second, times[k][i] + Window - now)
<1> DEFINE f == First(Pruned(k, now))
<1>1. f \in Pruned(k, now)
  BY RetryCovers
<1>2. f \in History!Since(k, now - Window)
  BY <1>1, HeldIsRecent
<1>3. Retry(k, now) = History!LaterOf(Second, times[k][f] + Window - now)
  BY DEF Retry, LaterOf, History!LaterOf
<1>4. QED BY <1>2, <1>3

\* When the client comes back after the wait, there is room in the history.
LEMMA RoomAfterWait ==
    ASSUME TypeOK, LimiterInv, NEW k \in Keys, NEW now \in Nat, Full(k, now),
           History!InTime(k, now)
    PROVE  History!Room(k, now + Retry(k, now))
<1> DEFINE S == Pruned(k, now)
           f == First(S)
<1>0. PICK back : back = now + Retry(k, now)
  OBVIOUS
<1> DEFINE T == History!Since(k, back - Window)
<1>1. /\ f \in S /\ back \in Nat /\ back >= now
      /\ times[k][f] + Window <= back
  BY <1>0, RetryCovers
<1>2. /\ Limit \in Nat /\ Window \in Nat
      /\ \A i \in DOMAIN times[k] : times[k][i] \in Nat
  BY EventsAreAdmissions, ConstantsOK
<1>3. S = History!Since(k, now - Window)
  BY HeldIsRecent
<1>4. \A i \in T : i \in S /\ i # f
  <2> SUFFICES ASSUME NEW i \in T PROVE i \in S /\ i # f
    OBVIOUS
  <2>1. i \in DOMAIN times[k] /\ times[k][i] > back - Window
    BY DEF History!Since
  <2>2. times[k][i] > now - Window
    BY <1>1, <1>2, <2>1
  <2>3. i \in S
    BY <1>3, <2>1, <2>2 DEF History!Since
  <2>4. i # f
    BY <1>1, <1>2, <2>1
  <2>5. QED BY <2>3, <2>4
<1>5. IsFiniteSet(S) /\ Cardinality(S) \in Nat /\ Cardinality(S) <= Limit
  <2>1. Cardinality(events[k]) <= Limit /\ Cardinality(events[k]) \in Nat
    BY PrunedIsSmaller DEF LimiterInv
  <2>2. QED BY <1>2, <2>1, PrunedIsSmaller
<1>6. IsFiniteSet(S \ {f}) /\ Cardinality(S \ {f}) = Cardinality(S) - 1
  BY <1>1, <1>5, FS_RemoveElement
<1>7. Cardinality(T) \in Nat /\ Cardinality(T) <= Cardinality(S \ {f})
  <2>1. T \subseteq S \ {f}
    BY <1>4
  <2>2. QED BY <1>6, <2>1, FS_Subset, FS_CardinalityType
<1>8. Cardinality(T) < Limit
  BY <1>2, <1>5, <1>6, <1>7
<1>9. History!Room(k, back)
  BY <1>8, RoomMeans
<1>10. QED BY <1>0, <1>9

\* An admission is one of the limiter that decides on the history.
LEMMA AdmitDecides ==
    ASSUME TypeOK, LimiterInv, NEW p \in Procs, Admit(p)
    PROVE  History!Answer(p)
<1>1. req[p].key \in Keys /\ req[p].now \in Nat
  BY CallKey DEF Admit
<1>2. /\ ~Full(req[p].key, req[p].now)
      /\ times' = [times EXCEPT ![req[p].key] = Append(@, req[p].now)]
      /\ latest' = [latest EXCEPT ![req[p].key] = LaterOf(@, req[p].now)]
      /\ req' = [req EXCEPT ![p] = NoCall] /\ clock' = clock /\ req[p].pc = "allow"
  BY DEF Admit, At
<1>3. History!InTime(req[p].key, req[p].now) => History!Room(req[p].key, req[p].now)
  BY <1>1, <1>2, FullMeansNoRoom
<1>4. History!Admit(p, req[p].key, req[p].now)
  BY <1>2, <1>3 DEF History!Admit, History!NoCall, NoCall
<1>5. History!Seen(req[p].key, req[p].now)
  BY <1>2 DEF History!Seen, History!LaterOf, LaterOf
<1>6. QED BY <1>2, <1>4, <1>5 DEF History!Answer

\* So is a refusal.
LEMMA DenyDecides ==
    ASSUME TypeOK, LimiterInv, NEW p \in Procs, Deny(p)
    PROVE  History!Answer(p)
<1> DEFINE k == req[p].key
           now == req[p].now
<1>1. k \in Keys /\ now \in Nat
  BY CallKey DEF Deny
<1>2. /\ Full(k, now) /\ times' = times /\ clock' = clock /\ req[p].pc = "allow"
      /\ latest' = [latest EXCEPT ![k] = LaterOf(@, now)]
      /\ req' = [req EXCEPT ![p].pc = "denied", ![p].retry = Retry(k, now)]
  BY DEF Deny, At
<1>3. ~History!Room(k, now)
  BY <1>1, <1>2, FullMeansNoRoom
<1>4. PICK i \in History!Since(k, now - Window) :
        Retry(k, now) = History!LaterOf(Second, times[k][i] + Window - now)
  BY <1>1, <1>2, WaitEnds
<1>5. History!InTime(k, now) => History!Room(k, now + Retry(k, now))
  BY <1>1, <1>2, RoomAfterWait
<1>6. History!Deny(p, k, now)
  BY <1>2, <1>3, <1>4, <1>5 DEF History!Deny
<1>7. History!Seen(k, now)
  BY <1>2 DEF History!Seen, History!LaterOf, LaterOf
<1>8. QED BY <1>2, <1>6, <1>7 DEF History!Answer

\* Every step is one of the limiter that decides on the history, or a stutter.
LEMMA EachStepDecides ==
    TypeOK /\ LimiterInv /\ [Next]_vars => [History!Next]_(History!vars)
<1> SUFFICES ASSUME TypeOK, LimiterInv, [Next]_vars
             PROVE  History!Next \/ UNCHANGED History!vars
  OBVIOUS
<1>1. CASE UNCHANGED vars
  BY <1>1 DEF vars, History!vars
<1>2. CASE Tick
  BY <1>2 DEF Tick, History!Next, History!Tick
<1>3. ASSUME NEW p \in Procs, ReadClock(p) PROVE History!Ask(p)
  BY <1>3 DEF ReadClock, History!Ask
<1>4. ASSUME NEW p \in Procs, Admit(p) \/ Deny(p) PROVE History!Answer(p)
  BY <1>4, AdmitDecides, DenyDecides
<1>5. QED BY <1>1, <1>2, <1>3, <1>4 DEF Next, History!Next

\* For every limit, window and number of goroutines: the pruned slice decides
\* as the history of all admissions would.
THEOREM SliceDecidesOnHistory == Spec => DecidesOnHistory
<1>1. QED
  BY TypeInit, TypeStep, LimiterInit, LimiterStep, HistoryInit, EachStepDecides, PTL
     DEF Spec, DecidesOnHistory, History!Spec
=============================================================================
