---------------------------- MODULE RateLimiter ----------------------------
(***************************************************************************)
(* The sliding-window rate limiter of middleware/ratelimit.go, shared by   *)
(* every request goroutine.                                                *)
(*                                                                         *)
(* A request reads time.Now() and only then takes the limiter's mutex, so  *)
(* the section that prunes and appends may run in another order than the   *)
(* clock was read.  An admitted event is named by its number in the order  *)
(* of admission: the slice events[key], which is only appended to and      *)
(* filtered, is the set of the numbers it still holds.                     *)
(***************************************************************************)
EXTENDS Integers, FiniteSets, Sequences

CONSTANTS
    Keys,     \* what a request is counted under: a user or a client address
    Procs,    \* request goroutines
    Limit,    \* events admitted per window
    Window,   \* its length, in ticks of the clock
    Second,   \* ticks per second
    MaxTime,  \* bound on the clock
    None

ASSUME ConstantsOK ==
    /\ Limit \in Nat \ {0}
    /\ Window \in Nat \ {0}
    /\ Second \in Nat \ {0}
    /\ MaxTime \in Nat
    /\ None \notin Keys

VARIABLES
    clock,    \* time.Now()
    req,      \* the call each goroutine is about to make, or has just made
    events,   \* Limiter.events: per key, the admissions still held
    times,    \* history: per key, the time of every admission, in order
    latest,   \* history: per key, the latest time Allow was called with
    onTime    \* history: per key, the admissions no call with a later time overtook

vars == <<clock, req, events, times, latest, onTime>>

Call == [pc : {"idle", "allow", "denied"}, key : Keys \cup {None}, now : Nat, retry : Nat]
NoCall == [pc |-> "idle", key |-> None, now |-> 0, retry |-> 0]

At(p, label) == req[p].pc = label

\* A denied client may come back; the answer is dropped when it does.
ReadClock(p) ==
    /\ req[p].pc \in {"idle", "denied"}
    /\ \E k \in Keys :
         req' = [req EXCEPT ![p] = [pc |-> "allow", key |-> k, now |-> clock, retry |-> 0]]
    /\ UNCHANGED <<clock, events, times, latest, onTime>>

\* Mutant: an event at the cutoff is kept.
PrunedAtCutoff(k, now) == {i \in events[k] : times[k][i] >= now - Window}

\* The events after the cutoff.
Pruned(k, now) == {i \in events[k] : times[k][i] > now - Window}

\* Mutant: one event too many.
FullOffByOne(k, now) == Cardinality(Pruned(k, now)) > Limit

Full(k, now) == Cardinality(Pruned(k, now)) >= Limit

First(S) == CHOOSE i \in S : \A j \in S : i <= j

LaterOf(a, b) == IF a > b THEN a ELSE b

\* Mutant: the age of the first event held, which is negative when the
\* request was overtaken.
RetryAge(k, now) == now - times[k][First(Pruned(k, now))]

\* How long until the first event held leaves the window, one second at least.
Retry(k, now) ==
    LaterOf(Second, times[k][First(Pruned(k, now))] + Window - now)

\* The Retry-After header of a wait d, where ReportPost and SendMessage ask
\* their limiters: what exceeds whole seconds is cut off, one second at least.
TruncatedHeader(d) == LaterOf(Second, Second * (d \div Second))

\* The header where the middleware asks: Duration.Round to whole seconds, half
\* away from zero, one second at least.  Mutant: TruncatedHeader.
RoundedHeader(d) == LaterOf(Second, Second * ((2 * d + Second) \div (2 * Second)))

\* Allow, under the mutex.
Admit(p) ==
    /\ At(p, "allow")
    /\ LET k == req[p].key
           now == req[p].now
           i == Len(times[k]) + 1
       IN  /\ ~Full(k, now)
           /\ events' = [events EXCEPT ![k] = Pruned(k, now) \cup {i}]
           /\ times' = [times EXCEPT ![k] = Append(@, now)]
           /\ latest' = [latest EXCEPT ![k] = LaterOf(@, now)]
           /\ onTime' = [onTime EXCEPT ![k] = IF now >= latest[k] THEN @ \cup {i} ELSE @]
    /\ req' = [req EXCEPT ![p] = NoCall]
    /\ UNCHANGED clock

Deny(p) ==
    /\ At(p, "allow")
    /\ LET k == req[p].key
           now == req[p].now
       IN  /\ Full(k, now)
           /\ events' = [events EXCEPT ![k] = Pruned(k, now)]
           /\ latest' = [latest EXCEPT ![k] = LaterOf(@, now)]
           /\ req' = [req EXCEPT ![p].pc = "denied", ![p].retry = Retry(k, now)]
    /\ UNCHANGED <<clock, times, onTime>>

Tick ==
    /\ clock < MaxTime
    /\ clock' = clock + 1
    /\ UNCHANGED <<req, events, times, latest, onTime>>

Init ==
    /\ clock = 0
    /\ req = [p \in Procs |-> NoCall]
    /\ events = [k \in Keys |-> {}]
    /\ times = [k \in Keys |-> << >>]
    /\ latest = [k \in Keys |-> 0]
    /\ onTime = [k \in Keys |-> {}]

Next == Tick \/ \E p \in Procs : ReadClock(p) \/ Admit(p) \/ Deny(p)

Spec == Init /\ [][Next]_vars

-----------------------------------------------------------------------------
(* Properties.                                                             *)

TypeOK ==
    /\ clock \in Nat
    /\ req \in [Procs -> Call]
    /\ \A p \in Procs : At(p, "idle") \/ req[p].key \in Keys
    /\ times \in [Keys -> Seq(Nat)]
    /\ events \in [Keys -> SUBSET Nat]
    /\ \A k \in Keys : events[k] \subseteq DOMAIN times[k]
    /\ latest \in [Keys -> Nat]
    /\ onTime \in [Keys -> SUBSET Nat]
    /\ \A k \in Keys : onTime[k] \subseteq DOMAIN times[k]

\* The admissions of k up to number m in the window that ends with m.
InWindowOf(k, m) == {i \in 1 .. m : times[k][i] > times[k][m] - Window}

\* A request that no later one overtook between the clock and the mutex is
\* admitted only if, with it, the window that ends at its time holds at most
\* Limit admissions, those of overtaken requests included: pruning for one
\* request never forgets an event that a later request has to count.
AtMostLimit ==
    \A k \in Keys : \A m \in onTime[k] : Cardinality(InWindowOf(k, m)) <= Limit

\* A denied client that waits as long as Allow said and comes back, nobody else
\* having been admitted meanwhile, is admitted, also when its own call or the
\* events it was counted against were overtaken.  The header it sees may tell
\* less than that wait: who trusts the middleware's is admitted half a second
\* after it at the latest, who trusts that of a report or a message within the
\* second that follows it.
RetryIsEnough ==
    [][\A p \in Procs : Deny(p) =>
         LET k == req[p].key
             wait == req'[p].retry
         IN  \A back \in {wait, RoundedHeader(wait) + Second \div 2,
                          TruncatedHeader(wait) + Second - 1} :
               Cardinality({i \in events'[k] :
                              times[k][i] > req[p].now + back - Window}) < Limit]_vars

\* The limiter as one decision on the whole history: see Limiter.
History == INSTANCE Limiter WITH Clients <- Procs, calls <- req

\* The slice that is pruned and appended to decides as the whole history of
\* admissions would: what it forgot never lets a request in that nobody
\* overtook, what it still holds never keeps one out that has room, and the
\* wait of one that was kept out is the time until an admission of its window
\* leaves it, never too short for a request that nobody overtook.
DecidesOnHistory == History!Spec
=============================================================================
