------------------------------ MODULE Limiter ------------------------------
(***************************************************************************)
(* What the sliding window of middleware/ratelimit.go promises, without    *)
(* its slice of events: each call is decided in one step on the times of   *)
(* all admissions there ever were.                                         *)
(*                                                                         *)
(* A call that no call with a later time overtook is admitted only while   *)
(* its window holds fewer than Limit admissions; no call, overtaken or     *)
(* not, is denied while its window holds fewer.  The wait of a denied      *)
(* client is the time, one second at least, until an admission of its      *)
(* window leaves it, and there is room then unless the call was overtaken. *)
(***************************************************************************)
EXTENDS Integers, FiniteSets, Sequences

CONSTANTS Keys, Clients, Limit, Window, Second, None

VARIABLES
    clock,   \* the time
    calls,   \* what each client is asking, or was answered
    times,   \* per key, the time of every admission, in order
    latest   \* per key, the latest time of a call

vars == <<clock, calls, times, latest>>

NoCall == [pc |-> "idle", key |-> None, now |-> 0, retry |-> 0]

LaterOf(a, b) == IF a > b THEN a ELSE b

\* The admissions of k after a time.
Since(k, time) == {i \in DOMAIN times[k] : times[k][i] > time}

InTime(k, now) == now >= latest[k]
Room(k, now) == Cardinality(Since(k, now - Window)) < Limit

Ask(c) ==
    /\ calls[c].pc # "allow"
    /\ \E k \in Keys :
         calls' = [calls EXCEPT ![c] = [pc |-> "allow", key |-> k, now |-> clock, retry |-> 0]]
    /\ UNCHANGED <<clock, times, latest>>

Seen(k, now) == latest' = [latest EXCEPT ![k] = LaterOf(@, now)]

Admit(c, k, now) ==
    /\ InTime(k, now) => Room(k, now)
    /\ times' = [times EXCEPT ![k] = Append(@, now)]
    /\ calls' = [calls EXCEPT ![c] = NoCall]

Deny(c, k, now) ==
    /\ ~Room(k, now)
    /\ \E i \in Since(k, now - Window) :
         LET wait == LaterOf(Second, times[k][i] + Window - now)
         IN  /\ InTime(k, now) => Room(k, now + wait)
             /\ calls' = [calls EXCEPT ![c].pc = "denied", ![c].retry = wait]
    /\ UNCHANGED times

Answer(c) ==
    /\ calls[c].pc = "allow"
    /\ \/ Admit(c, calls[c].key, calls[c].now)
       \/ Deny(c, calls[c].key, calls[c].now)
    /\ Seen(calls[c].key, calls[c].now)
    /\ UNCHANGED clock

Tick == clock' = clock + 1 /\ UNCHANGED <<calls, times, latest>>

Init ==
    /\ clock = 0
    /\ calls = [c \in Clients |-> NoCall]
    /\ times = [k \in Keys |-> << >>]
    /\ latest = [k \in Keys |-> 0]

Next == Tick \/ \E c \in Clients : Ask(c) \/ Answer(c)

Spec == Init /\ [][Next]_vars
=============================================================================
