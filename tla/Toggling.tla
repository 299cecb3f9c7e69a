------------------------------ MODULE Toggling ------------------------------
(***************************************************************************)
(* What store/store.go promises of ToggleReaction: one request turns one   *)
(* reaction on if it is off and off if it is on, in a single step, or      *)
(* fails and changes nothing.  Feedback, whose toggle is two statements    *)
(* with other requests between them, is shown to implement it.             *)
(***************************************************************************)
CONSTANTS Clients, People, Things, Nobody

VARIABLES
    things,     \* the things there are to react to
    reactions,  \* pairs of a thing and the person who reacted
    asked       \* the pair each client wants toggled, or Nobody

vars == <<things, reactions, asked>>

Toggled(pair) == IF pair \in reactions THEN reactions \ {pair} ELSE reactions \cup {pair}

Ask(c, pair) ==
    /\ asked[c] = Nobody
    /\ asked' = [asked EXCEPT ![c] = pair]
    /\ UNCHANGED <<things, reactions>>

Toggle(c) ==
    /\ asked[c] # Nobody
    /\ reactions' = Toggled(asked[c])
    /\ asked' = [asked EXCEPT ![c] = Nobody]
    /\ UNCHANGED things

Fail(c) ==
    /\ asked[c] # Nobody
    /\ asked' = [asked EXCEPT ![c] = Nobody]
    /\ UNCHANGED <<things, reactions>>

\* Things come, and take the reactions to them along when they go.
Replace(now) ==
    /\ things' = now
    /\ reactions' = {pair \in reactions : pair[1] \notin things \ now}
    /\ UNCHANGED asked

Init ==
    /\ things = {}
    /\ reactions = {}
    /\ asked = [c \in Clients |-> Nobody]

Next ==
    \/ \E c \in Clients : \/ \E pair \in Things \X People : Ask(c, pair)
                          \/ Toggle(c) \/ Fail(c)
    \/ \E now \in SUBSET Things : Replace(now)

Spec == Init /\ [][Next]_vars
=============================================================================
