----------------------------- MODULE Registry ------------------------------
(***************************************************************************)
(* What auth/standalone.go promises of Register: two look-ups and an       *)
(* INSERT decide in a single step, on the accounts there are at that step, *)
(* and an account keeps its key, its name and its e-mail address for good. *)
(* Accounts, whose registrations overlap and whose handlers write back     *)
(* whole rows they read earlier, is shown to implement it.                 *)
(***************************************************************************)
CONSTANTS
    Ids, First, Names, Emails, Clients, None,
    Opening,  \* the directory to begin with
    MayFail   \* TRUE: a request may end without an answer

VARIABLES
    directory,  \* who holds each key: a name and an e-mail address, or None
    asked       \* what each client asks to register, or None

vars == <<directory, asked>>

Held == {i \in Ids : directory[i] # None}

Taken(entry) ==
    \E i \in Held : directory[i].name = entry.name \/ directory[i].email = entry.email

Ask(c, entry) ==
    /\ asked[c] = None
    /\ asked' = [asked EXCEPT ![c] = entry]
    /\ UNCHANGED directory

\* The first account gets the first key, and nobody else does.
Grant(c, i) ==
    /\ asked[c] # None /\ ~Taken(asked[c])
    /\ i \notin Held /\ (i = First <=> Held = {})
    /\ directory' = [directory EXCEPT ![i] = asked[c]]
    /\ asked' = [asked EXCEPT ![c] = None]

\* Nobody is told that a name or an address is taken when neither is.
Refuse(c) ==
    /\ asked[c] # None
    /\ Taken(asked[c]) \/ MayFail
    /\ asked' = [asked EXCEPT ![c] = None]
    /\ UNCHANGED directory

Init ==
    /\ directory = Opening
    /\ asked = [c \in Clients |-> None]

Next ==
    \E c \in Clients :
        \/ \E entry \in [name : Names, email : Emails] : Ask(c, entry)
        \/ \E i \in Ids : Grant(c, i)
        \/ Refuse(c)

Spec == Init /\ [][Next]_vars
=============================================================================
