----------------------------- MODULE MCAccounts -----------------------------
(* Instances of Accounts for TLC. *)
EXTENDS Accounts, TLC

CONSTANTS a1, a2,          \* accounts
          alice, bob,      \* usernames
          ann, bea,        \* e-mail addresses
          pw1, pw2         \* passwords

\* A deployment nobody has registered with yet.
FreshSeed == [i \in Ids |-> None]

Account(name, email, role) ==
    [name |-> name, email |-> email, pw |-> pw1, role |-> role,
     banned |-> FALSE, verified |-> FALSE]

\* The first account and a moderator.
StaffSeed == [i \in Ids |-> IF i = a1 THEN Account(alice, ann, "admin")
                                      ELSE Account(bob, bea, "moderator")]

\* The first account only; the second may still register.
SoleSeed == [i \in Ids |-> IF i = a1 THEN Account(alice, ann, "admin") ELSE None]

Interchangeable == Permutations(Sessions) \cup Permutations(Tokens)
                   \cup Permutations(Procs)
=============================================================================
