------------------------------ MODULE MCServer ------------------------------
(* Instances of Server for TLC. *)
EXTENDS Server, TLC

CONSTANTS p1, p2

TwoProcs == {p1, p2}

\* A server, and a command beside it; a roll-back runs alone.
ServerAndCommand == (p1 :> {"serve", "down"}) @@ (p2 :> {"serve", "up"})
OnlyFirst == {p1}
OnlyDown == {"down"}

\* Two migrations: a table and an index, then a column.
TwoMigrations == <<2, 1>>
OneColumn == {<<2, 1>>}
=============================================================================
