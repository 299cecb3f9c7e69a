--------------------------- MODULE MCSubmissions ----------------------------
(* Instances of Submissions for TLC. *)
EXTENDS Submissions, TLC

\* Posts that are submitted and read.
Reading == {"submit", "view"}

\* Holds under changing settings; reading; attachments; avatars.  One behaviour
\* sends one of these mixes.
Mixes == {{"settings", "submit", "edit", "purge"}, Reading,
          {"submit", "attach", "purge", "serve"}, {"profile"}}

OnlyReading == {Reading}

Interchangeable == Permutations(Procs) \cup Permutations(Files) \cup Permutations(Types)
=============================================================================
