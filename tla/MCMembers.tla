----------------------------- MODULE MCMembers ------------------------------
(* Instances of Members for TLC. *)
EXTENDS Members, TLC

\* Reactions; reports; reports reviewed; reading; drafts; messages.  One
\* behaviour sends one of these mixes.
Mixes ==
    {{"newThread", "deleteThread", "react"},
     {"newThread", "deleteThread", "report", "removePost"},
     {"newThread", "report", "review", "removePost"},
     {"newThread", "reply", "view", "deleteThread"},
     {"newThread", "reply", "saveDraft", "discardDraft", "deleteThread"},
     {"send", "open", "deleteMessage"}}

Interchangeable == Permutations(Procs)
=============================================================================
