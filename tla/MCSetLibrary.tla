---------------------------- MODULE MCSetLibrary ----------------------------
(* Instance of SetLibrary for TLC. *)
EXTENDS SetLibrary, TLC

Symmetry == Permutations(Requests) \union Permutations(Users)
            \union Permutations(Sets) \union Permutations(Items)
            \union Permutations(Langs)

\* A request whose check is stale can only write, and after that the properties
\* say nothing; the others go on as if it were idle.
UpToRace == \A r \in Requests : ~req[r].stale

\* No guard of another part of the state reads library, and no property does.
WithoutLibrary == <<sets, items, members, req, raced>>
=============================================================================
