---------------------------- MODULE MCStudyStats ----------------------------
(* Instance of StudyStats for TLC: two words of a language, one of another. *)
EXTENDS StudyStats, TLC

CONSTANTS i1, i2, i3, l1, l2

LangOf == (i1 :> l1) @@ (i2 :> l1) @@ (i3 :> l2)

Symmetry == Permutations(Sessions) \union Permutations({i1, i2})
=============================================================================
