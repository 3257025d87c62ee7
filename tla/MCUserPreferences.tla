------------------------- MODULE MCUserPreferences -------------------------
(* Instance of UserPreferences for TLC. *)
EXTENDS UserPreferences, TLC

\* One body per way to break, or to keep, a rule on two fields.
Naming(f, v) == [g \in Fields |-> IF g = f THEN v ELSE Unset]
PatchesOf == {Naming("goal", 1), Naming("goal", 2), Naming("session", 2),
              Naming("day", 1), Naming("max", 1), Naming("max", None),
              [Naming("goal", 1) EXCEPT !["max"] = 2]}

\* Nothing distinguishes requests, or languages: which row is the oldest is
\* not modelled.
Symmetry == Permutations(Requests) \union Permutations(Langs)
=============================================================================
