--------------------------- MODULE MCUserAccount ---------------------------
(***************************************************************************)
(* Instances of UserAccount for TLC.                                       *)
(***************************************************************************)
EXTENDS UserAccount, TLC

CONSTANTS u1, u2, e1, e2, e3, t1, t2, t3, r1, r2, p1, p2

\* Users, addresses, tokens and requests are interchangeable.
Symmetry == Permutations(Users) \union Permutations(Emails)
              \union Permutations(Tokens) \union Permutations(Requests)
=============================================================================
