--------------------------- MODULE MCSessionStart ---------------------------
(* Instance of SessionStart for TLC. *)
EXTENDS SessionStart, TLC

CONSTANTS i1, s1

ContentOf == s1 :> {i1}
LimitsOf == {[batch |-> 2, new |-> 1]}
=============================================================================
