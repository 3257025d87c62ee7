------------------------- MODULE MCPracticeSession -------------------------
(***************************************************************************)
(* Instances of PracticeSession for TLC: two items, at most three answers, *)
(* two processes of a kind.                                                *)
(***************************************************************************)
EXTENDS PracticeSession

CONSTANTS i1, i2, a1, b1, a2, s1, s2, f1, f2, w1, w2

\* Two answers to the first item (the same card answered again, with a fresh
\* answer_id) and one to the second.
MCItemOf == [a \in Answers |-> IF a = a2 THEN i2 ELSE i1]

\* A session over both items; or over one, the other one unpractised so far,
\* so that a reconstruction may add it to the order.
MCBatches == {<<i1, i2>>, <<i2>>}
=============================================================================
