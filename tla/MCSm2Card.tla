----------------------------- MODULE MCSm2Card -----------------------------
(***************************************************************************)
(* Instance of Sm2Card for TLC.  The texts have words of four, five and    *)
(* ten letters, and what may be typed for them: capitals, spaces, a dash,  *)
(* a letter missing, added or wrong, two of each, or nothing.              *)
(***************************************************************************)
EXTENDS Sm2Card

MCBase == [c \in {"A", "B", "a'"} |-> IF c = "B" THEN "b" ELSE "a"]
MCPunctuation == {"-", "."}

Short == <<"a", "b", "b", "a">>
Five  == <<"a", "b", "c", "a", "b">>
Ten   == Five \o <<"d", "a", "b", "c", "d">>
Two   == <<"a", "b", "c", " ", "-", " ", "d">>

Dropped(w, n)     == SubSeq(w, 1, n - 1) \o SubSeq(w, n + 1, Len(w))
Added(w, n, c)    == SubSeq(w, 1, n) \o <<c>> \o SubSeq(w, n + 1, Len(w))
Typed(w, n, c)    == [w EXCEPT ![n] = c]

Attempts(w) ==
    {w, <<>>, <<" ">> \o w \o <<".">>, Typed(w, 1, "A"), Typed(w, 1, "a'"),
     Typed(w, 2, "d"), Dropped(w, 2), Dropped(w, Len(w)), Added(w, 2, "d"),
     Added(Dropped(w, 2), 3, "d"), Typed(Dropped(w, 2), 2, "d"),
     Added(Added(w, 2, "d"), 4, " "), Added(w, 3, "-")}

MCExchanges ==
    UNION {{[given |-> g, wanted |-> w] : g \in Attempts(w)} :
             w \in {Short, Five, Ten, Two}}

\* Nothing reads last.
WithoutLast == <<card, reviewed, due, times, slowest, failed, recalled, streak,
                 count>>
=============================================================================
