-------------------------- MODULE MCContentImport --------------------------
(***************************************************************************)
(* Instance of ContentImport for TLC: an import of each of two users.  The *)
(* deck has a regular and an irregular form, a term that its sentence does *)
(* not have, a cloze tag that stands alone, and a cloze note that is the   *)
(* first card in capitals; the bundle has two of the cards the other way   *)
(* round.  No two texts of a deck have the same hash.                     *)
(***************************************************************************)
EXTENDS ContentImport, TLC

CONSTANTS r1, r2, u1, u2, h1, h2, d1, d2

MCUserOf == r1 :> u1 @@ r2 :> u2

MCLetters == {"a", "b", "e", "d", "g", "n", "o", "p", "s", "t", "w", "i", "B", "I"}
MCLowerOf == "B" :> "b" @@ "I" :> "i"
MCBase    == MCLowerOf
MCPunctuation == {"."}
Go   == <<"g", "o">>
Went == <<"w", "e", "n", "t">>
MCIrregular == Go :> {Went, <<"g", "o", "n", "e">>}
MCOpening   == "{{c1::" :> 1 @@ "{{c2::" :> 2

Beg     == <<"b", "e", "g">>
Begged  == <<"b", "e", "g", "g", "e", "d">>
BEGGED  == <<"B">> \o Tail(Begged)
Asking(word) == <<"I", " ">> \o word \o <<".">>
Walking == Begged \o <<" ">> \o Went

Basic(term, context) == [type |-> "basic", term |-> term, context |-> context]
Cloze(term) == [type |-> "cloze", term |-> term, context |-> <<>>]

MCNotesOf ==
    d1 :> <<Basic(Beg, Asking(Begged)),
            Basic(<<"o", "n">>, Asking(Went)),
            Cloze(<<"{{c1::">> \o Went \o <<"}}">>),
            Basic(Go, Walking),
            Cloze(<<"I", " ", "{{c2::">> \o BEGGED
                  \o <<"::", "t", "o", "}}", ".">>)>>
MCCardsIn ==
    d2 :> <<[term |-> Went, context |-> Walking],
            [term |-> Begged, context |-> Asking(Begged)]>>

MCDigest ==
    <<Went, Walking>> :> h1 @@
    <<Begged, Fold(Asking(Begged))>> :> h2 @@
    <<Go, Walking>> :> h1 @@
    <<Beg, Fold(Asking(Begged))>> :> h2

\* The users and their requests are alike, too.
Swapped == r1 :> r2 @@ r2 :> r1 @@ u1 :> u2 @@ u2 :> u1
Symmetry == Permutations(Items) \union Permutations(Sets) \union {Swapped}
=============================================================================
