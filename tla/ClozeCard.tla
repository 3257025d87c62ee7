----------------------------- MODULE ClozeCard -----------------------------
(***************************************************************************)
(* How a card gets its gap: the cards that a note of a deck makes          *)
(* (anki_parser.py), the form of the term that the sentence has            *)
(* (morphology.py), and the split of the sentence when the card is         *)
(* practised (_split_cloze of practice_repo.py).                           *)
(*                                                                         *)
(* A text is a sequence of symbols: characters, and the marks of a cloze   *)
(* tag, each as one symbol.  HTML is left out.                             *)
(***************************************************************************)
EXTENDS AnswerEvaluator

CONSTANTS
    Letters,        \* what \w matches
    LowerOf,        \* capital letters to small ones
    Irregular,      \* _IRREGULAR: some words to their irregular forms
    Opening         \* the symbols {{c1::, {{c2::, ... to their numbers

\* A capital is a letter, and has the normal form of the small one.
ASSUME CharacterAssumption ==
    /\ Space \notin Letters
    /\ \A c \in DOMAIN LowerOf :
          /\ {c, LowerOf[c]} \subseteq Letters \ Punctuation
          /\ Plain(LowerOf[c]) = Plain(c)

Brace   == "{{"
Close   == "}}"
HintSep == "::"
Colon   == ":"
Vowels  == {"a", "e", "i", "o", "u"}

Lower(t) == [n \in DOMAIN t |-> IF t[n] \in DOMAIN LowerOf THEN LowerOf[t[n]]
                                                           ELSE t[n]]

\* \b after the n-th symbol.
IsLetter(t, n) == n \in DOMAIN t /\ t[n] \in Letters
Boundary(t, n) == IsLetter(t, n) # IsLetter(t, n + 1)

\* Where w occurs in t as \b w \b.
Occurrences(w, t) ==
    {n \in 1..(Len(t) - Len(w) + 1) :
        /\ SubSeq(t, n, n + Len(w) - 1) = w
        /\ Boundary(t, n - 1) /\ Boundary(t, n + Len(w) - 1)}

-----------------------------------------------------------------------------
(***************************************************************************)
(* find_surface_form: the first word of the sentence that is a form of the *)
(* term.                                                                   *)
(***************************************************************************)
EndsIn(w, suffix) ==
    Len(w) >= Len(suffix)
        /\ SubSeq(w, Len(w) - Len(suffix) + 1, Len(w)) = suffix
Without(w, n) == SubSeq(w, 1, Len(w) - n)

Rule(suffix, over, by) == [suffix |-> suffix, over |-> over, by |-> by]
Ing == <<"i", "n", "g">>
Ed  == <<"e", "d">>
Rules ==
    {Rule(Ing, 5, <<>>), Rule(Ing, 5, <<"e">>),
     Rule(Ed, 4, <<>>), Rule(Ed, 4, <<"e">>),
     Rule(<<"i", "e", "d">>, 4, <<"y">>), Rule(<<"i", "e", "s">>, 4, <<"y">>),
     Rule(<<"v", "e", "s">>, 4, <<"f">>), Rule(<<"e", "s">>, 3, <<>>),
     Rule(<<"s">>, 2, <<>>), Rule(<<"e", "r">>, 3, <<>>),
     Rule(<<"e", "s", "t">>, 4, <<>>)}

Applies(r, w) == EndsIn(w, r.suffix) /\ Len(w) > r.over

\* A consonant doubled before ing or ed: running, stopped.
Doubled(stem) ==
    /\ Len(stem) >= 2
    /\ Last(stem) = stem[Len(stem) - 1]
    /\ Last(stem) \notin Vowels

CandidateBases(w) ==
    LET rules == {r \in Rules : Applies(r, w)}
        stems == {Without(w, Len(r.suffix)) :
                    r \in {q \in rules : q.suffix \in {Ing, Ed}}}
    IN  {w} \union {Without(w, Len(r.suffix)) \o r.by : r \in rules}
            \union {Without(s, 1) : s \in {u \in stems : Doubled(u)}}

IrregularForms(term) ==
    IF term \in DOMAIN Irregular THEN Irregular[term] ELSE {}

IsFormOf(word, term) ==
    \/ word = term
    \/ word \in IrregularForms(term)
    \/ term \in CandidateBases(word)

\* The words of a text, by their first and last symbols.
Words(t) ==
    {mn \in (DOMAIN t) \X (DOMAIN t) :
        /\ mn[1] <= mn[2]
        /\ \A n \in mn[1]..mn[2] : IsLetter(t, n)
        /\ ~IsLetter(t, mn[1] - 1) /\ ~IsLetter(t, mn[2] + 1)}

\* No form is the empty text.
FindSurface(term, context) ==
    LET wanted == Lower(Strip(term))
        forms  == {mn \in Words(context) :
                     IsFormOf(Lower(SubSeq(context, mn[1], mn[2])), wanted)}
        first  == CHOOSE mn \in forms : \A other \in forms : mn[1] <= other[1]
    IN  IF term = <<>> \/ forms = {} THEN <<>>
        ELSE SubSeq(context, first[1], first[2])

-----------------------------------------------------------------------------
(***************************************************************************)
(* _extract_cards: a note is a card, or one for each number of its cloze   *)
(* tags.                                                                   *)
(***************************************************************************)
\* _CLOZE_TAG_RE: {{c1::text}} or {{c1::text::hint}}, no colon in the text.
Tags(t) ==
    {tag \in [open : DOMAIN t, stop : DOMAIN t, close : DOMAIN t] :
        /\ t[tag.open] \in DOMAIN Opening
        /\ tag.open + 1 < tag.stop /\ tag.stop <= tag.close
        /\ t[tag.close] = Close
        /\ \A n \in (tag.open + 1)..(tag.stop - 1) :
              t[n] \notin {Colon, HintSep, Close} \union DOMAIN Opening
        /\ \/ tag.stop = tag.close
           \/ t[tag.stop] = HintSep
        /\ \A n \in tag.stop..(tag.close - 1) : t[n] # Close}

Inside(t, tag) == Strip(SubSeq(t, tag.open + 1, tag.stop - 1))

\* _strip_cloze_markup.
StripMarkup(t) ==
    LET dropped == UNION {{tag.open} \union tag.stop..tag.close : tag \in Tags(t)}
        kept    == Dropping([n \in DOMAIN t |-> n], dropped)
    IN  [k \in DOMAIN kept |-> t[kept[k]]]

\* The first tag of each number that has a text.
ClozeCards(t) ==
    LET texts    == {tag \in Tags(t) : Inside(t, tag) # <<>>}
        firsts   == {tag \in texts : \A other \in texts :
                       Opening[t[other.open]] = Opening[t[tag.open]]
                           => tag.open <= other.open}
        opens    == {tag.open : tag \in firsts}
        order    == Dropping([n \in DOMAIN t |-> n], (DOMAIN t) \ opens)
        clean    == Strip(StripMarkup(t))
        Card(n)  == LET tag  == CHOOSE tag \in firsts : tag.open = n
                        term == Inside(t, tag)
                    IN  [term |-> term,
                         context |-> IF clean = term THEN <<>> ELSE clean]
    IN  [k \in DOMAIN order |-> Card(order[k])]

IsCloze(note) ==
    note.type = "cloze" \/ ToSet(note.term) \intersect DOMAIN Opening # {}

CardsOf(notes) ==
    FlattenSeq([k \in DOMAIN notes |->
        IF IsCloze(notes[k]) THEN ClozeCards(notes[k].term)
        ELSE <<[term    |-> Strip(notes[k].term),
                context |-> Strip(notes[k].context)]>>])

-----------------------------------------------------------------------------
(***************************************************************************)
(* _split_cloze: the gap is what is marked, else the first occurrence of   *)
(* the term in any case.  A tag left in the sentence is a mark; its number *)
(* is part of the word.                                                    *)
(***************************************************************************)
Marks(t) ==
    {mn \in (DOMAIN t) \X (DOMAIN t) :
        /\ t[mn[1]] \in {Brace} \union DOMAIN Opening
        /\ mn[1] + 1 < mn[2]
        /\ t[mn[2]] = Close}

Gap(t, m, n) == [before |-> SubSeq(t, 1, m - 1), word |-> SubSeq(t, m, n),
                 after |-> SubSeq(t, n + 1, Len(t))]
NoGap == [before |-> <<>>, word |-> <<>>, after |-> <<>>]

SplitCloze(context, term) ==
    LET marks == Marks(context)
        found == Occurrences(Lower(term), Lower(context))
    IN  IF context = <<>> \/ term = <<>> THEN NoGap
        ELSE IF marks # {}
          THEN LET m == Min({mn[1] : mn \in marks})
                   n == Min({mn[2] : mn \in {k \in marks : k[1] = m}})
               IN  Gap(context, m, n)
        ELSE IF found = {} THEN NoGap
        ELSE Gap(context, Min(found), Min(found) + Len(term) - 1)
=============================================================================
