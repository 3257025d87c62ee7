-------------------------- MODULE AnswerEvaluator --------------------------
(***************************************************************************)
(* What an answer is worth (answer_evaluator.py): the typed text and the   *)
(* expected one are normalised and compared by edit distance, and a right  *)
(* answer is rated by its time, unless the user rates it.                  *)
(*                                                                         *)
(* A text is a sequence of characters, a similarity a fraction, a time is  *)
(* in milliseconds and a ratio in 1/100.                                   *)
(***************************************************************************)
EXTENDS Integers, Sequences, SequencesExt, FiniteSetsExt

CONSTANTS
    Base,           \* the plain form of capitals and accented letters
    Punctuation     \* what is neither a letter, a digit, a space nor '

Space == " "

TMax            == 10000
DefaultExpected == 3000
FastThreshold     == 80
VerySlowThreshold == 150
ShortWordMaxLen == 4
Threshold == [strict |-> 95, normal |-> 90, forgiving |-> 80]

Max2(x, y) == IF x >= y THEN x ELSE y

-----------------------------------------------------------------------------
(***************************************************************************)
(* normalise.  Punctuation goes after the spaces were collapsed, so that   *)
(* two of them are left where a dash stood between.                        *)
(***************************************************************************)
Strip(text) ==
    LET inked == {n \in DOMAIN text : text[n] # Space}
    IN  IF inked = {} THEN <<>> ELSE SubSeq(text, Min(inked), Max(inked))

Collapse(text) ==
    LET Add(done, c) ==
            IF c = Space /\ (done = <<>> \/ Last(done) = Space)
              THEN done ELSE Append(done, c)
    IN  FoldLeft(Add, <<>>, text)

\* re.sub with an empty text for what is in S.
Dropping(seq, S) ==
    FoldLeft(LAMBDA kept, x : IF x \in S THEN kept ELSE Append(kept, x),
             <<>>, seq)

Plain(c) == IF c \in DOMAIN Base THEN Base[c] ELSE c

Normalise(text) ==
    LET kept == Dropping(Collapse(Strip(text)), Punctuation)
    IN  Strip([n \in DOMAIN kept |-> Plain(kept[n])])

-----------------------------------------------------------------------------
(***************************************************************************)
(* levenshtein_similarity: row by row, the longer text downwards.  A row   *)
(* has the distances of a prefix of a from all prefixes of b, the longest  *)
(* prefix first.                                                           *)
(***************************************************************************)
\* Mutant: an insertion is not considered.
RowWithoutInsertion(a, b, i, prev) ==
    LET Cell(row, j) ==
            LET above    == prev[Len(b) + 1 - j]
                diagonal == prev[Len(b) + 2 - j]
            IN  <<IF a[i] = b[j] THEN diagonal
                  ELSE 1 + Min({above, diagonal})>> \o row
    IN  FoldLeft(Cell, <<i>>, [j \in DOMAIN b |-> j])

NextRow(a, b, i, prev) ==
    LET Cell(row, j) ==
            LET above    == prev[Len(b) + 1 - j]
                diagonal == prev[Len(b) + 2 - j]
            IN  <<IF a[i] = b[j] THEN diagonal
                  ELSE 1 + Min({above, diagonal, Head(row)})>> \o row
    IN  FoldLeft(Cell, <<i>>, [j \in DOMAIN b |-> j])

Distance(a, b) ==
    LET Row(prev, i) == NextRow(a, b, i, prev)
    IN  Head(FoldLeft(Row, [j \in 1..(Len(b) + 1) |-> Len(b) + 1 - j],
                      [i \in DOMAIN a |-> i]))

\* The share of the longer text that is kept, as <<kept, all>>.
Similarity(s, t) ==
    LET a == IF Len(s) < Len(t) THEN t ELSE s
        b == IF Len(s) < Len(t) THEN s ELSE t
    IN  IF a = b THEN <<1, 1>>
        ELSE IF b = <<>> THEN <<0, 1>>
        ELSE <<Len(a) - Distance(a, b), Len(a)>>

-----------------------------------------------------------------------------
(***************************************************************************)
(* evaluate and map_quality.                                               *)
(***************************************************************************)
\* Short words have to match.
Correct(given, wanted, mode) ==
    LET user    == Normalise(given)
        correct == Normalise(wanted)
        share   == Similarity(user, correct)
    IN  IF Len(correct) <= ShortWordMaxLen
          THEN user = correct
          ELSE 100 * share[1] >= Threshold[mode] * share[2]

\* Mutant: the ratio is upside down.
SpeedInverted(ms, expected) ==
    CASE 100 * expected < FastThreshold * ms -> 5
      [] 100 * expected > VerySlowThreshold * ms -> 3
      [] OTHER -> 4

\* The speed-based quality: 5 fast, 4 normal, 3 slow.  Time beyond TMax does
\* not count; nothing is expected of an average of zero.
SpeedQuality(ms, expected) ==
    LET capped == IF ms > TMax THEN TMax ELSE ms
    IN  IF expected <= 0 THEN 4
        ELSE IF 100 * capped < FastThreshold * expected THEN 5
        ELSE IF 100 * capped <= VerySlowThreshold * expected THEN 4
        ELSE 3

\* A confidence of 0 stands for no override.
MapQuality(correct, speed, confidence) ==
    CASE ~correct \/ confidence = 1 -> 1
      [] correct /\ confidence = 2 -> 3
      [] correct /\ confidence = 4 -> Max2(4, speed)
      [] correct /\ confidence = 5 -> 5
      [] OTHER -> speed

-----------------------------------------------------------------------------
(***************************************************************************)
(* The reference: k insertions, deletions and substitutions, or fewer,     *)
(* make t of s.                                                            *)
(***************************************************************************)
WithinEdits(k, s, t) ==
    LET Within[c \in (0..k) \X (0..Len(s)) \X (0..Len(t))] ==
            LET e == c[1]
                i == c[2]
                j == c[3]
            IN  \/ i = 0 /\ j <= e
                \/ j = 0 /\ i <= e
                \/ i > 0 /\ j > 0 /\ s[i] = t[j] /\ Within[<<e, i - 1, j - 1>>]
                \/ e > 0 /\ i > 0 /\ j > 0 /\ \/ Within[<<e - 1, i - 1, j>>]
                                              \/ Within[<<e - 1, i, j - 1>>]
                                              \/ Within[<<e - 1, i - 1, j - 1>>]
    IN  Within[<<k, Len(s), Len(t)>>]
=============================================================================
