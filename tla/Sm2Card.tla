------------------------------ MODULE Sm2Card ------------------------------
(***************************************************************************)
(* The schedule of one card of one user: the SM-2 fields of a              *)
(* user_progress row and what each processed answer does to them.          *)
(*                                                                         *)
(* Sources: services/sm2_engine.py and the part of ProgressUpdater that    *)
(* handles an event: expected response times, quality, schedule.           *)
(*                                                                         *)
(* Ease factors are counted in 1/Unit and scale factors in 1/100.  The     *)
(* code computes intervals in binary floating point: where that can land   *)
(* on either side of a boundary the model allows both results.             *)
(***************************************************************************)
EXTENDS AnswerEvaluator

CONSTANTS
    Intensities,    \* review_intensity of the learning intensities, in 1/100
    Absences,       \* lengths of absence considered (see DecayRate)
    Confidences,    \* confidence_override values considered, 0 for none
    Exchanges,      \* [given, wanted]: what was typed and what was asked for
    Modes,          \* evaluation modes considered
    Times,          \* response times considered
    Fallbacks,      \* averages over other words or other users
    MaxDays,        \* days between now and datetime.max
    MaxReviews      \* bound on the number of answers in a behaviour

ASSUME CardAssumption ==
    /\ Intensities \subseteq Nat \ {0}
    /\ Absences \subseteq {"recent", "to90", "to180", "longer"}
    /\ Confidences \subseteq 0..5
    /\ \A x \in Exchanges : x.given \in Seq(STRING) /\ x.wanted \in Seq(STRING)
    /\ Modes \subseteq DOMAIN Threshold
    /\ Times \subseteq Nat
    /\ Fallbacks \subseteq Nat
    /\ MaxDays \in Nat \ {0}
    /\ MaxReviews \in Nat

VARIABLES
    card,       \* SM2State: interval (days), ef, reps, lapses
    reviewed,   \* last_reviewed is set
    due,        \* hours from the last answer to next_review
    last,       \* the last answer: its quality and what it was scaled by
    times,      \* the card's reviews: how many, and their response times added
    slowest,    \* history: the longest of these
    failed,     \* an answer could not be processed
    recalled,   \* history: the card has been recalled at least once
    streak,     \* history: consecutive recalls since the last lapse
    count       \* answers so far

vars == <<card, reviewed, due, last, times, slowest, failed, recalled, streak,
          count>>

Unit      == 1000
MinEF     == 1300
MaxEF     == 5000
InitialEF == 2500
MatureDays == 3
LapseFactor == 33
SlowFactor  == 75

Min2(x, y) == IF x <= y THEN x ELSE y

SM2State == [interval : Nat, ef : MinEF..MaxEF, reps : Nat, lapses : Nat]

-----------------------------------------------------------------------------
\* apply_absence_decay_for_days; the result is rounded down to 1/Unit.
DecayRate(absence) ==
    CASE absence = "to90" -> 98
      [] absence = "to180" -> 95
      [] absence = "longer" -> 90
      [] OTHER -> 100

Decayed(ef, absence) ==
    IF absence = "recent" THEN ef
    ELSE Max2(MinEF, (ef * DecayRate(absence)) \div 100)

UpdateEf(ef, q) ==
    LET d == 5 - q
    IN Max2(MinEF, Min2(ef + (100 - d * (80 + d * 20)), MaxEF))

SecondInterval(ef) == IF ef >= 3500 THEN 10 ELSE IF ef >= 2500 THEN 6 ELSE 4

-----------------------------------------------------------------------------
(***************************************************************************)
(* Rounding.  round() of n/d is the nearest integer; a tie goes to the     *)
(* even one, or to either when the factor (1.3, 0.33) is not a binary      *)
(* fraction.  int() truncates, and a product whose exact value is whole    *)
(* may come out just below it: int(100 * 2.3) is 229.                      *)
(***************************************************************************)
Nearest(n, d) ==
    {k \in {n \div d, n \div d + 1} :
        2 * n - d <= 2 * k * d /\ 2 * k * d <= 2 * n + d}

Truncated(n) ==
    IF n % Unit = 0 /\ n # 0 THEN {n \div Unit - 1, n \div Unit}
                             ELSE {n \div Unit}

Card(interval, ef, reps, lapses) ==
    [interval |-> interval, ef |-> ef, reps |-> reps, lapses |-> lapses]

initial_state == Card(0, InitialEF, 0, 0)

\* Mutant: a young card is shown again today and keeps its repetitions.
LapsedToday(c, ef) == {Card(0, ef, c.reps, c.lapses + 1)}

\* Mutant: a week is the shortest recovery.
LapsedWeek(c, ef) ==
    IF c.reps = 0
      THEN {Card(0, ef, 0, c.lapses + 1)}
      ELSE {Card(Max2(7, days), ef, 1, c.lapses + 1) :
              days \in Nearest(c.interval * LapseFactor, 100)}

\* Mutant: each lapse costs ease, as in the original SM-2, without a floor.
LapsedEases(c, ef) ==
    {Card(IF c.reps = 0 THEN 0 ELSE 1, ef - 540, 0, c.lapses + 1)}

(***************************************************************************)
(* _handle_lapse: never recalled, young, mature.                           *)
(***************************************************************************)
Lapsed(c, ef) ==
    IF c.reps = 0
      THEN {Card(0, ef, 0, c.lapses + 1)}
    ELSE IF c.interval <= MatureDays
      THEN {Card(1, ef, 0, c.lapses + 1)}
    ELSE {Card(Max2(1, days), ef, 1, c.lapses + 1) :
            days \in Nearest(c.interval * LapseFactor, 100)}

(***************************************************************************)
(* _handle_success.  A slow answer counts as normal for the ease factor    *)
(* and shortens the interval of this cycle.                                *)
(***************************************************************************)
\* Mutant: the table is used for the third repetition as well.
RawIntervalTwice(c, ef) ==
    CASE c.reps = 0 -> {1}
      [] c.reps \in {1, 2} -> {SecondInterval(ef)}
      [] OTHER -> Truncated(c.interval * ef)

RawInterval(c, ef) ==
    CASE c.reps = 0 -> {1}
      [] c.reps = 1 -> {SecondInterval(ef)}
      [] OTHER -> Truncated(c.interval * ef)

Recalled(c, ef, q, intensity) ==
    LET newEf == UpdateEf(ef, Max2(4, q))
        slow  == IF q = 3 THEN SlowFactor ELSE 100
    IN {Card(Max2(1, days), newEf, c.reps + 1, c.lapses) :
          days \in UNION {Nearest(raw * slow * intensity, 10000) :
                            raw \in RawInterval(c, newEf)}}

Update(c, ef, q, intensity) ==
    IF q < 3 THEN Lapsed(c, ef) ELSE Recalled(c, ef, q, intensity)

DueHours(c, q) == IF q < 3 /\ c.interval = 0 THEN 1 ELSE 24 * c.interval

-----------------------------------------------------------------------------
Init ==
    /\ card = initial_state
    /\ reviewed = FALSE
    /\ due = 0
    /\ last = [q |-> 0, intensity |-> 100, absence |-> "recent",
               ms |-> 0, correct |-> FALSE, timed |-> FALSE]
    /\ times = [n |-> 0, total |-> 0]
    /\ slowest = 0
    /\ failed = FALSE
    /\ recalled = FALSE
    /\ streak = 0
    /\ count = 0

\* _bulk_expected_times: the average over the card's reviews of the times as
\* they were sent, rounded down; without any, that of its part of speech or of
\* all users, or the default.
ExpectedTimes ==
    IF times.n > 0 THEN {times.total \div times.n}
                   ELSE Fallbacks \union {DefaultExpected}

\* A review is stored with the schedule.
Record(ms) ==
    /\ times' = [n |-> times.n + 1, total |-> times.total + ms]
    /\ slowest' = Max2(slowest, ms)

\* One event of a batch.  A card never reviewed has no absence to decay for.
\* A date past datetime.max raises OverflowError and the batch is rolled back.
Review(correct, ms, speed, confidence, intensity, absence) ==
    LET q == MapQuality(correct, speed, confidence)
        gap == IF reviewed THEN absence ELSE "recent"
    IN /\ count < MaxReviews
       /\ count' = count + 1
       /\ last' = [q |-> q, intensity |-> intensity, absence |-> gap, ms |-> ms,
                   correct |-> correct, timed |-> correct /\ confidence = 0]
       /\ \E c \in Update(card, Decayed(card.ef, gap), q, intensity) :
             \/ /\ c.interval <= MaxDays
                /\ card' = c
                /\ due' = DueHours(c, q)
                /\ reviewed' = TRUE
                /\ recalled' = (recalled \/ q >= 3)
                /\ streak' = IF q >= 3 THEN streak + 1 ELSE 0
                /\ Record(ms)
                /\ UNCHANGED failed
             \/ /\ c.interval > MaxDays
                /\ failed' = TRUE
                /\ UNCHANGED <<card, due, reviewed, recalled, streak, times, slowest>>

\* The verdict is given when the answer is submitted, the rest at the end.
Judged ==
    {[texts |-> x, mode |-> m, correct |-> Correct(x.given, x.wanted, m)] :
        x \in Exchanges, m \in Modes}
Verdicts == {j.correct : j \in Judged}

Next ==
    \E correct \in Verdicts, ms \in Times, expected \in ExpectedTimes,
       confidence \in Confidences, intensity \in Intensities,
       absence \in Absences :
          Review(correct, ms, SpeedQuality(ms, expected), confidence, intensity,
                 absence)

Spec == Init /\ [][Next]_vars

-----------------------------------------------------------------------------
(***************************************************************************)
(* Properties.                                                             *)
(***************************************************************************)
\* The ranges _handle_lapse and _handle_success promise in SM2State.
CardTypeOK ==
    /\ card \in SM2State
    /\ reviewed \in BOOLEAN
    /\ due \in Nat
    /\ streak \in Nat
    /\ recalled \in BOOLEAN
    /\ failed \in BOOLEAN
    /\ times \in [n : Nat, total : Nat]
    /\ slowest \in Nat
    /\ count \in Nat

\* A card with a recall to its credit is scheduled in whole days, so that the
\* multiplication by the ease factor never starts from zero; and a card kept
\* for more than MatureDays always has such a recall.
LearntHasInterval ==
    /\ card.reps >= 1 => card.interval >= 1
    /\ card.interval > MatureDays => card.reps >= 1

\* repetitions counts the recalls since the last lapse, plus the one the lapse
\* of a mature card is credited with; and the first interval is always a day.
RepsCountStreak ==
    /\ card.reps - streak \in {0, 1}
    /\ card.reps = streak + 1 => recalled /\ card.lapses > 0

\* A lapse never puts the next review further away than the last one was,
\* unless to one day.
LapseShortens ==
    [][last'.q < 3 /\ failed' = failed => due' <= Max2(24, due)]_vars

\* From the third repetition a normal or fast recall at balanced or light
\* intensity never shortens the interval, floating point included.
LaterRecallsGrow ==
    [][(last'.q >= 4 /\ last'.intensity >= 100 /\ card.reps >= 2)
         => card'.interval >= card.interval]_vars

\* Only an absence lowers the ease factor: failures and slow answers do not.
EaseKept ==
    [][card'.ef < card.ef => last'.absence # "recent" /\ reviewed]_vars

\* A long word may be missed by as many edits as the mode allows for its
\* length, a short one by none: the rows of levenshtein_similarity, with the
\* texts swapped and the shortcut for equal letters, find the least number.
Allowed(x, m) ==
    LET user    == Normalise(x.given)
        correct == Normalise(x.wanted)
    IN  IF Len(correct) <= ShortWordMaxLen
          THEN user = correct
          ELSE WithinEdits(((100 - Threshold[m]) * Max2(Len(user), Len(correct)))
                             \div 100, user, correct)

Misjudged == {j \in Judged : j.correct # Allowed(j.texts, j.mode)}

JudgedByEdits ==
    [][count' > count => \A j \in Misjudged : last'.correct # j.correct]_vars

\* An answer that took at least as long as every one before it is not rated
\* fast, unless the average has times in it that do not count.
SlowestIsNotFast ==
    [][(/\ last'.timed /\ failed' = failed
        /\ times.n > 0 /\ last'.ms >= slowest /\ slowest <= TMax)
         => last'.q # 5]_vars

=============================================================================
