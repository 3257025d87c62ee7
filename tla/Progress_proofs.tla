-------------------------- MODULE Progress_proofs --------------------------
(***************************************************************************)
(* Theorems about what finalising a session does to a user's progress:     *)
(* the schedule of a card (Sm2Card) and the statistics (StudyStats), for   *)
(* every set of intensities, absences, confidences, items, languages and   *)
(* sessions, and every bound.                                              *)
(***************************************************************************)
EXTENDS Sm2Card, StudyStats, AnswerEvaluator_proofs, FiniteSetTheorems, TLAPS

\* map_quality returns a quality the scheduler accepts.
LEMMA QualityRange ==
    ASSUME NEW correct \in BOOLEAN, NEW speed \in 3..5, NEW confidence \in 0..5
    PROVE  MapQuality(correct, speed, confidence) \in {1, 3, 4, 5}
  BY DEF MapQuality, Max2

\* The speed-based quality is one of the three grades of a right answer.
LEMMA SpeedRange ==
    ASSUME NEW ms, NEW expected
    PROVE  SpeedQuality(ms, expected) \in 3..5
  BY DEF SpeedQuality

\* evaluate says right or wrong.
LEMMA VerdictRange == Verdicts \subseteq BOOLEAN
  <1>1. ASSUME NEW x, NEW m
        PROVE  Correct(x.given, x.wanted, m) \in BOOLEAN
    <2> DEFINE user    == Normalise(x.given)
               correct == Normalise(x.wanted)
               share   == Similarity(user, correct)
               right   == 100 * share[1] >= Threshold[m] * share[2]
               same    == user = correct
               short   == Len(correct) <= ShortWordMaxLen
    <2>1. Correct(x.given, x.wanted, m) = IF short THEN same ELSE right
      BY DEF Correct
    <2>2. same \in BOOLEAN
      OBVIOUS
    <2>3. right \in BOOLEAN
      OBVIOUS
    <2> HIDE DEF short, same, right
    <2> QED
      BY <2>1, <2>2, <2>3
  <1> QED
    BY <1>1 DEF Verdicts, Judged

\* round() of a positive quotient is an integer within half of it.
LEMMA NearestRange ==
    ASSUME NEW n \in Nat, NEW d \in Nat \ {0}, NEW k \in Nearest(n, d)
    PROVE  k \in Nat /\ 2 * k * d <= 2 * n + d /\ 2 * n - d <= 2 * k * d
  BY DEF Nearest

\* The decay for a long absence keeps the ease factor in its range and never
\* raises it.
LEMMA DecayedRange ==
    ASSUME NEW ef \in MinEF..MaxEF, NEW absence
    PROVE  /\ Decayed(ef, absence) \in MinEF..MaxEF
           /\ Decayed(ef, absence) <= ef
           /\ absence = "recent" => Decayed(ef, absence) = ef
  <1>1. DecayRate(absence) \in {90, 95, 98, 100}
    BY DEF DecayRate
  <1>2. \A r \in {90, 95, 98, 100} :
           /\ (ef * r) \div 100 \in Int
           /\ (ef * r) \div 100 <= ef
    BY DEF MinEF, MaxEF
  <1>3. CASE absence = "recent"
    BY <1>3 DEF Decayed
  <1>4. CASE absence # "recent"
    <2> DEFINE cut == (ef * DecayRate(absence)) \div 100
    <2>1. cut \in Int /\ cut <= ef
      BY <1>1, <1>2
    <2>2. Decayed(ef, absence) = Max2(MinEF, cut)
      BY <1>4 DEF Decayed
    <2> HIDE DEF cut
    <2> QED
      BY <1>4, <2>1, <2>2 DEF Max2, MinEF, MaxEF
  <1> QED
    BY <1>3, <1>4

LEMMA EaseIsInt == \A e \in MinEF..MaxEF : e \in Int
  BY DEF MinEF, MaxEF

\* Normal and fast answers keep or raise the ease factor, within its range.
LEMMA UpdateEfRange ==
    ASSUME NEW ef \in MinEF..MaxEF, NEW q \in {4, 5}
    PROVE  UpdateEf(ef, q) \in MinEF..MaxEF /\ UpdateEf(ef, q) >= ef
  <1>1. ef \in Int /\ 1300 <= ef /\ ef <= 5000
    BY DEF MinEF, MaxEF
  <1>2. CASE q = 4
    <2>1. UpdateEf(ef, q) = Max2(1300, Min2(ef, 5000))
      BY <1>1, <1>2 DEF UpdateEf, MinEF, MaxEF
    <2> QED
      BY <1>1, <2>1 DEF Max2, Min2, MinEF, MaxEF
  <1>3. CASE q = 5
    <2>1. UpdateEf(ef, q) = Max2(1300, Min2(ef + 100, 5000))
      BY <1>1, <1>3 DEF UpdateEf, MinEF, MaxEF
    <2> QED
      BY <1>1, <2>1 DEF Max2, Min2, MinEF, MaxEF
  <1> QED
    BY <1>2, <1>3

\* The truncated product is a natural number.
LEMMA TruncatedRange ==
    ASSUME NEW n \in Nat, NEW k \in Truncated(n)
    PROVE  k \in Nat
  BY DEF Truncated, Unit

-----------------------------------------------------------------------------
(***************************************************************************)
(* The card after an answer.  Half of a positive interval may round to 0:  *)
(* it is the max(1, ...) of both paths that keeps learnt cards in days.    *)
(***************************************************************************)
Good(c) ==
    /\ c \in SM2State
    /\ c.reps >= 1 => c.interval >= 1
    /\ c.interval > MatureDays => c.reps >= 1

LEMMA CardFields ==
    ASSUME NEW i, NEW e, NEW r, NEW l
    PROVE  /\ Card(i, e, r, l).interval = i
           /\ Card(i, e, r, l).ef = e
           /\ Card(i, e, r, l).reps = r
           /\ Card(i, e, r, l).lapses = l
           /\ i \in Nat /\ e \in MinEF..MaxEF /\ r \in Nat /\ l \in Nat
                => Card(i, e, r, l) \in SM2State
  BY DEF Card, SM2State

LEMMA StateFields ==
    ASSUME NEW c \in SM2State
    PROVE  /\ c.interval \in Nat /\ c.ef \in MinEF..MaxEF
           /\ c.reps \in Nat /\ c.lapses \in Nat
  BY DEF SM2State

LEMMA LapsedGood ==
    ASSUME NEW c, Good(c), NEW ef \in MinEF..MaxEF, NEW n \in Lapsed(c, ef)
    PROVE  /\ Good(n)
           /\ n.ef = ef
           /\ n.lapses > 0
           /\ n.reps \in {0, 1}
           /\ n.reps = 1 => c.reps >= 1
           /\ n.interval <= Max2(1, c.interval)
  <1> USE DEF MatureDays
  <1>0. /\ c.interval \in Nat /\ c.reps \in Nat /\ c.lapses \in Nat
        /\ c.reps >= 1 => c.interval >= 1
    BY StateFields DEF Good
  <1>1. CASE c.reps = 0
    <2>1. n = Card(0, ef, 0, c.lapses + 1)
      BY <1>1 DEF Lapsed
    <2> QED
      BY <1>0, <1>1, <2>1, CardFields DEF Good, Max2
  <1>2. CASE c.reps # 0 /\ c.interval <= MatureDays
    <2>1. n = Card(1, ef, 0, c.lapses + 1)
      BY <1>2 DEF Lapsed
    <2> QED
      BY <1>0, <1>2, <2>1, CardFields DEF Good, Max2
  <1>3. CASE c.reps # 0 /\ c.interval > MatureDays
    <2>1. PICK days \in Nearest(c.interval * LapseFactor, 100) :
             n = Card(Max2(1, days), ef, 1, c.lapses + 1)
      BY <1>0, <1>3 DEF Lapsed
    <2>2. c.interval * LapseFactor \in Nat /\ c.interval * LapseFactor = 33 * c.interval
      BY <1>0 DEF LapseFactor
    <2>3. days \in Nat /\ 200 * days <= 66 * c.interval + 100
      BY <1>0, <2>2, NearestRange
    <2>4. /\ Max2(1, days) \in Nat
          /\ Max2(1, days) >= 1
          /\ Max2(1, days) <= Max2(1, c.interval)
      BY <1>0, <1>3, <2>3 DEF Max2
    <2> QED
      BY <1>0, <1>3, <2>1, <2>4, CardFields DEF Good
  <1> QED
    BY <1>0, <1>1, <1>2, <1>3

LEMMA RawRange ==
    ASSUME NEW c, Good(c), NEW ef \in MinEF..MaxEF, NEW raw \in RawInterval(c, ef)
    PROVE  raw \in Nat
  <1>0. c.interval \in Nat /\ c.reps \in Nat
    <2>1. c \in SM2State
      BY DEF Good
    <2> QED
      BY <2>1, StateFields
  <1>1. c.interval \in Nat /\ c.reps \in Nat /\ ef \in Nat
    BY <1>0 DEF MinEF, MaxEF
  <1>2. c.interval * ef \in Nat
    BY <1>1
  <1>3. \/ raw = 1
        \/ raw = SecondInterval(ef)
        \/ raw \in Truncated(c.interval * ef)
    BY DEF RawInterval
  <1> QED
    BY <1>2, <1>3, TruncatedRange DEF SecondInterval

LEMMA RecalledGood ==
    ASSUME NEW c, Good(c), NEW ef \in MinEF..MaxEF, NEW q \in {3, 4, 5},
           NEW intensity \in Nat \ {0}, NEW n \in Recalled(c, ef, q, intensity)
    PROVE  /\ Good(n)
           /\ n.ef >= ef
           /\ n.lapses = c.lapses
           /\ n.reps = c.reps + 1
           /\ n.interval >= 1
  <1> DEFINE newEf == UpdateEf(ef, Max2(4, q))
             slow  == IF q = 3 THEN SlowFactor ELSE 100
  <1>0. c.interval \in Nat /\ c.reps \in Nat /\ c.lapses \in Nat
    BY StateFields DEF Good
  <1>1. newEf \in MinEF..MaxEF /\ newEf >= ef
    <2>1. Max2(4, q) \in {4, 5}
      BY DEF Max2
    <2> QED
      BY <2>1, UpdateEfRange
  <1>2. slow \in {75, 100}
    BY DEF SlowFactor
  <1>3a. PICK raw \in RawInterval(c, newEf) :
            \E days \in Nearest(raw * slow * intensity, 10000) :
               n = Card(Max2(1, days), newEf, c.reps + 1, c.lapses)
    BY DEF Recalled
  <1>3. PICK days \in Nearest(raw * slow * intensity, 10000) :
           n = Card(Max2(1, days), newEf, c.reps + 1, c.lapses)
    BY <1>3a
  <1> HIDE DEF newEf, slow
  <1>4. raw \in Nat
    BY <1>1, RawRange
  <1>5. raw * slow * intensity \in Nat
    BY <1>2, <1>4
  <1>6. days \in Nat
    BY <1>5, NearestRange
  <1>7. Max2(1, days) \in Nat /\ Max2(1, days) >= 1
    BY <1>6 DEF Max2
  <1> QED
    BY <1>0, <1>1, <1>3, <1>7, CardFields DEF Good

-----------------------------------------------------------------------------
(***************************************************************************)
(* The inductive invariant.  RepsCountStreak alone is not inductive: the   *)
(* credit of a mature lapse is due to an earlier recall only because a     *)
(* positive repetition count already meant one.                            *)
(***************************************************************************)
CardInv ==
    /\ CardTypeOK
    /\ LearntHasInterval
    /\ RepsCountStreak
    /\ card.reps >= 1 => recalled
    /\ 24 * card.interval <= due

LEMMA CardInvInit == Init => CardInv
  <1> SUFFICES ASSUME Init PROVE CardInv
    OBVIOUS
  <1>1. /\ card \in SM2State /\ card.interval = 0 /\ card.reps = 0
        /\ card.ef = InitialEF
    BY CardFields DEF Init, initial_state, InitialEF, MinEF, MaxEF
  <1>2. /\ reviewed \in BOOLEAN /\ recalled \in BOOLEAN /\ failed \in BOOLEAN
    BY Zenon DEF Init
  <1>3. /\ due = 0 /\ streak = 0 /\ count \in Nat /\ slowest \in Nat
        /\ times \in [n : Nat, total : Nat]
    BY DEF Init
  <1> QED
    BY <1>1, <1>2, <1>3
       DEF CardInv, CardTypeOK, LearntHasInterval, RepsCountStreak, MatureDays

\* What one answer does, whichever of its two outcomes it has.
LEMMA ReviewStep ==
    ASSUME CardInv, NEW correct \in BOOLEAN, NEW ms \in Times,
           NEW speed \in 3..5,
           NEW confidence \in Confidences, NEW intensity \in Intensities,
           NEW absence \in Absences,
           Review(correct, ms, speed, confidence, intensity, absence)
    PROVE  /\ CardInv'
           /\ last'.q < 3 => due' <= Max2(24, due)
           /\ card'.ef < card.ef => last'.absence # "recent" /\ reviewed
  <1> DEFINE q   == MapQuality(correct, speed, confidence)
             gap == IF reviewed THEN absence ELSE "recent"
             ef  == Decayed(card.ef, gap)
  <1>1. q \in {1, 3, 4, 5}
    BY QualityRange, CardAssumption
  <1>2. Good(card) /\ card.interval \in Nat /\ card.ef \in MinEF..MaxEF
        /\ card.reps \in Nat /\ card.lapses \in Nat
    BY StateFields DEF CardInv, CardTypeOK, LearntHasInterval, Good
  <1>3. /\ ef \in MinEF..MaxEF
        /\ gap = "recent" => ef = card.ef
    BY <1>2, DecayedRange
  <1>2i. card.ef \in Int
    BY <1>2, EaseIsInt
  <1>3i. ef \in Int
    BY <1>3, EaseIsInt
  <1>4. last'.q = q /\ last'.absence = gap
    BY DEF Review
  <1>5. intensity \in Nat \ {0}
    BY CardAssumption
  <1>6. PICK c \in Update(card, ef, q, intensity) :
           \/ /\ c.interval <= MaxDays
              /\ card' = c
              /\ due' = DueHours(c, q)
              /\ reviewed' = TRUE
              /\ recalled' = (recalled \/ q >= 3)
              /\ streak' = IF q >= 3 THEN streak + 1 ELSE 0
              /\ Record(ms)
              /\ UNCHANGED failed
           \/ /\ c.interval > MaxDays
              /\ failed' = TRUE
              /\ UNCHANGED <<card, due, reviewed, recalled, streak, times,
                             slowest>>
    BY DEF Review
  <1>t. /\ times \in [n : Nat, total : Nat] /\ slowest \in Nat /\ ms \in Nat
        /\ count \in Nat
    BY CardAssumption DEF CardInv, CardTypeOK
  <1>7. /\ count' \in Nat
        /\ times' \in [n : Nat, total : Nat]
        /\ slowest' \in Nat
    <2>1. count' \in Nat
      BY <1>t DEF Review
    <2>2. CASE Record(ms)
      <3>1. times' = [n |-> times.n + 1, total |-> times.total + ms]
        BY <2>2 DEF Record
      <3>2. times.n \in Nat /\ times.total \in Nat
        BY <1>t
      <3>3. times' \in [n : Nat, total : Nat]
        BY <1>t, <3>1, <3>2
      <3>4. slowest' \in Nat
        BY <1>t, <2>2 DEF Record, Max2
      <3> QED
        BY <2>1, <3>3, <3>4
    <2>3. CASE UNCHANGED <<times, slowest>>
      BY <1>t, <2>1, <2>3
    <2> QED
      BY <1>6, <2>2, <2>3
  <1>8. gap # "recent" => reviewed
    OBVIOUS
  <1> HIDE DEF q, gap, ef
  <1>9. CASE UNCHANGED <<card, due, reviewed, recalled, streak>>
             /\ failed' = TRUE
    <2>1. CardInv'
      BY <1>7, <1>9
         DEF CardInv, CardTypeOK, LearntHasInterval, RepsCountStreak
    <2>2. card' = card
      BY <1>9
    <2>3. card'.interval = card.interval /\ card'.ef = card.ef
      BY <2>2
    <2>4. due' <= Max2(24, due)
      BY <1>9 DEF Max2, CardInv, CardTypeOK
    <2>5. ~(card'.ef < card.ef)
      BY <1>2i, <2>3
    <2> QED
      BY <2>1, <2>4, <2>5
  <1>10. CASE /\ card' = c
              /\ due' = DueHours(c, q)
              /\ reviewed' = TRUE
              /\ recalled' = (recalled \/ q >= 3)
              /\ streak' = IF q >= 3 THEN streak + 1 ELSE 0
              /\ UNCHANGED failed
    <2>1. CASE q = 1
      <3>1. c \in Lapsed(card, ef)
        BY <2>1 DEF Update
      <3>2. /\ Good(c) /\ c.ef = ef /\ c.lapses > 0
            /\ c.reps \in {0, 1} /\ (c.reps = 1 => card.reps >= 1)
            /\ c.interval <= Max2(1, card.interval)
        BY <1>2, <1>3, <3>1, LapsedGood
      <3>3. c \in SM2State /\ c.interval \in Nat
        BY <3>2, StateFields DEF Good
      <3>4. /\ streak' = 0 /\ recalled' = recalled
            /\ due' \in Nat /\ 24 * c.interval <= due'
            /\ due' = 1 \/ due' = 24 * c.interval
        BY <1>10, <2>1, <3>3 DEF DueHours, CardInv, CardTypeOK
      <3>6. due' <= Max2(24, due)
        BY <1>2, <3>2, <3>3, <3>4 DEF Max2, CardInv, CardTypeOK
      <3>7. CardTypeOK'
        BY <1>7, <1>10, <3>3, <3>4 DEF CardInv, CardTypeOK
      <3>8. LearntHasInterval' /\ Good(card')
        BY <1>10, <3>2, <3>3 DEF LearntHasInterval, Good
      <3>9. RepsCountStreak'
        BY <1>10, <3>2, <3>3, <3>4 DEF CardInv, CardTypeOK, RepsCountStreak
      <3>10. card'.reps >= 1 => recalled'
        BY <1>10, <3>2, <3>4 DEF CardInv
      <3>11. 24 * card'.interval <= due'
        BY <1>10, <3>4
      <3>5. CardInv'
        BY <3>7, <3>8, <3>9, <3>10, <3>11 DEF CardInv
      <3> QED
        BY <1>2, <1>3, <1>4, <1>8, <1>10, <3>2, <3>5, <3>6 DEF MinEF, MaxEF
    <2>2. CASE q \in {3, 4, 5}
      <3>1. c \in Recalled(card, ef, q, intensity)
        BY <2>2 DEF Update
      <3>2. /\ Good(c) /\ c.ef >= ef /\ c.lapses = card.lapses
            /\ c.reps = card.reps + 1
        BY <1>2, <1>3, <1>5, <2>2, <3>1, RecalledGood
      <3>3. c \in SM2State /\ c.interval \in Nat /\ c.ef \in MinEF..MaxEF
        BY <3>2, StateFields DEF Good
      <3>a. q >= 3 /\ ~(q < 3)
        BY <2>2
      <3>b. recalled'
        BY <1>10, <3>a, Zenon
      <3>4. /\ streak' = streak + 1 /\ recalled' = TRUE
            /\ due' \in Nat /\ 24 * c.interval <= due'
        BY <1>10, <3>a, <3>b, <3>3 DEF DueHours, CardInv, CardTypeOK
      <3>5. CardInv'
        BY <1>2, <1>7, <1>10, <3>2, <3>3, <3>4
           DEF CardInv, CardTypeOK, LearntHasInterval, RepsCountStreak, Good
      <3>6. ~(last'.q < 3)
        BY <1>4, <3>a
      <3>i. c.ef \in Int
        BY <3>3, EaseIsInt
      <3>c. card'.ef = c.ef
        BY <1>10
      <3>7. card'.ef < card.ef => gap # "recent"
        BY <1>2i, <1>3, <1>3i, <3>2, <3>i, <3>c
      <3> QED
        BY <1>4, <1>8, <3>5, <3>6, <3>7
    <2> QED
      BY <1>1, <2>1, <2>2
  <1> QED
    BY <1>6, <1>9, <1>10

LEMMA CardInvStep == CardInv /\ [Next]_vars => CardInv'
  <1> SUFFICES ASSUME CardInv, [Next]_vars PROVE CardInv'
    OBVIOUS
  <1>1. CASE Next
    BY <1>1, ReviewStep, SpeedRange, VerdictRange DEF Next
  <1>2. CASE UNCHANGED vars
    BY <1>2 DEF vars, CardInv, CardTypeOK, LearntHasInterval, RepsCountStreak
  <1> QED
    BY <1>1, <1>2

THEOREM CardInvariance == Spec => []CardInv
  BY CardInvInit, CardInvStep, PTL DEF Spec

\* Every card keeps its fields in range: the ease factor stays within
\* [1.3, 5.0] under any sequence of answers and absences.
THEOREM CardTypeCorrect == Spec => []CardTypeOK
  <1>1. CardInv => CardTypeOK
    BY DEF CardInv
  <1> QED
    BY <1>1, CardInvariance, PTL

\* A card that counts a recall is scheduled in days (sm2_engine.py).
THEOREM LearntCardHasInterval == Spec => []LearntHasInterval
  <1>1. CardInv => LearntHasInterval
    BY DEF CardInv
  <1> QED
    BY <1>1, CardInvariance, PTL

\* repetitions is the current streak, or one more after a mature lapse.
THEOREM RepetitionsCountStreak == Spec => []RepsCountStreak
  <1>1. CardInv => RepsCountStreak
    BY DEF CardInv
  <1> QED
    BY <1>1, CardInvariance, PTL

\* No failure moves a review further away (_handle_lapse).
THEOREM LapsesShorten == Spec => LapseShortens
  <1>1. CardInv /\ [Next]_vars
          => [last'.q < 3 /\ failed' = failed
                => due' <= Max2(24, due)]_vars
    BY ReviewStep, SpeedRange, VerdictRange DEF Next
  <1> QED
    BY <1>1, CardInvariance, PTL DEF Spec, LapseShortens

\* Nothing but a long absence lowers the ease factor.
THEOREM EaseIsKept == Spec => EaseKept
  <1>1. CardInv /\ [Next]_vars
          => [card'.ef < card.ef => last'.absence # "recent" /\ reviewed]_vars
    BY ReviewStep, SpeedRange, VerdictRange DEF Next
  <1> QED
    BY <1>1, CardInvariance, PTL DEF Spec, EaseKept

-----------------------------------------------------------------------------
(***************************************************************************)
(* Intervals grow.                                                         *)
(***************************************************************************)
\* Thirteen tenths of a positive number, cut to the whole below it or, when it
\* is whole, perhaps to the one before, are no less than the number.
LEMMA TruncatedGrows ==
    ASSUME NEW i \in Nat, NEW e \in Int, e >= 1300, i >= 1, NEW k \in Truncated(i * e)
    PROVE  k \in Nat /\ k >= i
  <1> DEFINE n == i * e
  <1>1. n \in Nat /\ n >= i * 1300
    <2>1. i * e >= i * 1300
      BY SMT
    <2> QED
      BY <2>1
  <1>2. k \in Nat
    BY <1>1, TruncatedRange
  <1> HIDE DEF n
  <1>3. k = n \div 1000 \/ (n % 1000 = 0 /\ k = n \div 1000 - 1)
    BY DEF Truncated, Unit, n
  <1>4. n \div 1000 \in Int /\ n < 1000 * (n \div 1000) + 1000
    BY <1>1, SMT
  <1>5. n % 1000 = 0 => n = 1000 * (n \div 1000)
    BY <1>1, SMT
  <1> QED
    BY <1>1, <1>2, <1>3, <1>4, <1>5

\* round() of no less than a whole number is no less than it.
LEMMA NearestGrows ==
    ASSUME NEW raw \in Nat, NEW intensity \in Nat, intensity >= 100,
           NEW k \in Nearest(raw * 100 * intensity, 10000)
    PROVE  k \in Nat /\ k >= raw
  <1> DEFINE n == raw * 100 * intensity
  <1>1. n \in Nat /\ n >= 10000 * raw
    <2>1. raw * intensity \in Nat /\ raw * intensity >= raw * 100
      BY SMT
    <2>2. n = 100 * (raw * intensity)
      BY SMT
    <2> QED
      BY <2>1, <2>2
  <1> HIDE DEF n
  <1>2. k \in Nat /\ 2 * n - 10000 <= 2 * k * 10000
    BY <1>1, NearestRange DEF n
  <1> QED
    BY <1>1, <1>2

\* _handle_success from the third repetition, not slowed and not intensified.
LEMMA RecallGrows ==
    ASSUME NEW c, Good(c), c.reps >= 2, NEW ef \in MinEF..MaxEF, NEW q \in {4, 5},
           NEW intensity \in Nat, intensity >= 100,
           NEW n \in Recalled(c, ef, q, intensity)
    PROVE  n.interval >= c.interval
  <1> DEFINE newEf == UpdateEf(ef, Max2(4, q))
  <1>1. c.interval \in Nat /\ c.interval >= 1 /\ c.reps \in Nat
    BY StateFields DEF Good
  <1>2. newEf \in Int /\ newEf >= 1300
    <2>1. Max2(4, q) \in {4, 5}
      BY DEF Max2
    <2>2. newEf \in MinEF..MaxEF
      BY <2>1, UpdateEfRange
    <2> HIDE DEF newEf
    <2> QED
      BY <2>2 DEF MinEF, MaxEF
  <1>3. PICK raw \in RawInterval(c, newEf) :
           \E days \in Nearest(raw * 100 * intensity, 10000) :
              n = Card(Max2(1, days), newEf, c.reps + 1, c.lapses)
    BY DEF Recalled
  <1>4. PICK days \in Nearest(raw * 100 * intensity, 10000) :
           n = Card(Max2(1, days), newEf, c.reps + 1, c.lapses)
    BY <1>3
  <1> HIDE DEF newEf
  <1>5. raw \in Truncated(c.interval * newEf)
    BY <1>1 DEF RawInterval
  <1>6. raw \in Nat /\ raw >= c.interval
    BY <1>1, <1>2, <1>5, TruncatedGrows
  <1>7. days \in Nat /\ days >= raw
    BY <1>6, NearestGrows
  <1>8. n.interval = Max2(1, days)
    BY <1>4, CardFields
  <1> QED
    BY <1>1, <1>6, <1>7, <1>8 DEF Max2

LEMMA ReviewGrows ==
    ASSUME CardInv, NEW correct \in BOOLEAN, NEW ms \in Times, NEW speed \in 3..5,
           NEW confidence \in Confidences, NEW intensity \in Intensities,
           NEW absence \in Absences,
           Review(correct, ms, speed, confidence, intensity, absence),
           last'.q >= 4, last'.intensity >= 100, card.reps >= 2
    PROVE  card'.interval >= card.interval
  <1> DEFINE q   == MapQuality(correct, speed, confidence)
             gap == IF reviewed THEN absence ELSE "recent"
             ef  == Decayed(card.ef, gap)
  <1>1. q \in {1, 3, 4, 5} /\ last'.q = q /\ last'.intensity = intensity
    BY QualityRange, CardAssumption DEF Review
  <1>2. Good(card) /\ card.interval \in Nat /\ card.ef \in MinEF..MaxEF
    BY StateFields DEF CardInv, CardTypeOK, LearntHasInterval, Good
  <1>3. ef \in MinEF..MaxEF
    BY <1>2, DecayedRange
  <1>4. PICK c \in Update(card, ef, q, intensity) : card' = c \/ card' = card
    BY DEF Review
  <1> HIDE DEF q, ef, gap
  <1>5. q \in {4, 5} /\ intensity \in Nat /\ intensity >= 100
    BY <1>1, CardAssumption
  <1>6. c \in Recalled(card, ef, q, intensity)
    BY <1>5 DEF Update
  <1>7. c.interval >= card.interval
    BY <1>2, <1>3, <1>5, <1>6, RecallGrows
  <1> QED
    BY <1>2, <1>4, <1>7

\* From the third repetition a recall that is not slow, at balanced or
\* light intensity, never shortens the interval, whichever way the floating-point
\* product falls (_handle_success).
THEOREM IntervalsGrow == Spec => LaterRecallsGrow
  <1>1. CardInv /\ [Next]_vars
          => [(last'.q >= 4 /\ last'.intensity >= 100 /\ card.reps >= 2)
                 => card'.interval >= card.interval]_vars
    BY ReviewGrows, SpeedRange, VerdictRange DEF Next
  <1> QED
    BY <1>1, CardInvariance, PTL DEF Spec, LaterRecallsGrow

-----------------------------------------------------------------------------
(***************************************************************************)
(* The average that an answer's time is compared with is that of times no  *)
(* longer than the longest.                                                *)
(***************************************************************************)
TimesInv == CardInv /\ times.total <= times.n * slowest

LEMMA AverageBelow ==
    ASSUME NEW n \in Nat \ {0}, NEW t \in Nat, NEW s \in Nat, t <= n * s
    PROVE  t \div n \in Int /\ t \div n <= s
  <1> DEFINE d == t \div n
  <1>1. d \in Int /\ n * d <= t
    BY SMT
  <1>2. ASSUME d >= s + 1 PROVE FALSE
    <2>1. n * d >= n * (s + 1)
      BY <1>1, <1>2, SMT
    <2>2. n * (s + 1) = n * s + n
      BY SMT
    <2>3. n * s \in Int /\ n * d \in Int
      BY <1>1
    <2> QED
      BY <1>1, <2>1, <2>2, <2>3
  <1> HIDE DEF d
  <1>3. d <= s
    BY <1>1, <1>2
  <1> QED
    BY <1>1, <1>3 DEF d

LEMMA RecordKeeps ==
    ASSUME NEW n \in Nat, NEW t \in Nat, NEW s \in Nat, NEW ms \in Nat, t <= n * s
    PROVE  t + ms <= (n + 1) * Max2(s, ms)
  <1> DEFINE m == Max2(s, ms)
  <1>1. m \in Nat /\ m >= s /\ m >= ms
    BY DEF Max2
  <1> HIDE DEF m
  <1>2. n * m >= n * s
    BY <1>1
  <1>3. (n + 1) * m = n * m + m /\ n * m \in Nat /\ n * s \in Nat
    BY <1>1
  <1> QED
    BY <1>1, <1>2, <1>3 DEF m

LEMMA TimesInvStep == TimesInv /\ [Next]_vars => TimesInv'
  <1> SUFFICES ASSUME TimesInv, [Next]_vars PROVE TimesInv'
    OBVIOUS
  <1>1. CardInv'
    BY CardInvStep DEF TimesInv
  <1>2. /\ times.n \in Nat /\ times.total \in Nat /\ slowest \in Nat
        /\ times.total <= times.n * slowest
    BY DEF TimesInv, CardInv, CardTypeOK
  <1>3. ASSUME NEW ms \in Times, Record(ms) PROVE times'.total <= times'.n * slowest'
    <2>1. ms \in Nat
      BY CardAssumption
    <2>2. times'.n = times.n + 1 /\ times'.total = times.total + ms
          /\ slowest' = Max2(slowest, ms)
      BY <1>3 DEF Record
    <2> QED
      BY <1>2, <2>1, <2>2, RecordKeeps
  <1>4. (\E ms \in Times : Record(ms)) \/ UNCHANGED <<times, slowest>>
    BY DEF Next, Review, vars
  <1> QED
    BY <1>1, <1>2, <1>3, <1>4 DEF TimesInv

LEMMA TimesInvariance == Spec => []TimesInv
  <1>1. Init => TimesInv
    <2> SUFFICES ASSUME Init PROVE TimesInv
      OBVIOUS
    <2>1. times.total <= times.n * slowest
      BY DEF Init
    <2> QED
      BY <2>1, CardInvInit DEF TimesInv
  <1> QED
    BY <1>1, TimesInvStep, PTL DEF Spec

LEMMA SlowestStep ==
    ASSUME TimesInv, NEW correct \in BOOLEAN, NEW ms \in Times,
           NEW expected \in ExpectedTimes,
           NEW confidence \in Confidences, NEW intensity, NEW absence,
           Review(correct, ms, SpeedQuality(ms, expected), confidence, intensity, absence),
           last'.timed, times.n > 0, last'.ms >= slowest, slowest <= TMax
    PROVE  last'.q # 5
  <1> DEFINE speed == SpeedQuality(ms, expected)
  <1>1. last' = [q |-> MapQuality(correct, speed, confidence), intensity |-> intensity,
                 absence |-> IF reviewed THEN absence ELSE "recent", ms |-> ms,
                 correct |-> correct, timed |-> correct /\ confidence = 0]
    BY DEF Review
  <1>2. last'.ms = ms /\ last'.q = MapQuality(correct, speed, confidence)
        /\ correct /\ confidence = 0
    BY <1>1
  <1>3. /\ times.n \in Nat \ {0} /\ times.total \in Nat /\ slowest \in Nat
        /\ times.total <= times.n * slowest /\ ms \in Nat
    BY CardAssumption DEF TimesInv, CardInv, CardTypeOK
  <1>4. expected = times.total \div times.n
    BY <1>3 DEF ExpectedTimes
  <1>5. expected \in Int /\ expected <= slowest
    BY <1>3, <1>4, AverageBelow
  <1>6. speed # 5
    BY <1>2, <1>3, <1>5 DEF SpeedQuality, FastThreshold, VerySlowThreshold, TMax
  <1> HIDE DEF speed
  <1>7. last'.q = speed
    BY <1>2 DEF MapQuality
  <1> QED
    BY <1>6, <1>7

\* An answer no faster than any before it is not rated fast, as long as the
\* earlier ones are below the cap on times (_bulk_expected_times,
\* map_quality).
THEOREM SlowAnswersAreNotFast == Spec => SlowestIsNotFast
  <1>1. TimesInv /\ [Next]_vars
          => [(/\ last'.timed /\ failed' = failed
               /\ times.n > 0 /\ last'.ms >= slowest /\ slowest <= TMax)
                 => last'.q # 5]_vars
    BY SlowestStep, VerdictRange DEF Next
  <1> QED
    BY <1>1, TimesInvariance, PTL DEF Spec, SlowestIsNotFast

-----------------------------------------------------------------------------
(***************************************************************************)
(* Verdicts.                                                               *)
(***************************************************************************)
LEMMA VerdictIsAllowed ==
    ASSUME NEW x \in Exchanges, NEW m \in Modes
    PROVE  Correct(x.given, x.wanted, m) = Allowed(x, m)
  <1> DEFINE user == Normalise(x.given)
             correct == Normalise(x.wanted)
             T == {Plain(c) : c \in STRING}
             k == ((100 - Threshold[m]) * Max2(Len(user), Len(correct))) \div 100
             short == Len(correct) <= ShortWordMaxLen
             same == user = correct
             within == WithinEdits(k, user, correct)
             verdict == Correct(x.given, x.wanted, m)
  <1>1. /\ x.given \in Seq(STRING) /\ x.wanted \in Seq(STRING)
        /\ m \in DOMAIN Threshold
    BY CardAssumption
  <1>2. Allowed(x, m) = IF short THEN same ELSE within
    BY Zenon DEF Allowed
  <1>3. verdict <=> IF short THEN same ELSE within
    BY <1>1, AnswersAreJudgedByEdits
  <1>4. verdict \in BOOLEAN
    <2>1. [texts |-> x, mode |-> m, correct |-> verdict] \in Judged
      BY DEF Judged
    <2> HIDE DEF verdict
    <2>2. verdict \in Verdicts
      BY <2>1 DEF Verdicts
    <2> QED
      BY <2>2, VerdictRange
  <1>5. same \in BOOLEAN
    OBVIOUS
  <1>6. within \in BOOLEAN
    <2>1. user \in Seq(T) /\ correct \in Seq(T)
      BY <1>1, NormaliseType
    <2> HIDE DEF user, correct, T
    <2>2. Max2(Len(user), Len(correct)) \in Nat
      BY <2>1 DEF Max2
    <2>3. k \in Nat
      BY <1>1, <2>2, ShareIsEnough
    <2> HIDE DEF k
    <2> QED
      BY <2>1, <2>3, WithinIsBoolean
  <1> HIDE DEF short, same, within, verdict
  <1>7. verdict = Allowed(x, m)
    BY <1>2, <1>3, <1>4, <1>5, <1>6
  <1> QED
    BY <1>7, Zenon DEF verdict

\* Whatever is typed, evaluate accepts it exactly when the edits that make the
\* wanted text of it are as few as the mode allows (evaluate, similarity).
THEOREM VerdictsAreByEdits == Spec => JudgedByEdits
  <1>1. Misjudged = {}
    BY VerdictIsAllowed DEF Misjudged, Judged
  <1>2. [Next]_vars => [count' > count => \A j \in Misjudged : last'.correct # j.correct]_vars
    BY <1>1
  <1> QED
    BY <1>2, PTL DEF Spec, JudgedByEdits

-----------------------------------------------------------------------------
(***************************************************************************)
(* The statistics.  Sums and runs are recursions of the library and of     *)
(* the model: each is shown to satisfy its equation, by induction over a   *)
(* number or a set that has no least counterexample.                       *)
(***************************************************************************)

-----------------------------------------------------------------------------
(***************************************************************************)
(* Sums over a finite set.  The library sums by a recursion over subsets,  *)
(* that takes an element by CHOOSE: a function that satisfies its equation *)
(* exists, and sums the sizes of disjoint sets to the size of their union. *)
(***************************************************************************)
Some(s) == CHOOSE x \in s : TRUE

\* The equation of the recursion, for the numbers g[x].
Sums(sum, g, S) ==
    sum = [s \in SUBSET S |->
              IF s = {} THEN 0 ELSE g[Some(s)] + sum[s \ {Some(s)}]]

LEMMA SomeIsElement ==
    ASSUME NEW s, s # {}
    PROVE  Some(s) \in s
  BY DEF Some

\* The equation, for the subsets with at most n elements.
SumsTo(sum, g, S, n) ==
    sum = [s \in {t \in SUBSET S : Cardinality(t) <= n} |->
              IF s = {} THEN 0 ELSE g[Some(s)] + sum[s \ {Some(s)}]]

LEMMA RestIsSmaller ==
    ASSUME NEW S, IsFiniteSet(S), NEW s \in SUBSET S, s # {}
    PROVE  /\ s \ {Some(s)} \in SUBSET S
           /\ Cardinality(s) \in Nat /\ Cardinality(s \ {Some(s)}) \in Nat
           /\ Cardinality(s \ {Some(s)}) = Cardinality(s) - 1
  <1>1. IsFiniteSet(s)
    BY FS_Subset
  <1> QED
    BY <1>1, SomeIsElement, FS_RemoveElement, FS_CardinalityType

LEMMA SumExtends ==
    ASSUME NEW S, IsFiniteSet(S), NEW g, NEW n \in Nat, NEW sum,
           SumsTo(sum, g, S, n)
    PROVE  \E more : SumsTo(more, g, S, n + 1)
  <1> DEFINE D == {t \in SUBSET S : Cardinality(t) <= n}
             E == {t \in SUBSET S : Cardinality(t) <= n + 1}
             more == [s \in E |->
                        IF s = {} THEN 0 ELSE g[Some(s)] + sum[s \ {Some(s)}]]
  <1>1. ASSUME NEW t \in SUBSET S, Cardinality(t) <= n
        PROVE  sum[t] = IF t = {} THEN 0 ELSE g[Some(t)] + sum[t \ {Some(t)}]
    <2>1. t \in D
      BY <1>1
    <2> QED
      BY <2>1, SumsTo(sum, g, S, n), Zenon DEF SumsTo
  <1>2. ASSUME NEW s \in E, s # {}
        PROVE  sum[s \ {Some(s)}] = more[s \ {Some(s)}]
    <2>1. s \ {Some(s)} \in SUBSET S /\ Cardinality(s \ {Some(s)}) <= n
      BY <1>2, RestIsSmaller
    <2>2. s \ {Some(s)} \in E
      BY <2>1, <1>2, RestIsSmaller
    <2>3. more[s \ {Some(s)}]
            = IF s \ {Some(s)} = {} THEN 0
              ELSE g[Some(s \ {Some(s)})]
                     + sum[(s \ {Some(s)}) \ {Some(s \ {Some(s)})}]
      BY <2>2, Zenon
    <2> QED
      BY <2>1, <2>3, <1>1
  <1>3. more = [s \in E |->
                  IF s = {} THEN 0 ELSE g[Some(s)] + more[s \ {Some(s)}]]
    <2>1. \A s \in E :
            (IF s = {} THEN 0 ELSE g[Some(s)] + sum[s \ {Some(s)}])
              = (IF s = {} THEN 0 ELSE g[Some(s)] + more[s \ {Some(s)}])
      BY <1>2, Zenon
    <2>2. more = [s \in E |->
                    IF s = {} THEN 0 ELSE g[Some(s)] + sum[s \ {Some(s)}]]
      BY Zenon
    <2> HIDE DEF more, E
    <2> QED
      BY <2>1, <2>2
  <1> QED
    BY <1>3 DEF SumsTo

LEMMA SumExists ==
    ASSUME NEW S, IsFiniteSet(S), NEW g
    PROVE  \E sum : Sums(sum, g, S)
  <1> DEFINE bad == {n \in Nat : ~ \E sum : SumsTo(sum, g, S, n)}
  <1>1. \E sum : SumsTo(sum, g, S, 0)
    <2> DEFINE D == {t \in SUBSET S : Cardinality(t) <= 0}
               zero == [s \in D |-> 0]
    <2>1. \A s \in D : s = {}
      BY FS_Subset, FS_EmptySet, FS_CardinalityType
    <2>2. zero = [s \in D |-> IF s = {} THEN 0 ELSE g[Some(s)] + zero[s \ {Some(s)}]]
      BY <2>1, SMT
    <2> QED
      BY <2>2 DEF SumsTo
  <1>2. bad = {}
    <2> SUFFICES ASSUME bad # {} PROVE FALSE
      OBVIOUS
    <2>1. PICK m \in bad : \A k \in bad : m <= k
      BY LeastNumber
    <2>2. m # 0
      BY <1>1
    <2>3. m - 1 \in Nat /\ m - 1 \notin bad
      BY <2>1, <2>2
    <2>4. PICK sum : SumsTo(sum, g, S, m - 1)
      BY <2>3
    <2>5. \E more : SumsTo(more, g, S, (m - 1) + 1)
      BY <2>3, <2>4, SumExtends
    <2> QED
      BY <2>1, <2>5
  <1>3. PICK n \in Nat : n = Cardinality(S)
    BY FS_CardinalityType
  <1>4. PICK sum : SumsTo(sum, g, S, n)
    BY <1>2
  <1>5. {t \in SUBSET S : Cardinality(t) <= n} = SUBSET S
    BY <1>3, FS_Subset
  <1> QED
    BY <1>4, <1>5 DEF SumsTo, Sums

\* A non-empty set of subsets of a finite set has a least one.
LEMMA LeastSubset ==
    ASSUME NEW S, IsFiniteSet(S), NEW bad \in SUBSET SUBSET S, bad # {}
    PROVE  \E s \in bad : \A t \in bad : t \subseteq s => t = s
  <1>1. bad \subseteq FiniteSubsetsOf(S)
    BY FS_FiniteSubsetsOfFinite
  <1>2. PICK s \in bad : \A t \in bad : ~(<<t, s>> \in StrictSubsetOrdering(S))
    BY <1>1, FS_StrictSubsetOrderingWellFounded, WFMin
  <1>3. ASSUME NEW t \in bad, t \subseteq s
        PROVE  t = s
    <2>1. <<t, s>> \in (SUBSET S) \X (SUBSET S)
      OBVIOUS
    <2> QED
      BY <1>2, <1>3, <2>1 DEF StrictSubsetOrdering
  <1> QED
    BY <1>3

LEMMA SumStep ==
    ASSUME NEW S, NEW g, NEW sum, Sums(sum, g, S), NEW s \in SUBSET S
    PROVE  /\ s = {} => sum[s] = 0
           /\ s # {} => sum[s] = g[Some(s)] + sum[s \ {Some(s)}]
  BY Zenon DEF Sums

LEMMA SumIsNat ==
    ASSUME NEW S, IsFiniteSet(S), NEW g, \A x \in S : g[x] \in Nat,
           NEW sum, Sums(sum, g, S)
    PROVE  sum[S] \in Nat
  <1> DEFINE bad == {s \in SUBSET S : sum[s] \notin Nat}
  <1>1. ASSUME bad # {} PROVE FALSE
    <2>1. PICK s \in bad : \A t \in bad : t \subseteq s => t = s
      <3>1. bad \in SUBSET SUBSET S
        OBVIOUS
      <3> HIDE DEF bad
      <3> QED
        BY <1>1, <3>1, LeastSubset
    <2>2. s \in SUBSET S /\ sum[s] \notin Nat
      BY <2>1
    <2>3. s # {} /\ sum[s] = g[Some(s)] + sum[s \ {Some(s)}]
      <3> HIDE DEF bad
      <3>1. s \in SUBSET S
        BY <2>2
      <3>2. s = {} => sum[s] = 0
        BY <3>1, SumStep
      <3>3. s # {} => sum[s] = g[Some(s)] + sum[s \ {Some(s)}]
        BY <3>1, SumStep
      <3> QED
        BY <2>2, <3>2, <3>3
    <2>4. s \ {Some(s)} \in SUBSET S /\ s \ {Some(s)} # s /\ g[Some(s)] \in Nat
      BY <2>2, <2>3, SomeIsElement
    <2>5. sum[s \ {Some(s)}] \in Nat
      BY <2>1, <2>4 DEF bad
    <2> QED
      BY <2>2, <2>3, <2>4, <2>5
  <1> QED
    BY <1>1

LEMMA DisjointUnion ==
    ASSUME NEW A, NEW B, IsFiniteSet(A), IsFiniteSet(B), A \cap B = {}
    PROVE  /\ IsFiniteSet(A \cup B)
           /\ Cardinality(A) \in Nat /\ Cardinality(B) \in Nat
           /\ Cardinality(A \cup B) = Cardinality(A) + Cardinality(B)
  <1>1. Cardinality(A \cap B) = 0
    BY FS_EmptySet
  <1>2. Cardinality(A) \in Nat /\ Cardinality(B) \in Nat
    BY FS_CardinalityType
  <1>3. /\ IsFiniteSet(A \cup B)
        /\ Cardinality(A \cup B)
             = Cardinality(A) + Cardinality(B) - Cardinality(A \cap B)
    BY FS_Union, Zenon
  <1> QED
    BY <1>1, <1>2, <1>3

Together(P, S) == UNION {P[x] : x \in S}

LEMMA SumOfParts ==
    ASSUME NEW S, IsFiniteSet(S), NEW P, NEW g, NEW sum, Sums(sum, g, S),
           \A x \in S : IsFiniteSet(P[x]) /\ g[x] = Cardinality(P[x]),
           \A x, y \in S : x # y => P[x] \cap P[y] = {}
    PROVE  sum[S] = Cardinality(Together(P, S))
  <1> DEFINE All(s) == Together(P, s)
             bad == {s \in SUBSET S : ~ /\ IsFiniteSet(All(s))
                                        /\ sum[s] = Cardinality(All(s))}
  <1>1. ASSUME bad # {} PROVE FALSE
    <2>1. PICK s \in bad : \A t \in bad : t \subseteq s => t = s
      <3>1. bad \in SUBSET SUBSET S
        BY Zenon
      <3> HIDE DEF bad
      <3> QED
        BY <1>1, <3>1, LeastSubset
    <2>2. s \in SUBSET S
      BY <2>1, Zenon
    <2>3. ASSUME s = {} PROVE FALSE
      <3>1. All(s) = {} /\ sum[s] = 0
        BY <2>2, <2>3, SumStep DEF Together
      <3>2. IsFiniteSet(All(s)) /\ Cardinality(All(s)) = 0
        BY <3>1, FS_EmptySet
      <3> QED
        BY <2>1, <3>1, <3>2
    <2> DEFINE x == Some(s)
               t == s \ {x}
    <2>4. x \in s /\ x \in S /\ t \in SUBSET S /\ t # s /\ t \subseteq s
      BY <2>2, <2>3, SomeIsElement
    <2>5. IsFiniteSet(All(t)) /\ sum[t] = Cardinality(All(t))
      BY <2>1, <2>4
    <2>6. sum[s] = g[x] + sum[t]
      <3> HIDE DEF bad, All
      <3> QED
        BY <2>2, <2>3, SumStep
    <2>7. All(s) = P[x] \cup All(t)
      BY <2>4 DEF Together
    <2>8. P[x] \cap All(t) = {}
      BY <2>2, <2>4 DEF Together
    <2>9. IsFiniteSet(P[x]) /\ g[x] = Cardinality(P[x])
      BY <2>4
    <2>10. /\ IsFiniteSet(All(s))
           /\ sum[s] = Cardinality(All(s))
      <3> HIDE DEF x, t, All, bad
      <3>1. /\ IsFiniteSet(P[x] \cup All(t))
            /\ Cardinality(P[x] \cup All(t))
                 = Cardinality(P[x]) + Cardinality(All(t))
        BY <2>5, <2>8, <2>9, DisjointUnion
      <3> QED
        BY <2>5, <2>6, <2>7, <2>9, <3>1
    <2> QED
      BY <2>1, <2>10
  <1> QED
    BY <1>1

-----------------------------------------------------------------------------
(***************************************************************************)
(* The sums of the statistics.                                             *)
(***************************************************************************)
NewOn(rows, l) == [d \in Days |-> rows[l][d].new]

LEMMA NewOfSums ==
    ASSUME NEW rows, NEW l
    PROVE  \E sum : Sums(sum, NewOn(rows, l), Days) /\ NewOf(rows, l) = sum[Days]
  <1> DEFINE g == NewOn(rows, l)
             Body(it) == [s \in SUBSET Days |->
                           IF s = {} THEN 0
                           ELSE rows[l][Some(s)].new + it[s \ {Some(s)}]]
  <1>1. PICK sum : Sums(sum, g, Days)
    <2>1. IsFiniteSet(Days)
      BY FS_Interval, StatsAssumption DEF Days
    <2> QED
      BY <2>1, SumExists
  <1>2. \A it : Body(it) = [s \in SUBSET Days |->
                IF s = {} THEN 0 ELSE g[Some(s)] + it[s \ {Some(s)}]]
    BY SomeIsElement DEF NewOn
  <1>3. NewOf(rows, l) = (CHOOSE it : it = Body(it))[Days]
    BY Zenon DEF NewOf, MapThenSumSet, MapThenFoldSet, Some
  <1> DEFINE it == CHOOSE it : it = Body(it)
  <1> HIDE DEF Body
  <1>4. it = Body(it)
    BY <1>1, <1>2, Zenon DEF Sums
  <1> QED
    BY <1>2, <1>3, <1>4 DEF Sums

\* The days between two dates that have a row, and their counts.
Right(rows) == [d \in DOMAIN rows |-> rows[d].correct]
Wrong(rows) == [d \in DOMAIN rows |-> rows[d].incorrect]

LEMMA RightSums ==
    ASSUME NEW rows, IsFiniteSet(DOMAIN rows)
    PROVE  \E sum : /\ Sums(sum, Right(rows), DOMAIN rows)
                    /\ MapThenSumSet(LAMBDA d : rows[d].correct, DOMAIN rows)
                         = sum[DOMAIN rows]
  <1> DEFINE S == DOMAIN rows
             g == Right(rows)
             Body(it) == [s \in SUBSET S |->
                           IF s = {} THEN 0
                           ELSE rows[Some(s)].correct + it[s \ {Some(s)}]]
  <1>1. PICK sum : Sums(sum, g, S)
    BY SumExists
  <1>2. \A it : Body(it) = [s \in SUBSET S |->
                IF s = {} THEN 0 ELSE g[Some(s)] + it[s \ {Some(s)}]]
    BY SomeIsElement DEF Right
  <1>3. MapThenSumSet(LAMBDA d : rows[d].correct, S)
          = (CHOOSE it : it = Body(it))[S]
    BY Zenon DEF MapThenSumSet, MapThenFoldSet, Some
  <1> DEFINE it == CHOOSE it : it = Body(it)
  <1> HIDE DEF Body
  <1>4. it = Body(it)
    BY <1>1, <1>2, Zenon DEF Sums
  <1> QED
    BY <1>2, <1>3, <1>4 DEF Sums

LEMMA WrongSums ==
    ASSUME NEW rows, IsFiniteSet(DOMAIN rows)
    PROVE  \E sum : /\ Sums(sum, Wrong(rows), DOMAIN rows)
                    /\ MapThenSumSet(LAMBDA d : rows[d].incorrect, DOMAIN rows)
                         = sum[DOMAIN rows]
  <1> DEFINE S == DOMAIN rows
             g == Wrong(rows)
             Body(it) == [s \in SUBSET S |->
                           IF s = {} THEN 0
                           ELSE rows[Some(s)].incorrect + it[s \ {Some(s)}]]
  <1>1. PICK sum : Sums(sum, g, S)
    BY SumExists
  <1>2. \A it : Body(it) = [s \in SUBSET S |->
                IF s = {} THEN 0 ELSE g[Some(s)] + it[s \ {Some(s)}]]
    BY SomeIsElement DEF Wrong
  <1>3. MapThenSumSet(LAMBDA d : rows[d].incorrect, S)
          = (CHOOSE it : it = Body(it))[S]
    BY Zenon DEF MapThenSumSet, MapThenFoldSet, Some
  <1> DEFINE it == CHOOSE it : it = Body(it)
  <1> HIDE DEF Body
  <1>4. it = Body(it)
    BY <1>1, <1>2, Zenon DEF Sums
  <1> QED
    BY <1>2, <1>3, <1>4 DEF Sums

LEMMA WordSums ==
    ASSUME IsFiniteSet(Studied)
    PROVE  \E sum : /\ Sums(sum, words, Studied)
                    /\ MapThenSumSet(LAMBDA l : GetTotalStats[l].words, Studied)
                         = sum[Studied]
  <1> DEFINE S == Studied
             Body(it) == [s \in SUBSET S |->
                           IF s = {} THEN 0
                           ELSE GetTotalStats[Some(s)].words + it[s \ {Some(s)}]]
  <1>1. PICK sum : Sums(sum, words, S)
    BY SumExists
  <1>2. \A l \in S : GetTotalStats[l].words = words[l]
    BY DEF GetTotalStats
  <1>3. \A it : Body(it) = [s \in SUBSET S |->
                IF s = {} THEN 0 ELSE words[Some(s)] + it[s \ {Some(s)}]]
    <2> HIDE DEF S
    <2> QED
      BY <1>2, SomeIsElement
  <1>4. MapThenSumSet(LAMBDA l : GetTotalStats[l].words, S)
          = (CHOOSE it : it = Body(it))[S]
    BY Zenon DEF MapThenSumSet, MapThenFoldSet, Some
  <1> DEFINE it == CHOOSE it : it = Body(it)
  <1> HIDE DEF Body, S
  <1>5. it = Body(it)
    BY <1>1, <1>3, Zenon DEF Sums
  <1> QED
    BY <1>3, <1>4, <1>5 DEF Sums, S

-----------------------------------------------------------------------------
(***************************************************************************)
(* The streak.  Counting back over more active days gives no less.         *)
(***************************************************************************)
\* The equation of the loop, for the active days A up to n.
Runs(run, A, n) ==
    run = [d \in 0..n |-> IF d \notin A THEN 0
                          ELSE IF d = 0 THEN 1 ELSE 1 + run[d - 1]]

LEMMA RunExtends ==
    ASSUME NEW A, NEW n \in Nat, NEW run, Runs(run, A, n)
    PROVE  \E longer : Runs(longer, A, n + 1)
  <1> DEFINE longer == [d \in 0..(n + 1) |->
                          IF d \notin A THEN 0
                          ELSE IF d = 0 THEN 1 ELSE 1 + run[d - 1]]
  <1>1. \A d \in 0..n : run[d] = IF d \notin A THEN 0
                                 ELSE IF d = 0 THEN 1 ELSE 1 + run[d - 1]
    BY Zenon DEF Runs
  <1>2. \A d \in 0..(n + 1) : longer[d] = IF d \notin A THEN 0
                                 ELSE IF d = 0 THEN 1 ELSE 1 + run[d - 1]
    BY Zenon
  <1>3. \A d \in 0..n : d \in 0..(n + 1) /\ longer[d] = run[d]
    BY <1>1, <1>2
  <1>4. \A d \in 0..(n + 1) :
          (IF d \notin A THEN 0 ELSE IF d = 0 THEN 1 ELSE 1 + run[d - 1])
            = (IF d \notin A THEN 0 ELSE IF d = 0 THEN 1 ELSE 1 + longer[d - 1])
    <2> HIDE DEF longer
    <2>1. \A d \in 0..(n + 1) : d # 0 => d - 1 \in 0..n
      OBVIOUS
    <2> QED
      BY <1>3, <2>1
  <1>5. longer = [d \in 0..(n + 1) |->
                    IF d \notin A THEN 0
                    ELSE IF d = 0 THEN 1 ELSE 1 + run[d - 1]]
    BY Zenon
  <1> HIDE DEF longer
  <1>6. longer = [d \in 0..(n + 1) |->
                    IF d \notin A THEN 0
                    ELSE IF d = 0 THEN 1 ELSE 1 + longer[d - 1]]
    BY <1>4, <1>5
  <1> QED
    BY <1>6 DEF Runs

LEMMA RunExists ==
    ASSUME NEW A, NEW n \in Nat
    PROVE  \E run : Runs(run, A, n)
  <1> DEFINE bad == {k \in Nat : ~ \E run : Runs(run, A, k)}
  <1>1. \E run : Runs(run, A, 0)
    <2> DEFINE first == [d \in 0..0 |-> IF d \notin A THEN 0 ELSE 1]
    <2>1. \A d \in 0..0 : d = 0
      OBVIOUS
    <2>2. \A d \in 0..0 :
            (IF d \notin A THEN 0 ELSE 1)
              = (IF d \notin A THEN 0 ELSE IF d = 0 THEN 1 ELSE 1 + first[d - 1])
      BY <2>1, Zenon
    <2>3. first = [d \in 0..0 |-> IF d \notin A THEN 0 ELSE 1]
      BY Zenon
    <2> HIDE DEF first
    <2>4. first = [d \in 0..0 |-> IF d \notin A THEN 0
                                  ELSE IF d = 0 THEN 1 ELSE 1 + first[d - 1]]
      BY <2>2, <2>3
    <2> QED
      BY <2>4 DEF Runs
  <1>2. ASSUME bad # {} PROVE FALSE
    <2>1. PICK m \in bad : \A k \in bad : m <= k
      BY <1>2, LeastNumber
    <2>2. m # 0
      BY <1>1
    <2>3. m - 1 \in Nat /\ m - 1 \notin bad
      BY <2>1, <2>2
    <2>4. PICK run : Runs(run, A, m - 1)
      BY <2>3
    <2>5. \E longer : Runs(longer, A, (m - 1) + 1)
      BY <2>3, <2>4, RunExtends
    <2> QED
      BY <2>1, <2>5
  <1> QED
    BY <1>2

LEMMA RunStep ==
    ASSUME NEW A, NEW n \in Nat, NEW run, Runs(run, A, n), NEW d \in 0..n
    PROVE  /\ d \notin A => run[d] = 0
           /\ d \in A /\ d = 0 => run[d] = 1
           /\ d \in A /\ d # 0 => run[d] = 1 + run[d - 1]
  BY Zenon DEF Runs

LEMMA RunKept ==
    ASSUME NEW A, NEW B, A \subseteq B, NEW n \in Nat,
           NEW run, Runs(run, A, n), NEW more, Runs(more, B, n)
    PROVE  \A d \in 0..n : run[d] \in Nat /\ more[d] \in Nat /\ run[d] <= more[d]
  <1> DEFINE bad == {d \in 0..n : ~ /\ run[d] \in Nat /\ more[d] \in Nat
                                    /\ run[d] <= more[d]}
  <1>1. ASSUME bad # {} PROVE FALSE
    <2>1. PICK m \in bad : \A k \in bad : m <= k
      <3>1. bad \in SUBSET Nat
        OBVIOUS
      <3> HIDE DEF bad
      <3> QED
        BY <1>1, <3>1, LeastNumber
    <2>2. m \in 0..n /\ ~ /\ run[m] \in Nat /\ more[m] \in Nat
                          /\ run[m] <= more[m]
      BY <2>1, Zenon
    <2>3. m # 0 => m - 1 \in 0..n /\ m - 1 \notin bad
      <3>1. m # 0 => m - 1 \in 0..n /\ ~(m <= m - 1)
        BY <2>2
      <3> QED
        BY <2>1, <3>1, Zenon
    <2>4. m # 0 => /\ run[m - 1] \in Nat /\ more[m - 1] \in Nat
                   /\ run[m - 1] <= more[m - 1]
      BY <2>3, Zenon
    <2>5. /\ m \notin A => run[m] = 0
          /\ m \in A /\ m = 0 => run[m] = 1
          /\ m \in A /\ m # 0 => run[m] = 1 + run[m - 1]
      BY <2>2, RunStep, Zenon
    <2>6. /\ m \notin B => more[m] = 0
          /\ m \in B /\ m = 0 => more[m] = 1
          /\ m \in B /\ m # 0 => more[m] = 1 + more[m - 1]
      BY <2>2, RunStep, Zenon
    <2> HIDE DEF bad
    <2> QED
      BY <2>2, <2>4, <2>5, <2>6
  <1> QED
    BY <1>1, Zenon

ActiveDays(l) == {d \in Days : Active(l, d)}

\* The function Backward chooses satisfies its equation, before and after a
\* step.
LEMMA BackwardRuns ==
    ASSUME NEW l
    PROVE  /\ Runs(Backward(l), ActiveDays(l), MaxDay)
           /\ Runs(Backward(l)', ActiveDays(l)', MaxDay)
  <1>1. MaxDay \in Nat
    BY StatsAssumption
  <1>2. Runs(Backward(l), ActiveDays(l), MaxDay)
    <2> DEFINE A == ActiveDays(l)
               Body(run) == [d \in Days |->
                   IF ~Active(l, d) THEN 0
                   ELSE IF d = 0 THEN 1 ELSE 1 + run[d - 1]]
    <2>1. Backward(l) = CHOOSE run : run = Body(run)
      BY Zenon DEF Backward
    <2>2. \A run : Runs(run, A, MaxDay) <=> run = Body(run)
      <3>1. \A d \in Days : Active(l, d) <=> d \in A
        BY DEF ActiveDays
      <3>2. \A run : Body(run) = [d \in 0..MaxDay |->
                    IF d \notin A THEN 0
                    ELSE IF d = 0 THEN 1 ELSE 1 + run[d - 1]]
        <4> HIDE DEF A
        <4> QED
          BY <3>1 DEF Days
      <3> HIDE DEF Body, A
      <3> QED
        BY <3>2, Zenon DEF Runs
    <2> HIDE DEF Body, A
    <2> QED
      BY <1>1, <2>1, <2>2, RunExists DEF A
  <1>3. Runs(Backward(l)', ActiveDays(l)', MaxDay)
    <2> DEFINE A == ActiveDays(l)'
               Body(run) == [d \in Days |->
                   IF ~Active(l, d)' THEN 0
                   ELSE IF d = 0 THEN 1 ELSE 1 + run[d - 1]]
    <2>1. Backward(l)' = CHOOSE run : run = Body(run)
      BY Zenon DEF Backward
    <2>2. \A run : Runs(run, A, MaxDay) <=> run = Body(run)
      <3>1. \A d \in Days : Active(l, d)' <=> d \in A
        BY DEF ActiveDays
      <3>2. \A run : Body(run) = [d \in 0..MaxDay |->
                    IF d \notin A THEN 0
                    ELSE IF d = 0 THEN 1 ELSE 1 + run[d - 1]]
        <4> HIDE DEF A
        <4> QED
          BY <3>1 DEF Days
      <3> HIDE DEF Body, A
      <3> QED
        BY <3>2, Zenon DEF Runs
    <2> HIDE DEF Body, A
    <2> QED
      BY <1>1, <2>1, <2>2, RunExists DEF A
  <1> QED
    BY <1>2, <1>3

-----------------------------------------------------------------------------
(***************************************************************************)
(* The batch of a session.                                                 *)
(***************************************************************************)
OneLanguage(b) == \A n \in DOMAIN b : ItemLang[b[n].item] = BatchLang(b)

LEMMA BatchShape ==
    ASSUME NEW b \in Seq(Answer), b # <<>>
    PROVE  /\ Len(b) \in Nat \ {0} /\ DOMAIN b = 1..Len(b) /\ IsFiniteSet(DOMAIN b)
           /\ 1 \in DOMAIN b
           /\ \A n \in DOMAIN b : /\ b[n] \in Answer /\ b[n].item \in Items
                                  /\ b[n].correct \in BOOLEAN /\ b[n].day \in Days
           /\ BatchLang(b) \in Langs
  <1>1. Len(b) \in Nat /\ DOMAIN b = 1..Len(b) /\ \A n \in DOMAIN b : b[n] \in Answer
    OBVIOUS
  <1>2. Len(b) # 0
    OBVIOUS
  <1>3. IsFiniteSet(DOMAIN b)
    BY <1>1, FS_Interval
  <1>4. \A n \in DOMAIN b : /\ b[n] \in Answer /\ b[n].item \in Items
                            /\ b[n].correct \in BOOLEAN /\ b[n].day \in Days
    BY <1>1 DEF Answer
  <1>5. 1 \in DOMAIN b
    BY <1>1, <1>2
  <1>6. BatchLang(b) \in Langs
    BY <1>4, <1>5, StatsAssumption DEF BatchLang
  <1> QED
    BY <1>1, <1>2, <1>3, <1>4, <1>5, <1>6

LEMMA AnsweredShape ==
    ASSUME NEW b \in Seq(Answer), b # <<>>
    PROVE  /\ AnsweredItems(b) = {b[n].item : n \in DOMAIN b}
           /\ AnsweredItems(b) \subseteq Items
           /\ IsFiniteSet(AnsweredItems(b))
  <1>1. AnsweredItems(b) = {b[n].item : n \in DOMAIN b}
    BY DEF AnsweredItems, Elements
  <1>2. AnsweredItems(b) \subseteq Items
    BY <1>1, BatchShape
  <1> DEFINE T == {b[n].item : n \in DOMAIN b}
             f == [n \in DOMAIN b |-> b[n].item]
  <1>3. f \in Surjection(DOMAIN b, T)
    BY DEF Surjection
  <1>4. IsFiniteSet(DOMAIN b)
    BY BatchShape
  <1>5. IsFiniteSet(T)
    <2> HIDE DEF T, f
    <2> QED
      BY <1>3, <1>4, FS_Surjection
  <1> QED
    BY <1>1, <1>2, <1>5

LEMMA RightsShape ==
    ASSUME NEW b \in Seq(Answer), b # <<>>
    PROVE  /\ IsFiniteSet(Rights(b)) /\ Cardinality(Rights(b)) \in Nat
           /\ Cardinality(Rights(b)) <= Len(b)
           /\ Len(b) - Cardinality(Rights(b)) \in Nat
  <1>1. IsFiniteSet(DOMAIN b) /\ Cardinality(DOMAIN b) = Len(b) /\ Len(b) \in Nat
    <2>1. Len(b) \in Nat /\ DOMAIN b = 1..Len(b) /\ Len(b) # 0
      BY BatchShape
    <2>2. IsFiniteSet(1..Len(b)) /\ Cardinality(1..Len(b)) = Len(b)
      BY <2>1, FS_Interval
    <2> QED
      BY <2>1, <2>2
  <1>2. Rights(b) \in SUBSET DOMAIN b
    BY DEF Rights
  <1>3. IsFiniteSet(Rights(b)) /\ Cardinality(Rights(b)) <= Len(b)
    BY <1>1, <1>2, FS_Subset
  <1> QED
    BY <1>1, <1>3, FS_CardinalityType

LEMMA BatchReviewsShape ==
    ASSUME NEW b \in Seq(Answer), b # <<>>, OneLanguage(b), NEW s \in Sessions
    PROVE  /\ BatchReviews(s, b) \subseteq ReviewRow
           /\ IsFiniteSet(BatchReviews(s, b))
           /\ BatchReviews(s, b) # {}
           /\ {r.item : r \in BatchReviews(s, b)} = AnsweredItems(b)
           /\ \A r \in BatchReviews(s, b) :
                 /\ r.session = s
                 /\ r.lang = BatchLang(b) /\ r.lang = ItemLang[r.item]
                 /\ \E n \in DOMAIN b : r.day = b[n].day
  <1> DEFINE f == [n \in FirstOfItem(b) |->
                     [session |-> s, item |-> b[n].item, correct |-> b[n].correct,
                      day |-> b[n].day, lang |-> BatchLang(b)]]
             T == BatchReviews(s, b)
  <1>1. FirstOfItem(b) \in SUBSET DOMAIN b
    BY DEF FirstOfItem
  <1>2. IsFiniteSet(FirstOfItem(b))
    BY <1>1, BatchShape, FS_Subset
  <1>3. f \in Surjection(FirstOfItem(b), T)
    BY DEF Surjection, BatchReviews
  <1>4. IsFiniteSet(T)
    <2> HIDE DEF T, f
    <2> QED
      BY <1>2, <1>3, FS_Surjection
  <1>5. T \subseteq ReviewRow
    BY <1>1, BatchShape DEF BatchReviews, ReviewRow
  <1>6. \A r \in T : /\ r.session = s
                     /\ r.lang = BatchLang(b) /\ r.lang = ItemLang[r.item]
                     /\ \E n \in DOMAIN b : r.day = b[n].day
    BY <1>1 DEF BatchReviews, OneLanguage
  <1>7. ASSUME NEW n \in DOMAIN b
        PROVE  \E r \in T : r.item = b[n].item
    <2> DEFINE same == {m \in DOMAIN b : b[m].item = b[n].item}
    <2>1. same \in SUBSET Nat /\ same # {}
      BY BatchShape
    <2>2. PICK first \in same : \A m \in same : first <= m
      BY <2>1, LeastNumber
    <2>3. first \in DOMAIN b /\ b[first].item = b[n].item
      BY <2>2
    <2>4. \A m \in 1..(first - 1) : m \in DOMAIN b /\ ~(first <= m)
      BY <2>3, BatchShape
    <2>5. \A m \in 1..(first - 1) : b[m].item # b[first].item
      BY <2>2, <2>3, <2>4
    <2>6. first \in FirstOfItem(b)
      BY <2>3, <2>5 DEF FirstOfItem
    <2> DEFINE r == [session |-> s, item |-> b[first].item,
                     correct |-> b[first].correct, day |-> b[first].day,
                     lang |-> BatchLang(b)]
    <2>7. r \in T
      BY <2>6 DEF BatchReviews
    <2>8. r.item = b[n].item
      BY <2>3
    <2> QED
      BY <2>7, <2>8
  <1>8. {r.item : r \in T} = AnsweredItems(b)
    <2>1. \A r \in T : \E n \in DOMAIN b : r.item = b[n].item
      BY <1>1 DEF BatchReviews
    <2>2. AnsweredItems(b) = {b[n].item : n \in DOMAIN b}
      BY AnsweredShape
    <2> HIDE DEF T
    <2>3. \A i \in {r.item : r \in T} : i \in {b[n].item : n \in DOMAIN b}
      BY <2>1
    <2>4. \A i \in {b[n].item : n \in DOMAIN b} : i \in {r.item : r \in T}
      BY <1>7
    <2> QED
      BY <2>2, <2>3, <2>4
  <1>9. T # {}
    BY <1>7, BatchShape
  <1> QED
    BY <1>4, <1>5, <1>6, <1>8, <1>9

-----------------------------------------------------------------------------
(***************************************************************************)
(* The invariant.  Whatever happens, a session with reviews has no answers *)
(* left, and what a recount has read are rows with reviews.  As long as no *)
(* session was finalised late or during a recount, the rows and totals are *)
(* those of the reviews, and so is what a running recount has read.        *)
(***************************************************************************)
InOrder == skew \intersect {"late", "raced"} = {}
SeenOf(l) == {i \in seen : ItemLang[i] = l}
Reviewed == {<<r.lang, r.day>> : r \in reviews}

RepairInv ==
    /\ repair.at = "idle" => repair = NoRepair
    /\ repair.at # "idle" =>
         /\ repair = [at |-> repair.at, rows |-> repair.rows, sums |-> repair.sums]
         /\ DOMAIN repair.rows \subseteq Langs \X Days
         /\ \A ld \in DOMAIN repair.rows :
               /\ repair.rows[ld] \in Counts
               /\ repair.rows[ld].correct + repair.rows[ld].incorrect > 0
    /\ repair.at = "locked" => repair.sums \in [Langs -> Nat]

BufferInv ==
    \A s \in Sessions :
        /\ s \in Finalised => buffer[s] = <<>>
        /\ OneLanguage(buffer[s])
        /\ \A n \in DOMAIN buffer[s] : buffer[s][n].day <= today

LogInv ==
    /\ IsFiniteSet(reviews)
    /\ seen = {r.item : r \in reviews}
    /\ \A r \in reviews : r.lang = ItemLang[r.item] /\ r.day <= today

RowInv == StatsTypeOK /\ RepairInv /\ BufferInv /\ LogInv

CountInv ==
    InOrder =>
        /\ \A l \in Langs, d \in Days :
              /\ daily[l][d].new = Cardinality(FirstSeenOn(l, d))
              /\ Active(l, d) <=> ReviewsOn(l, d) # {}
        /\ \A l \in Langs : words[l] = Cardinality(SeenOf(l))
        /\ repair.at # "idle" =>
              repair.rows = [ld \in Reviewed |-> Recount(ld[1], ld[2])]
        /\ repair.at = "locked" =>
              \A l \in Langs : repair.sums[l] = Cardinality(SeenOf(l))

ExactInv ==
    skew = {} => \A l \in Langs, d \in Days : daily[l][d] = Recount(l, d)

StatsInv == RowInv /\ CountInv /\ ExactInv

LEMMA StatsInitInv == StatsInit => StatsInv
  <1> SUFFICES ASSUME StatsInit PROVE StatsInv
    OBVIOUS
  <1> USE DEF StatsInit
  <1>1. StatsTypeOK
    BY StatsAssumption DEF StatsTypeOK, Days, Counts, Zero, NoRepair
  <1>2. RepairInv
    BY DEF RepairInv, NoRepair
  <1>3. BufferInv
    BY DEF BufferInv, Finalised, OneLanguage
  <1>4. LogInv
    BY FS_EmptySet DEF LogInv
  <1>5. \A l \in Langs, d \in Days :
          ReviewsOn(l, d) = {} /\ FirstSeenOn(l, d) = {}
    BY DEF ReviewsOn, FirstSeenOn
  <1>6. \A l \in Langs, d \in Days : daily[l][d] = Zero
    BY Zenon
  <1>7. \A l \in Langs : SeenOf(l) = {}
    BY DEF SeenOf
  <1>8. CountInv
    <2>1. repair.at = "idle"
      BY DEF NoRepair
    <2>2. \A l \in Langs : words[l] = 0
      BY Zenon
    <2>3. Cardinality({}) = 0
      BY FS_EmptySet
    <2>4. ASSUME NEW l \in Langs, NEW d \in Days
          PROVE  /\ daily[l][d].new = Cardinality(FirstSeenOn(l, d))
                 /\ Active(l, d) <=> ReviewsOn(l, d) # {}
      <3>1. /\ daily[l][d] = Zero
            /\ ReviewsOn(l, d) = {} /\ FirstSeenOn(l, d) = {}
        BY <1>5, <1>6
      <3>2. daily[l][d].new = 0 /\ daily[l][d].correct = 0 /\ daily[l][d].incorrect = 0
        BY <3>1 DEF Zero
      <3> HIDE DEF StatsInit
      <3> QED
        BY <2>3, <3>1, <3>2 DEF Active
    <2>5. \A l \in Langs : words[l] = Cardinality(SeenOf(l))
      BY <1>7, <2>2, <2>3
    <2> HIDE DEF StatsInit
    <2> QED
      BY <2>1, <2>4, <2>5 DEF CountInv
  <1>9. ExactInv
    <2>1. \A l \in Langs, d \in Days : Recount(l, d) = Zero
      <3>1. ASSUME NEW l \in Langs, NEW d \in Days
            PROVE  Recount(l, d) = Zero
        <4>1. /\ {r \in ReviewsOn(l, d) : r.correct} = {}
              /\ {r \in ReviewsOn(l, d) : ~r.correct} = {}
          BY <1>5
        <4> QED
          BY <1>5, <4>1, FS_EmptySet DEF Recount, Zero
      <3> QED
        BY <3>1
    <2> QED
      BY <1>6, <2>1 DEF ExactInv
  <1> QED
    BY <1>1, <1>2, <1>3, <1>4, <1>8, <1>9 DEF StatsInv, RowInv

\* What a recount reads of a day.
LEMMA RecountShape ==
    ASSUME IsFiniteSet(reviews), NEW l, NEW d
    PROVE  /\ IsFiniteSet(ReviewsOn(l, d)) /\ IsFiniteSet(FirstSeenOn(l, d))
           /\ Recount(l, d) \in Counts
           /\ Recount(l, d).correct + Recount(l, d).incorrect
                = Cardinality(ReviewsOn(l, d))
           /\ Recount(l, d).correct + Recount(l, d).incorrect > 0
                <=> ReviewsOn(l, d) # {}
  <1> DEFINE on == ReviewsOn(l, d)
             right == {r \in on : r.correct}
             wrong == {r \in on : ~r.correct}
             items == {r.item : r \in on}
             f == [r \in on |-> r.item]
  <1>1. IsFiniteSet(on)
    <2>1. on \in SUBSET reviews
      BY DEF ReviewsOn
    <2> QED
      BY <2>1, FS_Subset
  <1>2. IsFiniteSet(right) /\ IsFiniteSet(wrong)
    <2>1. right \in SUBSET on /\ wrong \in SUBSET on
      OBVIOUS
    <2> QED
      BY <1>1, <2>1, FS_Subset
  <1>3. IsFiniteSet(FirstSeenOn(l, d))
    <2>1. f \in Surjection(on, items)
      BY DEF Surjection
    <2>2. IsFiniteSet(items)
      <3> HIDE DEF f, items, on
      <3> QED
        BY <1>1, <2>1, FS_Surjection
    <2>3. FirstSeenOn(l, d) \in SUBSET items
      BY DEF FirstSeenOn
    <2> HIDE DEF items
    <2> QED
      BY <2>2, <2>3, FS_Subset
  <1>4. right \cap wrong = {} /\ right \cup wrong = on
    OBVIOUS
  <1>5. Recount(l, d) = [correct |-> Cardinality(right),
                         incorrect |-> Cardinality(wrong),
                         new |-> Cardinality(FirstSeenOn(l, d))]
    BY DEF Recount
  <1> HIDE DEF on, right, wrong
  <1>6. /\ Cardinality(right) \in Nat /\ Cardinality(wrong) \in Nat
        /\ Cardinality(on) = Cardinality(right) + Cardinality(wrong)
    <2>1. /\ Cardinality(right) \in Nat /\ Cardinality(wrong) \in Nat
          /\ Cardinality(right \cup wrong)
               = Cardinality(right) + Cardinality(wrong)
      BY <1>2, <1>4, DisjointUnion
    <2> QED
      BY <1>4, <2>1
  <1>7. Cardinality(FirstSeenOn(l, d)) \in Nat
    BY <1>3, FS_CardinalityType
  <1>8. Cardinality(on) = 0 <=> on = {}
    BY <1>1, FS_EmptySet
  <1>9. Recount(l, d) \in Counts
    BY <1>5, <1>6, <1>7 DEF Counts
  <1>10. Recount(l, d).correct + Recount(l, d).incorrect = Cardinality(on)
    BY <1>5, <1>6
  <1>11. Recount(l, d).correct + Recount(l, d).incorrect > 0 <=> on # {}
    BY <1>6, <1>8, <1>10
  <1> QED
    BY <1>1, <1>3, <1>9, <1>10, <1>11 DEF on

-----------------------------------------------------------------------------
(***************************************************************************)
(* The rows keep their shape.                                              *)
(***************************************************************************)
LEMMA BufferKeepsRows ==
    ASSUME RowInv, NEW s \in Sessions, NEW i \in Items, NEW correct \in BOOLEAN,
           BufferAnswer(s, i, correct)
    PROVE  RowInv'
  <1> DEFINE a == [item |-> i, correct |-> correct, day |-> today]
             b == Append(buffer[s], a)
  <1>1. /\ s \notin Finalised
        /\ buffer[s] # <<>> => ItemLang[i] = BatchLang(buffer[s])
        /\ buffer' = [buffer EXCEPT ![s] = b]
        /\ UNCHANGED <<today, reviews, seen, daily, words, repair, skew>>
    BY Zenon DEF BufferAnswer
  <1>2. /\ today \in Days /\ buffer \in [Sessions -> Seq(Answer)]
        /\ buffer[s] \in Seq(Answer) /\ a \in Answer
    BY DEF RowInv, StatsTypeOK, Answer
  <1>3. /\ b \in Seq(Answer) /\ DOMAIN b = 1..(Len(buffer[s]) + 1)
        /\ Len(buffer[s]) \in Nat /\ DOMAIN buffer[s] = 1..Len(buffer[s])
        /\ \A n \in DOMAIN buffer[s] : b[n] = buffer[s][n]
        /\ b[Len(buffer[s]) + 1] = a
    <2> HIDE DEF a
    <2> QED
      BY <1>2
  <1>4. \A n \in DOMAIN b : n \in DOMAIN buffer[s] \/ n = Len(buffer[s]) + 1
    BY <1>3
  <1>5. StatsTypeOK'
    <2> HIDE DEF b
    <2> QED
      BY <1>1, <1>2, <1>3 DEF RowInv, StatsTypeOK
  <1>6. RepairInv'
    BY <1>1 DEF RowInv, RepairInv, NoRepair
  <1>7. LogInv'
    BY <1>1 DEF RowInv, LogInv
  <1>8. Finalised' = Finalised
    BY <1>1 DEF Finalised
  <1>9. OneLanguage(b) /\ \A n \in DOMAIN b : b[n].day <= today
    <2>1. OneLanguage(buffer[s]) /\ \A n \in DOMAIN buffer[s] : buffer[s][n].day <= today
      BY DEF RowInv, BufferInv
    <2>2. today <= today
      BY <1>2 DEF Days
    <2>3. \A n \in DOMAIN b : b[n].day <= today
      BY <1>3, <1>4, <2>1, <2>2
    <2>4. ItemLang[b[1].item] = ItemLang[i]
      <3>1. CASE buffer[s] = <<>>
        BY <1>3, <3>1
      <3>2. CASE buffer[s] # <<>>
        <4>1. 1 \in DOMAIN buffer[s]
          BY <1>2, <3>2, BatchShape
        <4> QED
          BY <1>1, <1>3, <3>2, <4>1 DEF BatchLang
      <3> QED
        BY <3>1, <3>2
    <2>5. \A n \in DOMAIN buffer[s] : ItemLang[b[n].item] = ItemLang[b[1].item]
      <3>1. SUFFICES ASSUME NEW n \in DOMAIN buffer[s]
                     PROVE  ItemLang[b[n].item] = ItemLang[b[1].item]
        OBVIOUS
      <3>2. buffer[s] # <<>>
        BY <1>3
      <3>3. ItemLang[buffer[s][n].item] = ItemLang[i]
        BY <1>1, <2>1, <3>2 DEF OneLanguage
      <3> QED
        BY <1>3, <2>4, <3>3
    <2>6. \A n \in DOMAIN b : ItemLang[b[n].item] = ItemLang[b[1].item]
      BY <1>3, <1>4, <2>4, <2>5
    <2> QED
      BY <2>3, <2>6 DEF OneLanguage, BatchLang
  <1>10. BufferInv'
    <2> HIDE DEF b
    <2>1. ASSUME NEW t \in Sessions
          PROVE  /\ t \in Finalised' => buffer'[t] = <<>>
                 /\ OneLanguage(buffer'[t])
                 /\ \A n \in DOMAIN buffer'[t] : buffer'[t][n].day <= today'
      <3>1. buffer'[t] = IF t = s THEN b ELSE buffer[t]
        BY <1>1, <1>2
      <3> QED
        BY <1>1, <1>8, <1>9, <3>1 DEF RowInv, BufferInv
    <2> QED
      BY <2>1 DEF BufferInv, OneLanguage, BatchLang
  <1> QED
    BY <1>5, <1>6, <1>7, <1>10 DEF RowInv

LEMMA DayKeepsRows ==
    ASSUME RowInv, NextDay
    PROVE  RowInv'
  <1> USE DEF NextDay, RowInv
  <1>1. today \in Nat /\ today' = today + 1 /\ today' \in Days
    BY StatsAssumption DEF StatsTypeOK, Days
  <1>2. StatsTypeOK'
    BY <1>1 DEF StatsTypeOK
  <1>3. RepairInv'
    BY DEF RepairInv, NoRepair
  <1>4. LogInv'
    <2>1. \A r \in reviews : r.day \in Nat
      BY DEF StatsTypeOK, ReviewRow, Days
    <2>2. \A r \in reviews : r.day <= today'
      BY <1>1, <2>1 DEF LogInv
    <2> QED
      BY <2>2 DEF LogInv
  <1>5. BufferInv'
    <2>1. ASSUME NEW s \in Sessions
          PROVE  \A n \in DOMAIN buffer[s] : buffer[s][n].day <= today'
      <3>1. \A n \in DOMAIN buffer[s] : buffer[s][n].day \in Nat
        <4>1. buffer[s] \in Seq(Answer)
          BY DEF StatsTypeOK
        <4>2. \A n \in DOMAIN buffer[s] : buffer[s][n] \in Answer
          BY <4>1
        <4> QED
          BY <4>2 DEF Answer, Days
      <3> QED
        BY <1>1, <3>1 DEF BufferInv
    <2> QED
      BY <2>1 DEF BufferInv, OneLanguage, BatchLang, Finalised
  <1> QED
    BY <1>2, <1>3, <1>4, <1>5

LEMMA PlusShape ==
    ASSUME NEW row \in Counts, NEW right \in Nat, NEW wrong \in Nat, NEW new \in Nat
    PROVE  /\ Plus(row, right, wrong, new) \in Counts
           /\ right + wrong > 0 =>
                Plus(row, right, wrong, new).correct
                  + Plus(row, right, wrong, new).incorrect > 0
  BY DEF Plus, Counts

\* What a finalised batch adds.
LEMMA FinaliseAdds ==
    ASSUME RowInv, NEW s \in Sessions, Finalise(s)
    PROVE  LET b == buffer[s]
               l == BatchLang(b)
               right == Cardinality(Rights(b))
           IN  /\ b \in Seq(Answer) /\ b # <<>> /\ OneLanguage(b)
               /\ l \in Langs /\ today \in Days /\ s \notin Finalised
               /\ NewWords(b) \in Nat /\ right \in Nat /\ Len(b) - right \in Nat
               /\ right + (Len(b) - right) > 0
               /\ daily' = [daily EXCEPT ![l][today] =
                       Plus(@, right, Len(b) - right, NewWords(b))]
               /\ Plus(daily[l][today], right, Len(b) - right, NewWords(b))
                    \in Counts
  <1> DEFINE b == buffer[s]
             l == BatchLang(b)
             right == Cardinality(Rights(b))
  <1>1. b \in Seq(Answer) /\ b # <<>> /\ OneLanguage(b)
    BY DEF RowInv, StatsTypeOK, BufferInv, Finalise
  <1>2. l \in Langs /\ Len(b) \in Nat \ {0}
    BY <1>1, BatchShape
  <1>3. today \in Days /\ s \notin Finalised
    BY <1>1 DEF RowInv, StatsTypeOK, BufferInv
  <1>4. NewWords(b) \in Nat
    <2>1. IsFiniteSet(AnsweredItems(b) \ seen)
      BY <1>1, AnsweredShape, FS_Difference
    <2> QED
      BY <2>1, FS_CardinalityType DEF NewWords
  <1>5. right \in Nat /\ Len(b) - right \in Nat
    BY <1>1, RightsShape
  <1>6. daily' = [daily EXCEPT ![l][today] =
                    Plus(@, right, Len(b) - right, NewWords(b))]
    BY Zenon DEF Finalise
  <1>7. daily[l][today] \in Counts
    BY <1>2, <1>3 DEF RowInv, StatsTypeOK
  <1> HIDE DEF l, right, b
  <1>8. right + (Len(b) - right) > 0
    BY <1>2, <1>5
  <1>9. Plus(daily[l][today], right, Len(b) - right, NewWords(b)) \in Counts
    BY <1>4, <1>5, <1>7, PlusShape
  <1> QED
    BY <1>1, <1>2, <1>3, <1>4, <1>5, <1>6, <1>8, <1>9 DEF b, l, right

LEMMA FinaliseKeepsRows ==
    ASSUME RowInv, NEW s \in Sessions, Finalise(s)
    PROVE  RowInv'
  <1> DEFINE b == buffer[s]
             l == BatchLang(b)
             right == Cardinality(Rights(b))
             new == NewWords(b)
             row == Plus(daily[l][today], right, Len(b) - right, new)
  <1>1. /\ reviews' = reviews \union BatchReviews(s, b)
        /\ seen' = seen \union AnsweredItems(b)
        /\ words' = [words EXCEPT ![l] = @ + new]
        /\ buffer' = [buffer EXCEPT ![s] = <<>>]
        /\ skew' \subseteq skew \union {"doubled", "late", "raced"}
        /\ UNCHANGED <<today, repair>>
    BY DEF Finalise
  <1>2. /\ b \in Seq(Answer) /\ b # <<>> /\ OneLanguage(b)
        /\ l \in Langs /\ today \in Days /\ new \in Nat /\ row \in Counts
        /\ daily' = [daily EXCEPT ![l][today] = row]
    BY FinaliseAdds
  <1>3. /\ BatchReviews(s, b) \subseteq ReviewRow
        /\ IsFiniteSet(BatchReviews(s, b))
        /\ {r.item : r \in BatchReviews(s, b)} = AnsweredItems(b)
        /\ \A r \in BatchReviews(s, b) :
              /\ r.session = s /\ r.lang = ItemLang[r.item]
              /\ \E n \in DOMAIN b : r.day = b[n].day
    BY <1>2, BatchReviewsShape
  <1>4. AnsweredItems(b) \subseteq Items
    BY <1>2, AnsweredShape
  <1>5. \A n \in DOMAIN b : b[n].day <= today
    BY DEF RowInv, BufferInv
  <1>6. <<>> \in Seq(Answer)
    OBVIOUS
  <1> HIDE DEF b, l, right, new, row
  <1>7. StatsTypeOK'
    BY <1>1, <1>2, <1>3, <1>4, <1>6 DEF RowInv, StatsTypeOK, Skews
  <1>8. RepairInv'
    BY <1>1 DEF RowInv, RepairInv, NoRepair
  <1>9. LogInv'
    <2>1. IsFiniteSet(reviews')
      BY <1>1, <1>3, FS_Union DEF RowInv, LogInv
    <2>2. seen' = {r.item : r \in reviews'}
      BY <1>1, <1>3 DEF RowInv, LogInv
    <2>3. \A r \in reviews' : r.lang = ItemLang[r.item] /\ r.day <= today
      BY <1>1, <1>3, <1>5 DEF RowInv, LogInv
    <2> QED
      BY <1>1, <2>1, <2>2, <2>3 DEF LogInv
  <1>10. BufferInv'
    <2>1. ASSUME NEW t \in Sessions
          PROVE  /\ t \in Finalised' => buffer'[t] = <<>>
                 /\ OneLanguage(buffer'[t])
                 /\ \A n \in DOMAIN buffer'[t] : buffer'[t][n].day <= today'
      <3>1. buffer'[t] = IF t = s THEN <<>> ELSE buffer[t]
        BY <1>1 DEF RowInv, StatsTypeOK
      <3>2. t \in Finalised' => t = s \/ t \in Finalised
        BY <1>1, <1>3 DEF Finalised
      <3> QED
        BY <1>1, <3>1, <3>2 DEF RowInv, BufferInv, OneLanguage
    <2> QED
      BY <2>1 DEF BufferInv, OneLanguage, BatchLang
  <1> QED
    BY <1>7, <1>8, <1>9, <1>10 DEF RowInv

LEMMA ReadKeepsRows ==
    ASSUME RowInv, RepairRead
    PROVE  RowInv'
  <1>1. /\ UNCHANGED <<today, buffer, reviews, seen, daily, words, skew>>
        /\ repair' = [at |-> "read",
                      rows |-> [ld \in Reviewed |-> Recount(ld[1], ld[2])],
                      sums |-> <<>>]
    BY Zenon DEF RepairRead, Reviewed
  <1>2. StatsTypeOK'
    BY <1>1 DEF RowInv, StatsTypeOK
  <1>3. LogInv' /\ BufferInv'
    BY <1>1 DEF RowInv, LogInv, BufferInv, OneLanguage, BatchLang, Finalised
  <1>4. RepairInv'
    <2>1. Reviewed \subseteq Langs \X Days
      BY DEF Reviewed, RowInv, StatsTypeOK, ReviewRow
    <2>2. /\ DOMAIN repair'.rows = Reviewed
          /\ \A ld \in Reviewed : repair'.rows[ld] = Recount(ld[1], ld[2])
      BY <1>1, Zenon
    <2>3. ASSUME NEW ld \in Reviewed
          PROVE  /\ Recount(ld[1], ld[2]) \in Counts
                 /\ Recount(ld[1], ld[2]).correct
                      + Recount(ld[1], ld[2]).incorrect > 0
      <3>1. IsFiniteSet(reviews)
        BY DEF RowInv, LogInv
      <3>2. ReviewsOn(ld[1], ld[2]) # {}
        BY DEF Reviewed, ReviewsOn
      <3> QED
        BY <3>1, <3>2, RecountShape
    <2>4. repair'.at = "read"
      BY <1>1
    <2>5. repair' = [at |-> repair'.at, rows |-> repair'.rows,
                     sums |-> repair'.sums]
      BY <1>1
    <2> QED
      BY <2>1, <2>2, <2>3, <2>4, <2>5 DEF RepairInv
  <1> QED
    BY <1>2, <1>3, <1>4 DEF RowInv

\* The second statement sums the new words of the rows it has written.
LEMMA OverwrittenShape ==
    ASSUME RowInv, repair.at # "idle"
    PROVE  /\ Overwritten \in [Langs -> [Days -> Counts]]
           /\ \A l \in Langs, d \in Days :
                 Overwritten[l][d] = IF <<l, d>> \in DOMAIN repair.rows
                                       THEN repair.rows[<<l, d>>]
                                       ELSE daily[l][d]
           /\ \A l \in Langs : NewOf(Overwritten, l) \in Nat
  <1>1. \A l \in Langs, d \in Days :
          Overwritten[l][d] = IF <<l, d>> \in DOMAIN repair.rows
                                THEN repair.rows[<<l, d>>] ELSE daily[l][d]
    BY Zenon DEF Overwritten
  <1>2. \A l \in Langs, d \in Days : Overwritten[l][d] \in Counts
    BY <1>1 DEF RowInv, RepairInv, StatsTypeOK
  <1>3. Overwritten \in [Langs -> [Days -> Counts]]
    <2>1. /\ Overwritten = [l \in Langs |-> Overwritten[l]]
          /\ \A l \in Langs : Overwritten[l] = [d \in Days |-> Overwritten[l][d]]
      BY Zenon DEF Overwritten
    <2> QED
      BY <1>2, <2>1, Zenon
  <1>4. ASSUME NEW l \in Langs
        PROVE  NewOf(Overwritten, l) \in Nat
    <2>1. PICK sum : /\ Sums(sum, NewOn(Overwritten, l), Days)
                     /\ NewOf(Overwritten, l) = sum[Days]
      BY NewOfSums
    <2>2. \A d \in Days : NewOn(Overwritten, l)[d] \in Nat
      BY <1>2 DEF NewOn, Counts
    <2>3. IsFiniteSet(Days)
      BY FS_Interval, StatsAssumption DEF Days
    <2> QED
      BY <2>1, <2>2, <2>3, SumIsNat
  <1> QED
    BY <1>1, <1>3, <1>4

LEMMA DailyKeepsRows ==
    ASSUME RowInv, RepairDaily
    PROVE  RowInv'
  <1>1. /\ UNCHANGED <<today, buffer, reviews, seen, daily, words, skew>>
        /\ repair.at = "read"
        /\ repair' = [repair EXCEPT !.at = "locked",
                        !.sums = [l \in Langs |-> NewOf(Overwritten, l)]]
    BY Zenon DEF RepairDaily
  <1>2. repair = [at |-> repair.at, rows |-> repair.rows, sums |-> repair.sums]
    BY <1>1 DEF RowInv, RepairInv
  <1> DEFINE sums == [l \in Langs |-> NewOf(Overwritten, l)]
  <1>3. sums \in [Langs -> Nat]
    BY <1>1, OverwrittenShape
  <1>4. repair' = [repair EXCEPT !.at = "locked", !.sums = sums]
    BY <1>1
  <1> HIDE DEF sums
  <1>5. repair' = [at |-> "locked", rows |-> repair.rows, sums |-> sums]
    BY <1>2, <1>4
  <1>6. StatsTypeOK'
    BY <1>1, <1>5 DEF RowInv, StatsTypeOK
  <1>7. LogInv' /\ BufferInv'
    BY <1>1 DEF RowInv, LogInv, BufferInv, OneLanguage, BatchLang, Finalised
  <1>8. RepairInv'
    <2>1. /\ repair'.at = "locked" /\ repair'.rows = repair.rows
          /\ repair'.sums = sums
          /\ repair' = [at |-> repair'.at, rows |-> repair'.rows,
                         sums |-> repair'.sums]
      BY <1>5
    <2> QED
      BY <1>1, <1>3, <2>1 DEF RowInv, RepairInv
  <1> QED
    BY <1>6, <1>7, <1>8 DEF RowInv

LEMMA CommitKeepsRows ==
    ASSUME RowInv, RepairCommit
    PROVE  RowInv'
  <1>1. /\ repair.at = "locked" /\ daily' = Overwritten /\ words' = repair.sums
        /\ repair' = NoRepair
        /\ UNCHANGED <<today, buffer, reviews, seen, skew>>
    BY Zenon DEF RepairCommit
  <1>2. StatsTypeOK'
    <2>1. daily' \in [Langs -> [Days -> Counts]]
      BY <1>1, OverwrittenShape
    <2>2. words' \in [Langs -> Nat]
      BY <1>1 DEF RowInv, RepairInv
    <2> QED
      BY <1>1, <2>1, <2>2 DEF RowInv, StatsTypeOK, NoRepair
  <1>3. LogInv' /\ BufferInv'
    BY <1>1 DEF RowInv, LogInv, BufferInv, OneLanguage, BatchLang, Finalised
  <1>4. RepairInv'
    BY <1>1 DEF RepairInv, NoRepair
  <1> QED
    BY <1>2, <1>3, <1>4 DEF RowInv

LEMMA RowInvStep == RowInv /\ [StatsNext]_statsVars => RowInv'
  <1> SUFFICES ASSUME RowInv, [StatsNext]_statsVars
               PROVE  RowInv'
    OBVIOUS
  <1>1. ASSUME NEW s \in Sessions, NEW i \in Items, NEW correct \in BOOLEAN,
               BufferAnswer(s, i, correct)
        PROVE  RowInv'
    BY <1>1, BufferKeepsRows
  <1>2. ASSUME NEW s \in Sessions, Finalise(s) PROVE RowInv'
    BY <1>2, FinaliseKeepsRows
  <1>3. CASE NextDay
    BY <1>3, DayKeepsRows
  <1>4. CASE RepairRead
    BY <1>4, ReadKeepsRows
  <1>5. CASE RepairDaily
    BY <1>5, DailyKeepsRows
  <1>6. CASE RepairCommit
    BY <1>6, CommitKeepsRows
  <1>7. CASE UNCHANGED statsVars
    BY <1>7 DEF statsVars, RowInv, StatsTypeOK, RepairInv, BufferInv, LogInv,
                OneLanguage, BatchLang, Finalised, NoRepair
  <1> QED
    BY <1>1, <1>2, <1>3, <1>4, <1>5, <1>6, <1>7 DEF StatsNext

\* The types of the rows, and what they rest on, in every behaviour.
LEMMA RowInvariance == StatsSpec => []RowInv
  <1>1. StatsInit => RowInv
    BY StatsInitInv DEF StatsInv
  <1> QED
    BY <1>1, RowInvStep, PTL DEF StatsSpec

-----------------------------------------------------------------------------
(***************************************************************************)
(* A day with answers stays one: finalising adds to it, and a recount      *)
(* writes only the rows of days that have reviews.                         *)
(***************************************************************************)
LEMMA ActiveKept ==
    ASSUME RowInv, [StatsNext]_statsVars, NEW l \in Langs
    PROVE  ActiveDays(l) \subseteq ActiveDays(l)'
  <1>1. CASE daily' = daily
    BY <1>1 DEF ActiveDays, Active
  <1>2. ASSUME NEW s \in Sessions, Finalise(s)
        PROVE  ActiveDays(l) \subseteq ActiveDays(l)'
    <2> DEFINE b == buffer[s]
               k == BatchLang(b)
               right == Cardinality(Rights(b))
               row == Plus(daily[k][today], right, Len(b) - right, NewWords(b))
    <2>1. /\ k \in Langs /\ today \in Days /\ right \in Nat
          /\ Len(b) - right \in Nat /\ right + (Len(b) - right) > 0
          /\ NewWords(b) \in Nat
          /\ daily' = [daily EXCEPT ![k][today] = row]
      BY <1>2, FinaliseAdds
    <2>2. daily \in [Langs -> [Days -> Counts]]
      BY DEF RowInv, StatsTypeOK
    <2>3. row.correct + row.incorrect > 0
      <3>1. daily[k][today] \in Counts
        BY <2>1, <2>2
      <3> HIDE DEF k, b, right
      <3> QED
        BY <2>1, <3>1, PlusShape
    <2> HIDE DEF k, b, right, row
    <2>4. ASSUME NEW d \in Days, Active(l, d)
          PROVE  Active(l, d)'
      <3>1. CASE l = k /\ d = today
        <4>1. daily'[l][d] = row
          BY <2>1, <2>2, <3>1
        <4> QED
          BY <2>3, <4>1 DEF Active
      <3>2. CASE ~(l = k /\ d = today)
        <4>1. daily'[l][d] = daily[l][d]
          BY <2>1, <2>2, <3>2
        <4> QED
          BY <2>4, <4>1 DEF Active
      <3> QED
        BY <3>1, <3>2
    <2> QED
      BY <2>4 DEF ActiveDays
  <1>3. CASE RepairCommit
    <2>1. daily' = Overwritten /\ repair.at # "idle"
      BY <1>3 DEF RepairCommit
    <2>2. ASSUME NEW d \in Days, Active(l, d)
          PROVE  Active(l, d)'
      <3>1. daily'[l][d] = IF <<l, d>> \in DOMAIN repair.rows
                             THEN repair.rows[<<l, d>>] ELSE daily[l][d]
        BY <2>1, OverwrittenShape
      <3> QED
        BY <2>1, <2>2, <3>1 DEF Active, RowInv, RepairInv
    <2> QED
      BY <2>2 DEF ActiveDays
  <1>4. \/ daily' = daily
        \/ \E s \in Sessions : Finalise(s)
        \/ RepairCommit
    BY DEF StatsNext, statsVars, BufferAnswer, NextDay, RepairRead, RepairDaily
  <1> QED
    BY <1>1, <1>2, <1>3, <1>4

\* The day changes alone, by one.
LEMMA DayStep ==
    ASSUME RowInv, [StatsNext]_statsVars
    PROVE  /\ today' = today \/ (today' = today + 1 /\ daily' = daily)
           /\ today \in Days /\ today' \in Days /\ today \in Nat
  <1>1. today' = today \/ (today' = today + 1 /\ daily' = daily)
    BY DEF StatsNext, statsVars, BufferAnswer, Finalise, NextDay, RepairRead,
           RepairDaily, RepairCommit
  <1>2. today \in Days /\ today' \in Days
    BY RowInvStep DEF RowInv, StatsTypeOK
  <1> QED
    BY <1>1, <1>2 DEF Days

LEMMA StreakStep ==
    ASSUME RowInv, [StatsNext]_statsVars, NEW l \in Studied
    PROVE  /\ l \in Studied'
           /\ Streak(l)' < Streak(l) => today' # today /\ ~Active(l, today)
  <1> DEFINE A == ActiveDays(l)
             B == ActiveDays(l)'
             run == Backward(l)
             more == Backward(l)'
  <1>1. l \in Langs /\ MaxDay \in Nat /\ A \subseteq B
    BY ActiveKept, StatsAssumption DEF Studied
  <1>2. \A d \in 0..MaxDay : run[d] \in Nat /\ more[d] \in Nat /\ run[d] <= more[d]
    BY <1>1, BackwardRuns, RunKept
  <1>3. l \in Studied'
    <2>1. A # {}
      BY DEF Studied, ActiveDays
    <2>2. B # {}
      BY <1>1, <2>1
    <2> QED
      BY <1>1, <2>2 DEF Studied, ActiveDays
  <1>4. \A d \in Days : /\ Active(l, d) <=> d \in A
                        /\ Active(l, d)' <=> d \in B
    BY DEF ActiveDays
  <1>5. Streak(l) = IF today \in A THEN run[today]
                    ELSE IF today > 0 THEN run[today - 1] ELSE 0
    BY <1>4, DayStep DEF Streak
  <1>6. Streak(l)' = IF today' \in B THEN more[today']
                     ELSE IF today' > 0 THEN more[today' - 1] ELSE 0
    BY <1>4, DayStep DEF Streak
  <1>7. /\ today \in A => run[today] = IF today = 0 THEN 1 ELSE 1 + run[today - 1]
        /\ today' \in B => more[today'] = IF today' = 0 THEN 1
                                          ELSE 1 + more[today' - 1]
    <2>1. today \in 0..MaxDay /\ today' \in 0..MaxDay
      BY DayStep DEF Days
    <2>2. Runs(run, A, MaxDay) /\ Runs(more, B, MaxDay)
      BY BackwardRuns
    <2> HIDE DEF run, more, A, B
    <2>3. today \in A => run[today] = IF today = 0 THEN 1 ELSE 1 + run[today - 1]
      BY <1>1, <2>1, <2>2, RunStep, Zenon
    <2>4. today' \in B => more[today'] = IF today' = 0 THEN 1
                                         ELSE 1 + more[today' - 1]
      BY <1>1, <2>1, <2>2, RunStep, Zenon
    <2> QED
      BY <2>3, <2>4
  <1>8. ASSUME today' = today \/ Active(l, today)
        PROVE  Streak(l) <= Streak(l)'
    <2>1. today \in 0..MaxDay /\ today' \in 0..MaxDay
      BY DayStep DEF Days
    <2>2. /\ today > 0 => today - 1 \in 0..MaxDay
          /\ today' > 0 => today' - 1 \in 0..MaxDay
      <3>1. MaxDay \in Nat => \A d \in 0..MaxDay : d > 0 => d - 1 \in 0..MaxDay
        OBVIOUS
      <3> QED
        BY <1>1, <2>1, <3>1
    <2>3. /\ run[today] \in Nat /\ more[today] \in Nat /\ run[today] <= more[today]
          /\ more[today'] \in Nat
          /\ today > 0 => /\ run[today - 1] \in Nat /\ more[today - 1] \in Nat
                          /\ run[today - 1] <= more[today - 1]
      BY <1>2, <2>1, <2>2
    <2>4. CASE today' = today
      <3> HIDE DEF run, more, A, B
      <3> QED
        BY <1>1, <1>5, <1>6, <1>7, <2>1, <2>2, <2>3, <2>4
    <2>5. CASE today' = today + 1 /\ Active(l, today)
      <3>1. today \in A /\ today' > 0 /\ today' - 1 = today
        BY <1>4, <2>1, <2>5, DayStep
      <3>2. today' # 0 /\ Streak(l) = run[today]
        <4> HIDE DEF run, A
        <4> QED
          BY <1>5, <2>1, <3>1
      <3>3. Streak(l)' = IF today' \in B THEN 1 + more[today] ELSE more[today]
        <4> HIDE DEF more, B
        <4> QED
          BY <1>6, <1>7, <3>1, <3>2
      <3> HIDE DEF run, more, A, B
      <3> QED
        BY <2>3, <3>2, <3>3
    <2> QED
      BY <1>8, <2>4, <2>5, DayStep
  <1>9. Streak(l) \in Nat /\ Streak(l)' \in Nat
    <2>1. /\ today \in 0..MaxDay /\ today' \in 0..MaxDay
          /\ today > 0 => today - 1 \in 0..MaxDay
          /\ today' > 0 => today' - 1 \in 0..MaxDay
      BY DayStep, StatsAssumption DEF Days
    <2>2. /\ run[today] \in Nat /\ more[today'] \in Nat
          /\ today > 0 => run[today - 1] \in Nat
          /\ today' > 0 => more[today' - 1] \in Nat
      BY <1>2, <2>1
    <2> HIDE DEF run, more, A, B
    <2> QED
      BY <1>5, <1>6, <2>2
  <1> QED
    BY <1>3, <1>8, <1>9

\* The streak of the overview is lost by a day without an answer, and by
\* nothing else.
THEOREM StreaksAreKept == StatsSpec => StreakKept
  <1>1. ASSUME RowInv, [StatsNext]_statsVars, NEW l \in DOMAIN GetOverview
        PROVE  /\ l \in DOMAIN GetOverview'
               /\ GetOverview'[l].streak < GetOverview[l].streak
                    => today' # today /\ ~Active(l, today)
    <2>1. /\ DOMAIN GetOverview = Studied /\ DOMAIN GetOverview' = Studied'
          /\ \A k \in Studied : GetOverview[k].streak = Streak(k)
          /\ \A k \in Studied' : GetOverview'[k].streak = Streak(k)'
      BY DEF GetOverview
    <2>2. l \in Studied
      BY <2>1
    <2>3. /\ l \in Studied'
          /\ Streak(l)' < Streak(l) => today' # today /\ ~Active(l, today)
      BY <1>1, <2>2, StreakStep
    <2> QED
      BY <2>1, <2>2, <2>3
  <1>2. RowInv /\ [StatsNext]_statsVars
          => [\A l \in DOMAIN GetOverview :
                 /\ l \in DOMAIN GetOverview'
                 /\ GetOverview'[l].streak < GetOverview[l].streak
                      => today' # today /\ ~Active(l, today)]_statsVars
    BY <1>1
  <1> QED
    BY <1>2, RowInvariance, PTL DEF StatsSpec, StreakKept

-----------------------------------------------------------------------------
(***************************************************************************)
(* The counts: the day a word was first seen on.                           *)
(***************************************************************************)
LEMMA MinIs ==
    ASSUME NEW S \in SUBSET Nat, NEW m \in S, \A k \in S : m <= k
    PROVE  Min(S) = m
  <1>1. \A x \in S : (\A y \in S : x <= y) => x = m
    <2>1. \A x \in S : x \in Nat
      OBVIOUS
    <2> QED
      BY <2>1
  <1> QED
    BY <1>1 DEF Min

DaysOf(i) == {r.day : r \in {q \in reviews : q.item = i}}

LEMMA FirstSeenShape ==
    ASSUME RowInv, NEW i \in seen
    PROVE  /\ DaysOf(i) \in SUBSET Nat
           /\ FirstSeen(i) \in DaysOf(i) /\ FirstSeen(i) \in Days
           /\ \A d \in DaysOf(i) : FirstSeen(i) <= d
           /\ i \in {r.item : r \in ReviewsOn(ItemLang[i], FirstSeen(i))}
  <1>1. DaysOf(i) \subseteq Days /\ DaysOf(i) \in SUBSET Nat
    BY DEF DaysOf, RowInv, StatsTypeOK, ReviewRow, Days
  <1>2. DaysOf(i) # {}
    BY DEF DaysOf, RowInv, LogInv
  <1>3. PICK m \in DaysOf(i) : \A d \in DaysOf(i) : m <= d
    BY <1>1, <1>2, LeastNumber
  <1>4. FirstSeen(i) = m
    BY <1>1, <1>3, MinIs DEF FirstSeen, DaysOf
  <1>5. PICK r \in reviews : r.item = i /\ r.day = m
    BY <1>3 DEF DaysOf
  <1>6. r \in ReviewsOn(ItemLang[i], m)
    BY <1>5 DEF ReviewsOn, RowInv, LogInv
  <1> QED
    BY <1>1, <1>3, <1>4, <1>5, <1>6

\* The words of a language, by the day they were first seen on.
LEMMA FirstSeenParts ==
    ASSUME RowInv, NEW l \in Langs
    PROVE  /\ UNION {FirstSeenOn(l, d) : d \in Days} = SeenOf(l)
           /\ \A d, e \in Days : d # e => FirstSeenOn(l, d) \cap FirstSeenOn(l, e) = {}
           /\ IsFiniteSet(SeenOf(l)) /\ IsFiniteSet(seen)
  <1>1. \A d \in Days : \A i \in FirstSeenOn(l, d) :
          i \in seen /\ ItemLang[i] = l /\ FirstSeen(i) = d
    BY DEF FirstSeenOn, ReviewsOn, RowInv, LogInv
  <1>2. \A i \in SeenOf(l) : \E d \in Days : i \in FirstSeenOn(l, d)
    BY FirstSeenShape DEF SeenOf, FirstSeenOn
  <1>3. IsFiniteSet(seen)
    <2> DEFINE f == [r \in reviews |-> r.item]
               T == {r.item : r \in reviews}
    <2>1. f \in Surjection(reviews, T)
      BY DEF Surjection
    <2>2. IsFiniteSet(reviews) /\ seen = T
      BY DEF RowInv, LogInv
    <2> HIDE DEF f, T
    <2> QED
      BY <2>1, <2>2, FS_Surjection
  <1>4. IsFiniteSet(SeenOf(l))
    <2>1. SeenOf(l) \in SUBSET seen
      BY DEF SeenOf
    <2> QED
      BY <1>3, <2>1, FS_Subset
  <1>5. UNION {FirstSeenOn(l, d) : d \in Days} = SeenOf(l)
    BY <1>1, <1>2 DEF SeenOf
  <1>6. \A d, e \in Days : d # e => FirstSeenOn(l, d) \cap FirstSeenOn(l, e) = {}
    BY <1>1
  <1> QED
    BY <1>3, <1>4, <1>5, <1>6

\* What the second statement of the recount sums up.
LEMMA RecountedWords ==
    ASSUME RowInv, NEW l \in Langs, NEW rows,
           \A d \in Days : rows[l][d].new = Cardinality(FirstSeenOn(l, d))
    PROVE  NewOf(rows, l) = Cardinality(SeenOf(l))
  <1>1. PICK sum : /\ Sums(sum, NewOn(rows, l), Days)
                   /\ NewOf(rows, l) = sum[Days]
    BY NewOfSums
  <1> DEFINE P == [d \in Days |-> FirstSeenOn(l, d)]
             g == NewOn(rows, l)
  <1>2. IsFiniteSet(Days)
    BY FS_Interval, StatsAssumption DEF Days
  <1>3. \A d \in Days : IsFiniteSet(FirstSeenOn(l, d))
    BY RecountShape DEF RowInv, LogInv
  <1>4. \A d \in Days : P[d] = FirstSeenOn(l, d)
    BY Zenon
  <1>5. \A d \in Days : g[d] = Cardinality(FirstSeenOn(l, d))
    BY DEF NewOn
  <1>6. \A d, e \in Days : d # e => FirstSeenOn(l, d) \cap FirstSeenOn(l, e) = {}
    BY FirstSeenParts
  <1>7. {P[d] : d \in Days} = {FirstSeenOn(l, d) : d \in Days}
    BY <1>4
  <1>8. Together(P, Days) = SeenOf(l)
    BY <1>7, FirstSeenParts DEF Together
  <1> HIDE DEF P, g
  <1>9. \A d \in Days : IsFiniteSet(P[d]) /\ g[d] = Cardinality(P[d])
    BY <1>3, <1>4, <1>5
  <1>10. \A d, e \in Days : d # e => P[d] \cap P[e] = {}
    BY <1>4, <1>6
  <1>11. sum[Days] = Cardinality(Together(P, Days))
    <2>1. Sums(sum, g, Days)
      BY <1>1 DEF g
    <2> QED
      BY <1>2, <1>9, <1>10, <2>1, SumOfParts
  <1> QED
    BY <1>1, <1>8, <1>11

\* A session finalised in order, of answers given today and with no recount
\* running.
LEMMA FinaliseInOrder ==
    ASSUME RowInv, NEW s \in Sessions, Finalise(s), InOrder'
    PROVE  /\ InOrder /\ repair.at = "idle" /\ repair' = repair
           /\ \A n \in DOMAIN buffer[s] : buffer[s][n].day = today
           /\ \A r \in BatchReviews(s, buffer[s]) :
                 r.day = today /\ r.lang = BatchLang(buffer[s])
           /\ skew \subseteq skew'
  <1> DEFINE b == buffer[s]
  <1>1. skew' = skew
             \union (IF FirstOfItem(b) # DOMAIN b THEN {"doubled"} ELSE {})
             \union (IF \E a \in Elements(b) : a.day # today
                     THEN {"late"} ELSE {})
             \union (IF repair.at # "idle" THEN {"raced"} ELSE {})
    BY Zenon DEF Finalise
  <1>2. InOrder /\ repair.at = "idle" /\ \A a \in Elements(b) : a.day = today
    BY <1>1 DEF InOrder
  <1>3. \A n \in DOMAIN b : b[n].day = today
    BY <1>2 DEF Elements
  <1>4. \A r \in BatchReviews(s, b) : r.day = today /\ r.lang = BatchLang(b)
    <2>1. b \in Seq(Answer) /\ b # <<>> /\ OneLanguage(b)
      BY FinaliseAdds
    <2>2. \A r \in BatchReviews(s, b) :
            r.lang = BatchLang(b) /\ \E n \in DOMAIN b : r.day = b[n].day
      BY <2>1, BatchReviewsShape
    <2> QED
      BY <1>3, <2>2
  <1> QED
    BY <1>1, <1>2, <1>3, <1>4 DEF Finalise

LEMMA FinaliseSees ==
    ASSUME RowInv, NEW s \in Sessions, Finalise(s), InOrder',
           NEW b, b = buffer[s], NEW k, k = BatchLang(b)
    PROVE  /\ \A l \in Langs, d \in Days : ~(l = k /\ d = today) =>
                 /\ ReviewsOn(l, d)' = ReviewsOn(l, d)
                 /\ FirstSeenOn(l, d)' = FirstSeenOn(l, d)
           /\ \A d \in Days : d = today =>
                 /\ ReviewsOn(k, d)' = ReviewsOn(k, d) \cup BatchReviews(s, b)
                 /\ FirstSeenOn(k, d)'
                      = FirstSeenOn(k, d) \cup (AnsweredItems(b) \ seen)
                 /\ FirstSeenOn(k, d) \cap (AnsweredItems(b) \ seen) = {}
           /\ \A i \in AnsweredItems(b) : ItemLang[i] = k
  <1> DEFINE new == BatchReviews(s, b)
  <1>1. /\ b \in Seq(Answer) /\ b # <<>> /\ OneLanguage(b) /\ k \in Langs
        /\ today \in Days
    BY FinaliseAdds
  <1>2. /\ reviews' = reviews \union new /\ today' = today
        /\ seen' = seen \union AnsweredItems(b)
    BY DEF Finalise
  <1>3. /\ {r.item : r \in new} = AnsweredItems(b)
        /\ \A r \in new : r.lang = ItemLang[r.item]
    BY <1>1, BatchReviewsShape
  <1>4. \A r \in new : r.day = today /\ r.lang = k
    BY FinaliseInOrder
  <1> HIDE DEF new
  <1>5. ASSUME NEW i \in seen
        PROVE  FirstSeen(i)' = FirstSeen(i)
    <2> DEFINE D == DaysOf(i)'
    <2>1. /\ DaysOf(i) \in SUBSET Nat /\ FirstSeen(i) \in DaysOf(i)
          /\ \A d \in DaysOf(i) : FirstSeen(i) <= d
      BY FirstSeenShape
    <2>2. \A d \in D : d \in DaysOf(i) \/ d = today
      BY <1>2, <1>4 DEF DaysOf
    <2>3. DaysOf(i) \subseteq D
      BY <1>2 DEF DaysOf
    <2>4. \A d \in DaysOf(i) : d <= today
      BY DEF DaysOf, RowInv, LogInv
    <2>5. today \in Nat
      BY <1>1 DEF Days
    <2>6. D \in SUBSET Nat /\ FirstSeen(i) \in D /\ \A d \in D : FirstSeen(i) <= d
      <3> HIDE DEF D
      <3> QED
        BY <2>1, <2>2, <2>3, <2>4, <2>5
    <2>7. Min(D) = FirstSeen(i)
      <3> HIDE DEF D
      <3> QED
        BY <2>6, MinIs
    <2> QED
      BY <2>7 DEF FirstSeen, DaysOf
  <1>6. ASSUME NEW i \in AnsweredItems(b) \ seen
        PROVE  FirstSeen(i)' = today /\ ItemLang[i] = k
    <2> DEFINE D == DaysOf(i)'
    <2>1. PICK r \in new : r.item = i
      BY <1>3
    <2>2. ItemLang[i] = k
      BY <1>3, <1>4, <2>1
    <2>3. \A q \in reviews : q.item # i
      BY DEF RowInv, LogInv
    <2>4. today \in D /\ \A d \in D : d = today
      BY <1>2, <1>4, <2>1, <2>3 DEF DaysOf
    <2>5. Min(D) = today
      <3>1. today \in Nat /\ today <= today
        BY <1>1 DEF Days
      <3> HIDE DEF D
      <3>2. D \in SUBSET Nat
        BY <2>4, <3>1
      <3> QED
        BY <2>4, <3>1, <3>2, MinIs
    <2> QED
      BY <2>2, <2>5 DEF FirstSeen, DaysOf
  <1>7. ASSUME NEW l \in Langs, NEW d \in Days, ~(l = k /\ d = today)
        PROVE  /\ ReviewsOn(l, d)' = ReviewsOn(l, d)
               /\ FirstSeenOn(l, d)' = FirstSeenOn(l, d)
    <2>1. ReviewsOn(l, d)' = ReviewsOn(l, d)
      BY <1>2, <1>4, <1>7 DEF ReviewsOn
    <2>2. \A i \in {r.item : r \in ReviewsOn(l, d)} : i \in seen
      BY DEF ReviewsOn, RowInv, LogInv
    <2> QED
      BY <1>5, <2>1, <2>2 DEF FirstSeenOn
  <1>8. \A i \in AnsweredItems(b) : ItemLang[i] = k
    BY <1>3, <1>4
  <1>9. ASSUME NEW d \in Days, d = today
        PROVE  /\ ReviewsOn(k, d)' = ReviewsOn(k, d) \cup new
               /\ FirstSeenOn(k, d)'
                    = FirstSeenOn(k, d) \cup (AnsweredItems(b) \ seen)
               /\ FirstSeenOn(k, d) \cap (AnsweredItems(b) \ seen) = {}
    <2>1. ReviewsOn(k, d)' = ReviewsOn(k, d) \cup new
      BY <1>2, <1>4, <1>9 DEF ReviewsOn
    <2>2. /\ FirstSeenOn(k, d)
               = {i \in {r.item : r \in ReviewsOn(k, d)} : FirstSeen(i) = d}
          /\ FirstSeenOn(k, d)'
               = {i \in {r.item : r \in ReviewsOn(k, d)'} : FirstSeen(i)' = d}
      BY DEF FirstSeenOn
    <2>3. {r.item : r \in ReviewsOn(k, d)'}
            = {r.item : r \in ReviewsOn(k, d)} \cup AnsweredItems(b)
      BY <1>3, <2>1
    <2>4. \A i \in {r.item : r \in ReviewsOn(k, d)} : i \in seen
      BY DEF ReviewsOn, RowInv, LogInv
    <2>5. ASSUME NEW i \in AnsweredItems(b), i \in seen, FirstSeen(i) = d
          PROVE  i \in {r.item : r \in ReviewsOn(k, d)}
      BY <1>8, <2>5, FirstSeenShape
    <2>6. FirstSeenOn(k, d)'
            = FirstSeenOn(k, d) \cup (AnsweredItems(b) \ seen)
      <3>1. \A i \in FirstSeenOn(k, d)' :
              i \in FirstSeenOn(k, d) \cup (AnsweredItems(b) \ seen)
        BY <1>5, <2>2, <2>3, <2>4, <2>5
      <3>2. \A i \in FirstSeenOn(k, d) \cup (AnsweredItems(b) \ seen) :
              i \in FirstSeenOn(k, d)'
        BY <1>5, <1>6, <1>9, <2>2, <2>3, <2>4
      <3> QED
        BY <3>1, <3>2
    <2>7. FirstSeenOn(k, d) \cap (AnsweredItems(b) \ seen) = {}
      BY <2>2, <2>4
    <2> QED
      BY <2>1, <2>6, <2>7
  <1> QED
    BY <1>7, <1>8, <1>9 DEF new

\* Finalising in order adds the new words of the batch, and its day.
LEMMA FinaliseCounts ==
    ASSUME RowInv, CountInv, NEW s \in Sessions, Finalise(s)
    PROVE  CountInv'
  <1> SUFFICES ASSUME InOrder'
               PROVE  /\ \A l \in Langs, d \in Days :
                            /\ daily'[l][d].new = Cardinality(FirstSeenOn(l, d)')
                            /\ Active(l, d)' <=> ReviewsOn(l, d)' # {}
                      /\ \A l \in Langs :
                            words'[l] = Cardinality(SeenOf(l)')
                      /\ repair'.at = "idle"
    BY DEF CountInv
  <1>1. InOrder /\ repair'.at = "idle"
    BY FinaliseInOrder
  <1>2. PICK b : b = buffer[s]
    OBVIOUS
  <1>3. PICK k : k = BatchLang(b)
    OBVIOUS
  <1>4. PICK fresh : fresh = AnsweredItems(b) \ seen
    OBVIOUS
  <1> DEFINE right == Cardinality(Rights(b))
             row == Plus(daily[k][today], right, Len(b) - right, NewWords(b))
  <1>5. /\ b \in Seq(Answer) /\ b # <<>> /\ OneLanguage(b)
        /\ k \in Langs /\ today \in Days
        /\ right \in Nat /\ Len(b) - right \in Nat /\ right + (Len(b) - right) > 0
        /\ NewWords(b) \in Nat
        /\ daily' = [daily EXCEPT ![k][today] = row]
    BY <1>2, <1>3, FinaliseAdds
  <1>6. daily \in [Langs -> [Days -> Counts]] /\ words \in [Langs -> Nat]
    BY DEF RowInv, StatsTypeOK
  <1>7. IsFiniteSet(fresh) /\ NewWords(b) = Cardinality(fresh)
    <2>1. IsFiniteSet(AnsweredItems(b))
      BY <1>5, AnsweredShape
    <2> QED
      BY <1>4, <2>1, FS_Difference DEF NewWords
  <1>8. /\ \A l \in Langs, d \in Days :
              /\ daily[l][d].new = Cardinality(FirstSeenOn(l, d))
              /\ Active(l, d) <=> ReviewsOn(l, d) # {}
        /\ \A l \in Langs : words[l] = Cardinality(SeenOf(l))
    BY <1>1 DEF CountInv
  <1>9. row.new = daily[k][today].new + Cardinality(fresh)
    BY <1>7 DEF Plus
  <1>10. row.correct + row.incorrect > 0
    <2>1. daily[k][today] \in Counts
      BY <1>5, <1>6
    <2> HIDE DEF right
    <2> QED
      BY <1>5, <2>1, PlusShape
  <1> HIDE DEF row, right
  <1>11. ASSUME NEW l \in Langs, NEW d \in Days
         PROVE  /\ daily'[l][d].new = Cardinality(FirstSeenOn(l, d)')
                /\ Active(l, d)' <=> ReviewsOn(l, d)' # {}
    <2>1. CASE ~(l = k /\ d = today)
      <3>1. daily'[l][d] = daily[l][d]
        BY <1>5, <1>6, <2>1
      <3>2. /\ ReviewsOn(l, d)' = ReviewsOn(l, d)
            /\ FirstSeenOn(l, d)' = FirstSeenOn(l, d)
        BY <1>2, <1>3, <2>1, FinaliseSees
      <3>3. Active(l, d)' <=> Active(l, d)
        BY <3>1 DEF Active
      <3> QED
        BY <1>8, <3>1, <3>2, <3>3
    <2>2. CASE l = k /\ d = today
      <3>1. daily'[l][d] = row
        BY <1>5, <1>6, <2>2
      <3>2. /\ ReviewsOn(l, d)' = ReviewsOn(l, d) \cup BatchReviews(s, b)
            /\ FirstSeenOn(l, d)' = FirstSeenOn(l, d) \cup fresh
            /\ FirstSeenOn(l, d) \cap fresh = {}
        BY <1>2, <1>3, <1>4, <2>2, FinaliseSees
      <3>3. Active(l, d)'
        BY <1>10, <3>1 DEF Active
      <3>4. BatchReviews(s, b) # {}
        BY <1>5, BatchReviewsShape
      <3>5. IsFiniteSet(FirstSeenOn(l, d))
        BY RecountShape DEF RowInv, LogInv
      <3>6. Cardinality(FirstSeenOn(l, d) \cup fresh)
              = Cardinality(FirstSeenOn(l, d)) + Cardinality(fresh)
        BY <1>7, <3>2, <3>5, DisjointUnion
      <3> QED
        BY <1>8, <1>9, <2>2, <3>1, <3>2, <3>3, <3>4, <3>6
    <2> QED
      BY <2>1, <2>2
  <1>12. ASSUME NEW l \in Langs
         PROVE  words'[l] = Cardinality(SeenOf(l)')
    <2>1. /\ seen' = seen \cup fresh
          /\ words' = [words EXCEPT ![k] = @ + Cardinality(fresh)]
      BY <1>2, <1>3, <1>4, <1>7 DEF Finalise
    <2>2. \A i \in fresh : ItemLang[i] = k /\ i \notin seen
      BY <1>2, <1>3, <1>4, FinaliseSees
    <2>3. CASE l # k
      <3>1. SeenOf(l)' = SeenOf(l)
        BY <2>1, <2>2, <2>3 DEF SeenOf
      <3> QED
        BY <1>6, <1>8, <2>1, <2>3, <3>1
    <2>4. CASE l = k
      <3>1. SeenOf(l)' = SeenOf(l) \cup fresh /\ SeenOf(l) \cap fresh = {}
        BY <2>1, <2>2, <2>4 DEF SeenOf
      <3>2. IsFiniteSet(SeenOf(l))
        BY FirstSeenParts
      <3>3. Cardinality(SeenOf(l) \cup fresh)
              = Cardinality(SeenOf(l)) + Cardinality(fresh)
        BY <1>7, <3>1, <3>2, DisjointUnion
      <3> QED
        BY <1>6, <1>8, <2>1, <2>4, <3>1, <3>3
    <2> QED
      BY <2>3, <2>4
  <1> QED
    BY <1>1, <1>11, <1>12

-----------------------------------------------------------------------------
\* The recount changes no count that is in order.
LEMMA ReadCounts ==
    ASSUME RowInv, CountInv, RepairRead
    PROVE  CountInv'
  <1>1. /\ UNCHANGED <<reviews, seen, daily, words, skew>>
        /\ repair' = [at |-> "read",
                      rows |-> [ld \in Reviewed |-> Recount(ld[1], ld[2])],
                      sums |-> <<>>]
    BY Zenon DEF RepairRead, Reviewed
  <1>2. /\ repair'.at = "read"
        /\ repair'.rows = [ld \in Reviewed |-> Recount(ld[1], ld[2])]
    BY <1>1
  <1>3. /\ \A l, d : /\ ReviewsOn(l, d)' = ReviewsOn(l, d)
                     /\ FirstSeenOn(l, d)' = FirstSeenOn(l, d)
                     /\ Active(l, d)' = Active(l, d)
                     /\ Recount(l, d)' = Recount(l, d)
        /\ \A l : SeenOf(l)' = SeenOf(l)
        /\ Reviewed' = Reviewed /\ InOrder' = InOrder
    BY <1>1 DEF ReviewsOn, FirstSeenOn, FirstSeen, Active, Recount, SeenOf,
                Reviewed, InOrder
  <1> QED
    BY <1>1, <1>2, <1>3 DEF CountInv

LEMMA OverwrittenCounts ==
    ASSUME RowInv, CountInv, InOrder, repair.at # "idle"
    PROVE  \A l \in Langs, d \in Days :
              /\ Overwritten[l][d] = IF <<l, d>> \in Reviewed THEN Recount(l, d)
                                     ELSE daily[l][d]
              /\ Overwritten[l][d].new = Cardinality(FirstSeenOn(l, d))
              /\ Overwritten[l][d].correct + Overwritten[l][d].incorrect > 0
                   <=> ReviewsOn(l, d) # {}
  <1>1. repair.rows = [ld \in Reviewed |-> Recount(ld[1], ld[2])]
    BY DEF CountInv
  <1>2. SUFFICES ASSUME NEW l \in Langs, NEW d \in Days
        PROVE  /\ Overwritten[l][d] = IF <<l, d>> \in Reviewed THEN Recount(l, d)
                                      ELSE daily[l][d]
               /\ Overwritten[l][d].new = Cardinality(FirstSeenOn(l, d))
               /\ Overwritten[l][d].correct + Overwritten[l][d].incorrect > 0
                    <=> ReviewsOn(l, d) # {}
    OBVIOUS
  <1>3. Overwritten[l][d] = IF <<l, d>> \in Reviewed THEN Recount(l, d)
                            ELSE daily[l][d]
    BY <1>1, OverwrittenShape
  <1>4. CASE <<l, d>> \in Reviewed
    <2>1. Recount(l, d).new = Cardinality(FirstSeenOn(l, d))
      BY DEF Recount
    <2>2. Recount(l, d).correct + Recount(l, d).incorrect > 0
            <=> ReviewsOn(l, d) # {}
      BY RecountShape DEF RowInv, LogInv
    <2> QED
      BY <1>3, <1>4, <2>1, <2>2
  <1>5. CASE <<l, d>> \notin Reviewed
    BY <1>3, <1>5 DEF CountInv, Active
  <1> QED
    BY <1>3, <1>4, <1>5

LEMMA DailyCounts ==
    ASSUME RowInv, CountInv, RepairDaily
    PROVE  CountInv'
  <1>1. /\ UNCHANGED <<reviews, seen, daily, words, skew>>
        /\ repair.at = "read"
        /\ repair' = [repair EXCEPT !.at = "locked",
                        !.sums = [l \in Langs |-> NewOf(Overwritten, l)]]
    BY Zenon DEF RepairDaily
  <1>2. repair = [at |-> repair.at, rows |-> repair.rows, sums |-> repair.sums]
    BY <1>1 DEF RowInv, RepairInv
  <1> DEFINE sums == [l \in Langs |-> NewOf(Overwritten, l)]
  <1>3. \A l \in Langs : sums[l] = NewOf(Overwritten, l)
    BY Zenon
  <1>4. repair'.rows = repair.rows /\ repair'.sums = sums
    <2>1. repair' = [repair EXCEPT !.at = "locked", !.sums = sums]
      BY <1>1
    <2> HIDE DEF sums
    <2> QED
      BY <1>2, <2>1
  <1> HIDE DEF sums
  <1>5. InOrder => \A l \in Langs : sums[l] = Cardinality(SeenOf(l))
    BY <1>1, <1>3, OverwrittenCounts, RecountedWords
  <1>6. /\ \A l, d : /\ ReviewsOn(l, d)' = ReviewsOn(l, d)
                     /\ FirstSeenOn(l, d)' = FirstSeenOn(l, d)
                     /\ Active(l, d)' = Active(l, d)
                     /\ Recount(l, d)' = Recount(l, d)
        /\ \A l : SeenOf(l)' = SeenOf(l)
        /\ Reviewed' = Reviewed /\ InOrder' = InOrder
    BY <1>1 DEF ReviewsOn, FirstSeenOn, FirstSeen, Active, Recount, SeenOf,
                Reviewed, InOrder
  <1> QED
    BY <1>1, <1>4, <1>5, <1>6 DEF CountInv

LEMMA CommitCounts ==
    ASSUME RowInv, CountInv, RepairCommit
    PROVE  CountInv'
  <1>1. /\ repair.at = "locked" /\ daily' = Overwritten /\ words' = repair.sums
        /\ repair'.at = "idle"
        /\ UNCHANGED <<reviews, seen, skew>>
    BY DEF RepairCommit, NoRepair
  <1>2. /\ \A l, d : /\ ReviewsOn(l, d)' = ReviewsOn(l, d)
                     /\ FirstSeenOn(l, d)' = FirstSeenOn(l, d)
        /\ \A l : SeenOf(l)' = SeenOf(l)
        /\ InOrder' = InOrder
    BY <1>1 DEF ReviewsOn, FirstSeenOn, FirstSeen, SeenOf, InOrder
  <1>3. ASSUME InOrder, NEW l \in Langs, NEW d \in Days
        PROVE  /\ daily'[l][d].new = Cardinality(FirstSeenOn(l, d))
               /\ Active(l, d)' <=> ReviewsOn(l, d) # {}
    BY <1>1, <1>3, OverwrittenCounts DEF Active
  <1>4. InOrder => \A l \in Langs : words'[l] = Cardinality(SeenOf(l))
    BY <1>1 DEF CountInv
  <1> QED
    BY <1>1, <1>2, <1>3, <1>4 DEF CountInv

\* A step that leaves the rows and the reviews alone.
LEMMA OthersCount ==
    ASSUME CountInv, ExactInv,
           UNCHANGED <<reviews, seen, daily, words, repair, skew>>
    PROVE  CountInv' /\ ExactInv'
  <1>1. /\ \A l, d : /\ ReviewsOn(l, d)' = ReviewsOn(l, d)
                     /\ FirstSeenOn(l, d)' = FirstSeenOn(l, d)
                     /\ Active(l, d)' = Active(l, d)
                     /\ Recount(l, d)' = Recount(l, d)
        /\ \A l : SeenOf(l)' = SeenOf(l)
        /\ Reviewed' = Reviewed /\ InOrder' = InOrder
    BY DEF ReviewsOn, FirstSeenOn, FirstSeen, Active, Recount, SeenOf,
           Reviewed, InOrder
  <1> QED
    BY <1>1 DEF CountInv, ExactInv

-----------------------------------------------------------------------------
(***************************************************************************)
(* Exact counts.  A batch without a repeated item adds one review for each *)
(* of its answers.                                                         *)
(***************************************************************************)
LEMMA BatchReviewCounts ==
    ASSUME NEW b \in Seq(Answer), b # <<>>, OneLanguage(b), NEW s \in Sessions,
           FirstOfItem(b) = DOMAIN b
    PROVE  LET new == BatchReviews(s, b)
           IN  /\ Cardinality({r \in new : r.correct}) = Cardinality(Rights(b))
               /\ Cardinality({r \in new : ~r.correct})
                    = Len(b) - Cardinality(Rights(b))
               /\ IsFiniteSet({r \in new : r.correct})
               /\ IsFiniteSet({r \in new : ~r.correct})
  <1> DEFINE new == BatchReviews(s, b)
             Row(n) == [session |-> s, item |-> b[n].item,
                        correct |-> b[n].correct, day |-> b[n].day,
                        lang |-> BatchLang(b)]
             wrongs == DOMAIN b \ Rights(b)
  <1>1. /\ Len(b) \in Nat /\ DOMAIN b = 1..Len(b) /\ IsFiniteSet(DOMAIN b)
        /\ \A n \in DOMAIN b : b[n].correct \in BOOLEAN
    BY BatchShape
  <1>2. new = {Row(n) : n \in DOMAIN b}
    BY DEF BatchReviews
  <1>3. ASSUME NEW n \in DOMAIN b, NEW m \in DOMAIN b, b[n].item = b[m].item
        PROVE  n = m
    <2>1. /\ \A j \in 1..(n - 1) : b[j].item # b[n].item
          /\ \A j \in 1..(m - 1) : b[j].item # b[m].item
      BY DEF FirstOfItem
    <2>2. n \in Nat /\ m \in Nat /\ n >= 1 /\ m >= 1
      BY <1>1
    <2>3. ~(n < m) /\ ~(m < n)
      BY <1>3, <2>1, <2>2
    <2> QED
      BY <2>2, <2>3
  <1>4. IsFiniteSet(Rights(b)) /\ IsFiniteSet(wrongs)
        /\ Cardinality(wrongs) = Len(b) - Cardinality(Rights(b))
    <2>1. IsFiniteSet(Rights(b)) /\ DOMAIN b \cap Rights(b) = Rights(b)
      BY RightsShape DEF Rights
    <2>2. Cardinality(DOMAIN b) = Len(b)
      <3>1. Len(b) # 0
        BY BatchShape
      <3>2. Cardinality(1..Len(b)) = Len(b)
        BY <1>1, <3>1, FS_Interval
      <3> QED
        BY <1>1, <3>2
    <2>3. IsFiniteSet(wrongs)
          /\ Cardinality(wrongs)
               = Cardinality(DOMAIN b) - Cardinality(DOMAIN b \cap Rights(b))
      BY <1>1, FS_Difference
    <2> QED
      BY <2>1, <2>2, <2>3
  <1>5. ASSUME NEW N \in SUBSET DOMAIN b, IsFiniteSet(N)
        PROVE  /\ IsFiniteSet({Row(n) : n \in N})
               /\ Cardinality({Row(n) : n \in N}) = Cardinality(N)
    <2> DEFINE T == {Row(n) : n \in N}
               f == [n \in N |-> Row(n)]
    <2>1. f \in Surjection(N, T)
      BY DEF Surjection
    <2>2. f \in Injection(N, T)
      <3>1. ASSUME NEW n \in N, NEW m \in N, f[n] = f[m] PROVE n = m
        BY <1>3, <3>1
      <3>2. f \in [N -> T]
        OBVIOUS
      <3> HIDE DEF f, T
      <3> QED
        BY <3>1, <3>2 DEF Injection, IsInjective
    <2>3. f \in Bijection(N, T)
      <3> HIDE DEF f, T
      <3> QED
        BY <2>1, <2>2 DEF Bijection
    <2> HIDE DEF f, T
    <2>4. ExistsBijection(N, T)
      BY <2>3 DEF ExistsBijection
    <2> QED
      BY <1>5, <2>4, FS_Bijection DEF T
  <1>6. {r \in new : r.correct} = {Row(n) : n \in Rights(b)}
    BY <1>2 DEF Rights
  <1>7. {r \in new : ~r.correct} = {Row(n) : n \in wrongs}
    BY <1>2 DEF Rights
  <1>8. /\ IsFiniteSet({Row(n) : n \in Rights(b)})
        /\ Cardinality({Row(n) : n \in Rights(b)}) = Cardinality(Rights(b))
    <2>1. Rights(b) \in SUBSET DOMAIN b
      BY DEF Rights
    <2> HIDE DEF Row
    <2> QED
      BY <1>4, <1>5, <2>1
  <1>9. /\ IsFiniteSet({Row(n) : n \in wrongs})
        /\ Cardinality({Row(n) : n \in wrongs}) = Cardinality(wrongs)
    <2>1. wrongs \in SUBSET DOMAIN b
      OBVIOUS
    <2> HIDE DEF Row, wrongs
    <2> QED
      BY <1>4, <1>5, <2>1
  <1> HIDE DEF Row, wrongs
  <1> QED
    BY <1>4, <1>6, <1>7, <1>8, <1>9

LEMMA FinaliseExact ==
    ASSUME RowInv, CountInv, ExactInv, NEW s \in Sessions, Finalise(s)
    PROVE  ExactInv'
  <1> SUFFICES ASSUME skew' = {}, NEW l \in Langs, NEW d \in Days
               PROVE  daily'[l][d] = Recount(l, d)'
    BY DEF ExactInv
  <1>1. InOrder' /\ skew = {} /\ FirstOfItem(buffer[s]) = DOMAIN buffer[s]
    BY DEF InOrder, Finalise
  <1>2. PICK b : b = buffer[s]
    OBVIOUS
  <1>3. PICK k : k = BatchLang(b)
    OBVIOUS
  <1>4. PICK fresh : fresh = AnsweredItems(b) \ seen
    OBVIOUS
  <1>5. PICK new : new = BatchReviews(s, b)
    OBVIOUS
  <1> DEFINE right == Cardinality(Rights(b))
             wrong == Len(b) - right
             row == Plus(daily[k][today], right, wrong, NewWords(b))
             on == ReviewsOn(l, d)
  <1>6. /\ b \in Seq(Answer) /\ b # <<>> /\ OneLanguage(b)
        /\ k \in Langs /\ today \in Days /\ s \notin Finalised
        /\ daily' = [daily EXCEPT ![k][today] = row]
    BY <1>2, <1>3, FinaliseAdds
  <1>7. daily \in [Langs -> [Days -> Counts]] /\ daily[l][d] = Recount(l, d)
    BY <1>1 DEF RowInv, StatsTypeOK, ExactInv
  <1>8. CASE ~(l = k /\ d = today)
    <2>1. daily'[l][d] = daily[l][d]
      BY <1>6, <1>7, <1>8
    <2>2. /\ ReviewsOn(l, d)' = ReviewsOn(l, d)
          /\ FirstSeenOn(l, d)' = FirstSeenOn(l, d)
      BY <1>1, <1>2, <1>3, <1>8, FinaliseSees
    <2>3. Recount(l, d)' = Recount(l, d)
      BY <2>2 DEF Recount
    <2> QED
      BY <1>7, <2>1, <2>3
  <1>9. CASE l = k /\ d = today
    <2>1. daily'[l][d] = Plus(daily[l][d], right, wrong, NewWords(b))
      BY <1>6, <1>7, <1>9
    <2>2. /\ ReviewsOn(l, d)' = on \cup new
          /\ FirstSeenOn(l, d)' = FirstSeenOn(l, d) \cup fresh
          /\ FirstSeenOn(l, d) \cap fresh = {}
      BY <1>1, <1>2, <1>3, <1>4, <1>5, <1>9, FinaliseSees
    <2>3. on \cap new = {}
      <3>1. \A r \in new : r.session = s
        BY <1>5, <1>6, BatchReviewsShape
      <3>2. \A r \in on : r.session # s
        BY <1>6 DEF ReviewsOn, Finalised
      <3> QED
        BY <3>1, <3>2
    <2>4. /\ Cardinality({r \in new : r.correct}) = right
          /\ Cardinality({r \in new : ~r.correct}) = wrong
          /\ IsFiniteSet({r \in new : r.correct})
          /\ IsFiniteSet({r \in new : ~r.correct})
      BY <1>1, <1>2, <1>5, <1>6, BatchReviewCounts
    <2>5. IsFiniteSet(on) /\ IsFiniteSet(FirstSeenOn(l, d))
      BY RecountShape DEF RowInv, LogInv
    <2>6. /\ IsFiniteSet({r \in on : r.correct})
          /\ IsFiniteSet({r \in on : ~r.correct})
      <3>1. {r \in on : r.correct} \in SUBSET on /\ {r \in on : ~r.correct} \in SUBSET on
        OBVIOUS
      <3> HIDE DEF on
      <3> QED
        BY <2>5, <3>1, FS_Subset
    <2>7. Cardinality({r \in on \cup new : r.correct})
            = Cardinality({r \in on : r.correct}) + right
      <3>1. {r \in on \cup new : r.correct}
              = {r \in on : r.correct} \cup {r \in new : r.correct}
        OBVIOUS
      <3>2. {r \in on : r.correct} \cap {r \in new : r.correct} = {}
        BY <2>3
      <3> HIDE DEF on, right
      <3> QED
        BY <2>4, <2>6, <3>1, <3>2, DisjointUnion
    <2>8. Cardinality({r \in on \cup new : ~r.correct})
            = Cardinality({r \in on : ~r.correct}) + wrong
      <3>1. {r \in on \cup new : ~r.correct}
              = {r \in on : ~r.correct} \cup {r \in new : ~r.correct}
        OBVIOUS
      <3>2. {r \in on : ~r.correct} \cap {r \in new : ~r.correct} = {}
        BY <2>3
      <3> HIDE DEF on, wrong
      <3> QED
        BY <2>4, <2>6, <3>1, <3>2, DisjointUnion
    <2>9. Cardinality(FirstSeenOn(l, d) \cup fresh)
            = Cardinality(FirstSeenOn(l, d)) + NewWords(b)
      <3>1. IsFiniteSet(fresh)
        BY <1>4, <1>6, AnsweredShape, FS_Difference
      <3>2. NewWords(b) = Cardinality(fresh)
        BY <1>4 DEF NewWords
      <3> QED
        BY <2>2, <2>5, <3>1, <3>2, DisjointUnion
    <2>10. Recount(l, d)'
             = [correct   |-> Cardinality({r \in on \cup new : r.correct}),
                incorrect |-> Cardinality({r \in on \cup new : ~r.correct}),
                new       |-> Cardinality(FirstSeenOn(l, d) \cup fresh)]
      BY <2>2 DEF Recount
    <2>11. Recount(l, d)
             = [correct   |-> Cardinality({r \in on : r.correct}),
                incorrect |-> Cardinality({r \in on : ~r.correct}),
                new       |-> Cardinality(FirstSeenOn(l, d))]
      BY DEF Recount
    <2>12. Plus(Recount(l, d), right, wrong, NewWords(b))
             = [correct   |-> Cardinality({r \in on : r.correct}) + right,
                incorrect |-> Cardinality({r \in on : ~r.correct}) + wrong,
                new       |-> Cardinality(FirstSeenOn(l, d)) + NewWords(b)]
      <3> HIDE DEF on, right, wrong
      <3> QED
        BY <2>11 DEF Plus
    <2> HIDE DEF on, right, wrong
    <2> QED
      BY <1>7, <2>1, <2>7, <2>8, <2>9, <2>10, <2>12
  <1> QED
    BY <1>8, <1>9

LEMMA RepairExact ==
    ASSUME RowInv, CountInv, ExactInv, RepairRead \/ RepairDaily \/ RepairCommit
    PROVE  ExactInv'
  <1>1. /\ UNCHANGED <<reviews, seen, skew>>
        /\ \/ daily' = daily
           \/ daily' = Overwritten /\ repair.at # "idle"
    BY DEF RepairRead, RepairDaily, RepairCommit
  <1>2. \A l, d : Recount(l, d)' = Recount(l, d)
    BY <1>1 DEF Recount, ReviewsOn, FirstSeenOn, FirstSeen
  <1>3. CASE daily' = daily
    BY <1>1, <1>2, <1>3 DEF ExactInv
  <1>4. CASE daily' = Overwritten /\ repair.at # "idle"
    <2>1. skew = {} => InOrder
      BY DEF InOrder
    <2>2. skew = {} => \A l \in Langs, d \in Days :
                          Overwritten[l][d] = Recount(l, d)
      BY <1>4, <2>1, OverwrittenCounts DEF ExactInv
    <2> QED
      BY <1>1, <1>2, <1>4, <2>2 DEF ExactInv
  <1> QED
    BY <1>1, <1>3, <1>4

LEMMA StatsInvStep == StatsInv /\ [StatsNext]_statsVars => StatsInv'
  <1> SUFFICES ASSUME StatsInv, [StatsNext]_statsVars
               PROVE  StatsInv'
    OBVIOUS
  <1>1. RowInv /\ CountInv /\ ExactInv /\ RowInv'
    BY RowInvStep DEF StatsInv
  <1>2. ASSUME NEW s \in Sessions, Finalise(s)
        PROVE  CountInv' /\ ExactInv'
    BY <1>1, <1>2, FinaliseCounts, FinaliseExact
  <1>3. CASE RepairRead
    BY <1>1, <1>3, ReadCounts, RepairExact DEF StatsInv
  <1>4. CASE RepairDaily
    BY <1>1, <1>4, DailyCounts, RepairExact DEF StatsInv
  <1>5. CASE RepairCommit
    BY <1>1, <1>5, CommitCounts, RepairExact DEF StatsInv
  <1>6. CASE UNCHANGED <<reviews, seen, daily, words, repair, skew>>
    BY <1>1, <1>6, OthersCount DEF StatsInv
  <1>7. \/ \E s \in Sessions : Finalise(s)
        \/ RepairRead \/ RepairDaily \/ RepairCommit
        \/ UNCHANGED <<reviews, seen, daily, words, repair, skew>>
    BY DEF StatsNext, statsVars, BufferAnswer, NextDay
  <1> QED
    BY <1>1, <1>2, <1>3, <1>4, <1>5, <1>6, <1>7 DEF StatsInv

\* The invariant of the statistics.
THEOREM StatsInvariance == StatsSpec => []StatsInv
  BY StatsInitInv, StatsInvStep, PTL DEF StatsSpec

-----------------------------------------------------------------------------
(***************************************************************************)
(* What the screens show.                                                  *)
(***************************************************************************)
\* A word is learned once, whatever was finalised, recounted or asked for.
THEOREM WordsAreLearntOnce == StatsSpec => []NewWordsOnce
  <1>1. StatsInv => NewWordsOnce
    <2> SUFFICES ASSUME StatsInv, InOrder
                 PROVE  MapThenSumSet(LAMBDA l : GetTotalStats[l].words, Studied)
                          = Cardinality(seen)
      BY DEF NewWordsOnce, InOrder
    <2>1. RowInv /\ CountInv
      BY DEF StatsInv
    <2> DEFINE P == [l \in Studied |-> SeenOf(l)]
               langs == {r.lang : r \in reviews}
               f == [r \in reviews |-> r.lang]
    <2>2. \A l \in Langs : (\E d \in Days : Active(l, d)) <=> l \in langs
      <3>1. \A r \in reviews : r.lang \in Langs /\ r.day \in Days
        BY <2>1 DEF RowInv, StatsTypeOK, ReviewRow
      <3>2. \A l \in Langs, d \in Days : Active(l, d) <=> ReviewsOn(l, d) # {}
        BY <2>1 DEF CountInv
      <3> QED
        BY <3>1, <3>2 DEF ReviewsOn
    <2>3. Studied \in SUBSET langs
      BY <2>2 DEF Studied
    <2>4. IsFiniteSet(Studied)
      <3>1. f \in Surjection(reviews, langs)
        BY DEF Surjection
      <3>2. IsFiniteSet(reviews)
        BY <2>1 DEF RowInv, LogInv
      <3> HIDE DEF f, langs
      <3>3. IsFiniteSet(langs)
        BY <3>1, <3>2, FS_Surjection
      <3> QED
        BY <2>3, <3>3, FS_Subset
    <2>5. PICK sum : /\ Sums(sum, words, Studied)
                     /\ MapThenSumSet(LAMBDA l : GetTotalStats[l].words, Studied)
                          = sum[Studied]
      BY <2>4, WordSums
    <2>6. \A l \in Studied : P[l] = SeenOf(l) /\ l \in Langs
      BY DEF Studied
    <2>7. Together(P, Studied) = seen
      <3>1. \A l \in Studied : P[l] \subseteq seen
        BY <2>6 DEF SeenOf
      <3>2. \A i \in seen : ItemLang[i] \in Studied /\ i \in P[ItemLang[i]]
        <4>1. ASSUME NEW i \in seen
              PROVE  ItemLang[i] \in Studied /\ i \in P[ItemLang[i]]
          <5>1. PICK r \in reviews : r.item = i /\ r.lang = ItemLang[i]
            BY <2>1 DEF RowInv, LogInv
          <5>2. ItemLang[i] \in Langs /\ ItemLang[i] \in langs
            BY <2>1, <5>1 DEF RowInv, StatsTypeOK, ReviewRow
          <5>3. ItemLang[i] \in Studied
            BY <2>2, <5>2 DEF Studied
          <5> QED
            BY <2>6, <5>3 DEF SeenOf
        <4> QED
          BY <4>1
      <3> HIDE DEF P
      <3> QED
        BY <3>1, <3>2 DEF Together
    <2>8. \A l, k \in Studied : l # k => P[l] \cap P[k] = {}
      BY <2>6 DEF SeenOf
    <2>9. \A l \in Studied : IsFiniteSet(P[l]) /\ words[l] = Cardinality(P[l])
      BY <2>1, <2>6, FirstSeenParts DEF CountInv
    <2> HIDE DEF P
    <2>10. sum[Studied] = Cardinality(Together(P, Studied))
      BY <2>4, <2>5, <2>8, <2>9, SumOfParts
    <2> QED
      BY <2>5, <2>7, <2>10
  <1> QED
    BY <1>1, StatsInvariance, PTL

\* A range of days adds up to the reviews of those days.
LEMMA RangeAddsUp ==
    ASSUME StatsInv, skew = {}, NEW l \in Langs, NEW from \in Days, NEW to \in Days
    PROVE  LET range   == GetRangeStats(l, from, to)
               days    == RangeStart(from, to)..RangeEnd(from, to)
               between == {r \in reviews : r.lang = l /\ r.day \in days}
           IN  /\ range.correct + range.incorrect = Cardinality(between)
               /\ DOMAIN range.daily = {r.day : r \in between}
               /\ \A d \in DOMAIN range.daily : range.daily[d] = Recount(l, d)
  <1> DEFINE start == RangeStart(from, to)
             end == RangeEnd(from, to)
             rows == DailyStatsRange(l, start, end)
             between == {r \in reviews : r.lang = l /\ r.day \in start..end}
  <1>1. RowInv /\ CountInv /\ ExactInv /\ InOrder
    BY DEF StatsInv, InOrder
  <1>2. start \in Nat /\ end \in Days
    <2>1. /\ MaxRangeDays \in Nat /\ MaxDay \in Nat
          /\ from \in Nat /\ to \in Nat /\ from <= MaxDay /\ to <= MaxDay
      BY StatsAssumption DEF Days
    <2>2. end \in Nat /\ end <= MaxDay
      BY <2>1 DEF RangeEnd
    <2>3. start \in Nat
      BY <2>1 DEF RangeStart, RangeEnd
    <2> QED
      BY <2>1, <2>2, <2>3 DEF Days
  <1> HIDE DEF start, end
  <1>3. start..end \subseteq Days /\ start..end \subseteq Nat /\ IsFiniteSet(start..end)
    <2>1. end \in Nat /\ end <= MaxDay /\ MaxDay \in Nat
      BY <1>2, StatsAssumption DEF Days
    <2>2. IsFiniteSet(start..end)
      BY <1>2, <2>1, FS_Interval
    <2> QED
      BY <1>2, <2>1, <2>2 DEF Days
  <1>4. \A d \in start..end :
          /\ Active(l, d) <=> ReviewsOn(l, d) # {}
          /\ daily[l][d] = Recount(l, d)
    BY <1>1, <1>3 DEF CountInv, ExactInv
  <1>5. /\ DOMAIN rows = {d \in start..end : Active(l, d)}
        /\ \A d \in DOMAIN rows : rows[d] = daily[l][d]
    BY Zenon DEF DailyStatsRange
  <1>6. DOMAIN rows = {r.day : r \in between}
    <2>1. \A r \in between : r.day \in DOMAIN rows
      BY <1>4, <1>5 DEF ReviewsOn
    <2>2. \A d \in DOMAIN rows : d \in {r.day : r \in between}
      BY <1>4, <1>5 DEF ReviewsOn
    <2> HIDE DEF rows, between
    <2> QED
      BY <2>1, <2>2
  <1>7. \A d \in DOMAIN rows : rows[d] = Recount(l, d)
    BY <1>4, <1>5
  <1>8. IsFiniteSet(DOMAIN rows)
    <2>1. DOMAIN rows \in SUBSET (start..end)
      BY <1>5
    <2> HIDE DEF rows
    <2> QED
      BY <1>3, <2>1, FS_Subset
  <1>9. PICK right : /\ Sums(right, Right(rows), DOMAIN rows)
                     /\ MapThenSumSet(LAMBDA d : rows[d].correct, DOMAIN rows)
                          = right[DOMAIN rows]
    BY <1>8, RightSums
  <1>10. PICK wrong : /\ Sums(wrong, Wrong(rows), DOMAIN rows)
                      /\ MapThenSumSet(LAMBDA d : rows[d].incorrect, DOMAIN rows)
                           = wrong[DOMAIN rows]
    BY <1>8, WrongSums
  <1> DEFINE RightOn(d) == {r \in ReviewsOn(l, d) : r.correct}
             WrongOn(d) == {r \in ReviewsOn(l, d) : ~r.correct}
             P == [d \in DOMAIN rows |-> RightOn(d)]
             Q == [d \in DOMAIN rows |-> WrongOn(d)]
             rights == {r \in between : r.correct}
             wrongs == {r \in between : ~r.correct}
  <1>11. \A d : IsFiniteSet(RightOn(d)) /\ IsFiniteSet(WrongOn(d))
    <2>1. SUFFICES ASSUME NEW d
                   PROVE  IsFiniteSet(RightOn(d)) /\ IsFiniteSet(WrongOn(d))
      OBVIOUS
    <2>2. IsFiniteSet(ReviewsOn(l, d))
      BY <1>1, RecountShape DEF RowInv, LogInv
    <2>3. RightOn(d) \in SUBSET ReviewsOn(l, d) /\ WrongOn(d) \in SUBSET ReviewsOn(l, d)
      OBVIOUS
    <2> HIDE DEF RightOn, WrongOn
    <2> QED
      BY <2>2, <2>3, FS_Subset
  <1>12. \A d \in DOMAIN rows :
           /\ P[d] = RightOn(d) /\ Right(rows)[d] = Cardinality(RightOn(d))
           /\ Q[d] = WrongOn(d) /\ Wrong(rows)[d] = Cardinality(WrongOn(d))
    <2>1. \A d \in DOMAIN rows : P[d] = RightOn(d) /\ Q[d] = WrongOn(d)
      BY Zenon
    <2>2. \A d \in DOMAIN rows : /\ Right(rows)[d] = rows[d].correct
                                 /\ Wrong(rows)[d] = rows[d].incorrect
      BY Zenon DEF Right, Wrong
    <2>3. \A d : /\ Recount(l, d).correct = Cardinality(RightOn(d))
                 /\ Recount(l, d).incorrect = Cardinality(WrongOn(d))
      BY DEF Recount
    <2> HIDE DEF rows, P, Q, RightOn, WrongOn
    <2> QED
      BY <1>7, <2>1, <2>2, <2>3
  <1>13. \A d, e : d # e => /\ RightOn(d) \cap RightOn(e) = {}
                            /\ WrongOn(d) \cap WrongOn(e) = {}
    BY DEF ReviewsOn
  <1>14. Together(P, DOMAIN rows) = rights /\ Together(Q, DOMAIN rows) = wrongs
    <2>1. \A d \in DOMAIN rows : \A r \in ReviewsOn(l, d) : r \in between
      BY <1>5 DEF ReviewsOn
    <2>2. \A r \in between : r.day \in DOMAIN rows /\ r \in ReviewsOn(l, r.day)
      BY <1>6 DEF ReviewsOn
    <2>3. \A d \in DOMAIN rows : P[d] \subseteq rights /\ Q[d] \subseteq wrongs
      BY <1>12, <2>1
    <2>4. /\ \A r \in rights : r.day \in DOMAIN rows /\ r \in P[r.day]
          /\ \A r \in wrongs : r.day \in DOMAIN rows /\ r \in Q[r.day]
      BY <1>12, <2>2
    <2> HIDE DEF rows, P, Q, rights, wrongs
    <2>5. Together(P, DOMAIN rows) = rights
      BY <2>3, <2>4 DEF Together
    <2>6. Together(Q, DOMAIN rows) = wrongs
      BY <2>3, <2>4 DEF Together
    <2> QED
      BY <2>5, <2>6
  <1>15. /\ right[DOMAIN rows] = Cardinality(rights)
         /\ wrong[DOMAIN rows] = Cardinality(wrongs)
    <2> HIDE DEF rows, between, P, Q, RightOn, WrongOn, rights, wrongs
    <2>1. right[DOMAIN rows] = Cardinality(Together(P, DOMAIN rows))
      BY <1>8, <1>9, <1>11, <1>12, <1>13, SumOfParts
    <2>2. wrong[DOMAIN rows] = Cardinality(Together(Q, DOMAIN rows))
      BY <1>8, <1>10, <1>11, <1>12, <1>13, SumOfParts
    <2> QED
      BY <1>14, <2>1, <2>2
  <1>16. Cardinality(rights) + Cardinality(wrongs) = Cardinality(between)
    <2>1. IsFiniteSet(rights) /\ IsFiniteSet(wrongs)
      <3>1. rights \in SUBSET reviews /\ wrongs \in SUBSET reviews
        OBVIOUS
      <3>2. IsFiniteSet(reviews)
        BY <1>1 DEF RowInv, LogInv
      <3> HIDE DEF rights, wrongs
      <3> QED
        BY <3>1, <3>2, FS_Subset
    <2>2. rights \cap wrongs = {} /\ rights \cup wrongs = between
      OBVIOUS
    <2> HIDE DEF rights, wrongs, between
    <2>3. Cardinality(rights \cup wrongs) = Cardinality(rights) + Cardinality(wrongs)
      BY <2>1, <2>2, DisjointUnion
    <2> QED
      BY <2>2, <2>3
  <1>17. GetRangeStats(l, from, to)
           = [daily |-> rows,
              correct |-> MapThenSumSet(LAMBDA d : rows[d].correct, DOMAIN rows),
              incorrect |-> MapThenSumSet(LAMBDA d : rows[d].incorrect, DOMAIN rows)]
    BY Zenon DEF GetRangeStats, start, end
  <1>18. /\ GetRangeStats(l, from, to).daily = rows
         /\ GetRangeStats(l, from, to).correct = right[DOMAIN rows]
         /\ GetRangeStats(l, from, to).incorrect = wrong[DOMAIN rows]
    <2> HIDE DEF rows
    <2> QED
      BY <1>9, <1>10, <1>17
  <1> HIDE DEF rows, between, rights, wrongs
  <1>19. /\ GetRangeStats(l, from, to).correct + GetRangeStats(l, from, to).incorrect
              = Cardinality(between)
         /\ DOMAIN GetRangeStats(l, from, to).daily = {r.day : r \in between}
         /\ \A d \in DOMAIN GetRangeStats(l, from, to).daily :
               GetRangeStats(l, from, to).daily[d] = Recount(l, d)
    BY <1>6, <1>7, <1>15, <1>16, <1>18
  <1> QED
    BY <1>19, Zenon DEF between, start, end

\* As long as every batch was finalised in order and repeated no item, the
\* ranges are what a recount finds.
THEOREM DailyCountsAreRight == StatsSpec => []DailyCountsReviews
  <1>1. StatsInv => DailyCountsReviews
    BY RangeAddsUp, Zenon DEF DailyCountsReviews
  <1> QED
    BY <1>1, StatsInvariance, PTL
=============================================================================
