----------------------------- MODULE StudyStats -----------------------------
(***************************************************************************)
(* The statistics of one user: the daily rows and the totals that          *)
(* finalising a session adds to (progress_updater.py), the recount that    *)
(* the migration installs (repair_user_stats), and what the screens show   *)
(* of them: overview, lifetime totals, ranges, streaks (stats_service.py,  *)
(* stats_repo.py).                                                         *)
(*                                                                         *)
(* A finalisation is one transaction; it adds to the rows in SQL, under    *)
(* their locks.  The recount is one transaction of two statements, each    *)
(* with its own snapshot (READ COMMITTED).  Seconds are left out: they are *)
(* kept like the words.                                                    *)
(***************************************************************************)
EXTENDS Naturals, FiniteSets, Sequences, FiniteSetsExt

CONSTANTS
    Items,
    Langs,
    ItemLang,       \* items.language_id
    Sessions,
    MaxRangeDays,   \* max_range_days
    MaxDay,         \* bound: the days of a behaviour, from 0
    MaxAnswers      \* bound: the answers of a session

ASSUME StatsAssumption ==
    /\ ItemLang \in [Items -> Langs]
    /\ MaxRangeDays \in Nat /\ MaxDay \in Nat
    /\ MaxAnswers \in Nat

VARIABLES
    today,      \* the date in UTC
    buffer,     \* the answers of the sessions that are open
    reviews,    \* the rows of study_reviews
    seen,       \* the items whose last_reviewed is set
    daily,      \* the rows of user_daily_stats, those of zeros included
    words,      \* user_stats_total.total_words
    repair,     \* the recount that is running
    skew        \* history: why counts may differ from the reviews

statsVars ==
    <<today, buffer, reviews, seen, daily, words, repair, skew>>

Days == 0..MaxDay
Answer == [item : Items, correct : BOOLEAN, day : Days]
ReviewRow == [session : Sessions, item : Items, correct : BOOLEAN, day : Days,
              lang : Langs]
Counts == [correct : Nat, incorrect : Nat, new : Nat]
Zero == [correct |-> 0, incorrect |-> 0, new |-> 0]
NoRepair == [at |-> "idle", rows |-> <<>>, sums |-> <<>>]
Skews == {"doubled", "late", "raced"}

StatsTypeOK ==
    /\ today \in Days
    /\ buffer \in [Sessions -> Seq(Answer)]
    /\ reviews \subseteq ReviewRow
    /\ seen \subseteq Items
    /\ daily \in [Langs -> [Days -> Counts]]
    /\ words \in [Langs -> Nat]
    /\ repair.at \in {"idle", "read", "locked"}
    /\ skew \subseteq Skews

StatsInit ==
    /\ today = 0
    /\ buffer = [s \in Sessions |-> <<>>]
    /\ reviews = {}
    /\ seen = {}
    /\ daily = [l \in Langs |-> [d \in Days |-> Zero]]
    /\ words = [l \in Langs |-> 0]
    /\ repair = NoRepair
    /\ skew = {}

-----------------------------------------------------------------------------
Elements(batch) == {batch[n] : n \in DOMAIN batch}
AnsweredItems(batch) == {a.item : a \in Elements(batch)}
Rights(batch) == {n \in DOMAIN batch : batch[n].correct}

\* The language of the first answer is the language of them all.
BatchLang(batch) == ItemLang[batch[1].item]

\* A session counts once its answers are stored: it is closed.
Finalised == {r.session : r \in reviews}

\* An answer is buffered with the time it came at.  The items of a session
\* are of one language: they are of one set.
BufferAnswer(s, i, correct) ==
    /\ s \notin Finalised
    /\ Len(buffer[s]) < MaxAnswers
    /\ buffer[s] # <<>> => ItemLang[i] = BatchLang(buffer[s])
    /\ buffer' = [buffer EXCEPT ![s] =
            Append(@, [item |-> i, correct |-> correct, day |-> today])]
    /\ UNCHANGED <<today, reviews, seen, daily, words, repair, skew>>

\* ON CONFLICT DO NOTHING keeps the first answer to an item of the session.
FirstOfItem(batch) ==
    {n \in DOMAIN batch : \A m \in 1..(n - 1) : batch[m].item # batch[n].item}

BatchReviews(s, batch) ==
    {[session |-> s, item |-> batch[n].item, correct |-> batch[n].correct,
      day |-> batch[n].day, lang |-> BatchLang(batch)] :
        n \in FirstOfItem(batch)}

\* Mutant: every answer of the batch to an item not seen before it.
NewWordAnswers(batch) ==
    Cardinality({n \in DOMAIN batch : batch[n].item \notin seen})

\* The items whose last_reviewed the batch is the first to set.
NewWords(batch) == Cardinality(AnsweredItems(batch) \ seen)

Plus(row, right, wrong, new) ==
    [correct |-> row.correct + right, incorrect |-> row.incorrect + wrong,
     new |-> row.new + new]

\* The rows that the recount has written and not committed are locked.
Locked(l, d) == repair.at = "locked" /\ <<l, d>> \in DOMAIN repair.rows

\* finalise_batch: reviews, progress, the row of today, and the totals.
Finalise(s) ==
    LET batch == buffer[s]
        l     == BatchLang(batch)
        right == Cardinality(Rights(batch))
    IN  /\ batch # <<>>
        /\ ~Locked(l, today)
        /\ reviews' = reviews \union BatchReviews(s, batch)
        /\ seen' = seen \union AnsweredItems(batch)
        /\ daily' = [daily EXCEPT ![l][today] =
                Plus(@, right, Len(batch) - right, NewWords(batch))]
        /\ words' = [words EXCEPT ![l] = @ + NewWords(batch)]
        /\ buffer' = [buffer EXCEPT ![s] = <<>>]
        /\ skew' = skew
             \union (IF FirstOfItem(batch) # DOMAIN batch THEN {"doubled"} ELSE {})
             \union (IF \E a \in Elements(batch) : a.day # today
                     THEN {"late"} ELSE {})
             \union (IF repair.at # "idle" THEN {"raced"} ELSE {})
        /\ UNCHANGED <<today, repair>>

NextDay ==
    /\ today < MaxDay
    /\ today' = today + 1
    /\ UNCHANGED <<buffer, reviews, seen, daily, words, repair, skew>>

-----------------------------------------------------------------------------
(***************************************************************************)
(* repair_user_stats.                                                      *)
(***************************************************************************)
ReviewsOn(l, d) == {r \in reviews : r.lang = l /\ r.day = d}
FirstSeen(i) == Min({r.day : r \in {q \in reviews : q.item = i}})

\* Mutant: the join forgets the date.
ReviewedOn(l, d) == {r.item : r \in ReviewsOn(l, d)}

\* LEFT JOIN first_reviews: the items that were first seen on that date.
FirstSeenOn(l, d) == {i \in {r.item : r \in ReviewsOn(l, d)} : FirstSeen(i) = d}

Recount(l, d) ==
    [correct   |-> Cardinality({r \in ReviewsOn(l, d) : r.correct}),
     incorrect |-> Cardinality({r \in ReviewsOn(l, d) : ~r.correct}),
     new       |-> Cardinality(FirstSeenOn(l, d))]

\* daily_recalc has a row for each date with reviews, and no other.
RepairRead ==
    /\ repair.at = "idle"
    /\ reviews # {}
    /\ repair' = [at   |-> "read",
                  rows |-> [ld \in {<<r.lang, r.day>> : r \in reviews} |->
                                Recount(ld[1], ld[2])],
                  sums |-> <<>>]
    /\ UNCHANGED <<today, buffer, reviews, seen, daily, words, skew>>

\* The daily rows after the upsert.
Overwritten == [l \in Langs |-> [d \in Days |->
    IF <<l, d>> \in DOMAIN repair.rows THEN repair.rows[<<l, d>>]
                                       ELSE daily[l][d]]]

NewOf(rows, l) == MapThenSumSet(LAMBDA d : rows[l][d].new, Days)

\* The daily rows are written; the second statement reads them and sums.
RepairDaily ==
    /\ repair.at = "read"
    /\ repair' = [repair EXCEPT !.at = "locked",
                     !.sums = [l \in Langs |-> NewOf(Overwritten, l)]]
    /\ UNCHANGED <<today, buffer, reviews, seen, daily, words, skew>>

\* Languages without a daily row have no total, either: both are zero.
RepairCommit ==
    /\ repair.at = "locked"
    /\ daily' = Overwritten
    /\ words' = repair.sums
    /\ repair' = NoRepair
    /\ UNCHANGED <<today, buffer, reviews, seen, skew>>

-----------------------------------------------------------------------------
(***************************************************************************)
(* get_streak_batch.                                                       *)
(***************************************************************************)
Active(l, d) == daily[l][d].correct + daily[l][d].incorrect > 0

\* The days in a row, counted back from a day; the loop of the code.
Backward(l) ==
    LET Count[d \in Days] ==
            IF ~Active(l, d) THEN 0
            ELSE IF d = 0 THEN 1 ELSE 1 + Count[d - 1]
    IN  Count

\* Mutant: a day without an answer yet has no streak.
StreakFromToday(l) == Backward(l)[today]

\* From today, or from yesterday while today has no answers.
Streak(l) ==
    IF Active(l, today) THEN Backward(l)[today]
    ELSE IF today > 0 THEN Backward(l)[today - 1]
    ELSE 0

-----------------------------------------------------------------------------
(***************************************************************************)
(* What the screens show: every query sees one snapshot of the rows.       *)
(***************************************************************************)
\* get_studied_language_ids: the languages with a daily row.
Studied == {l \in Langs : \E d \in Days : Active(l, d)}

\* get_today_stats_batch.
TodayStats == [l \in Studied |-> daily[l][today]]

GetOverview ==
    [l \in Studied |-> [streak |-> Streak(l), today |-> TodayStats[l]]]

GetTotalStats == [l \in Studied |-> [words |-> words[l], streak |-> Streak(l)]]

\* The rows there are from one day to another.
DailyStatsRange(l, start, end) ==
    [d \in {d \in start..end : Active(l, d)} |-> daily[l][d]]

\* The bounds may come either way round; a range too long loses its start.
RangeEnd(from, to) == IF from <= to THEN to ELSE from
RangeStart(from, to) ==
    LET start == IF from <= to THEN from ELSE to
        end   == RangeEnd(from, to)
    IN  IF end - start > MaxRangeDays THEN end - MaxRangeDays ELSE start

GetRangeStats(l, from, to) ==
    LET rows == DailyStatsRange(l, RangeStart(from, to), RangeEnd(from, to))
    IN  [daily     |-> rows,
         correct   |-> MapThenSumSet(LAMBDA d : rows[d].correct, DOMAIN rows),
         incorrect |-> MapThenSumSet(LAMBDA d : rows[d].incorrect, DOMAIN rows)]

-----------------------------------------------------------------------------
StatsNext ==
    \/ \E s \in Sessions, i \in Items, correct \in BOOLEAN :
          BufferAnswer(s, i, correct)
    \/ \E s \in Sessions : Finalise(s)
    \/ NextDay
    \/ RepairRead
    \/ RepairDaily
    \/ RepairCommit

StatsSpec == StatsInit /\ [][StatsNext]_statsVars

-----------------------------------------------------------------------------
(***************************************************************************)
(* Properties.                                                             *)
(***************************************************************************)
\* A word is learned once: the lifetime totals of all languages count each
\* item that was ever answered exactly once, recounted or not, over any number
\* of sessions and days; unless a session was finalised after the day of its
\* answers, or during a recount.
NewWordsOnce ==
    skew \intersect {"late", "raced"} = {} =>
        MapThenSumSet(LAMBDA l : GetTotalStats[l].words, Studied)
            = Cardinality(seen)

\* The recount changes nothing that the sessions have counted right: a range
\* of days, asked for either way round, adds up to the reviews of those days,
\* and lists the days that have any with their right counts.
DailyCountsReviews ==
    skew = {} => \A l \in Langs, from, to \in Days :
        LET range   == GetRangeStats(l, from, to)
            days    == RangeStart(from, to)..RangeEnd(from, to)
            between == {r \in reviews : r.lang = l /\ r.day \in days}
        IN  /\ range.correct + range.incorrect = Cardinality(between)
            /\ DOMAIN range.daily = {r.day : r \in between}
            /\ \A d \in DOMAIN range.daily : range.daily[d] = Recount(l, d)

\* The streak of the overview is lost by a day without an answer, and by
\* nothing else: not by another session, a recount, even one that races a
\* session, or midnight; and a language stays on the overview.
StreakKept ==
    [][\A l \in DOMAIN GetOverview :
          /\ l \in DOMAIN GetOverview'
          /\ GetOverview'[l].streak < GetOverview[l].streak
                => today' # today /\ ~Active(l, today)]_statsVars
=============================================================================
