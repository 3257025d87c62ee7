--------------------------- MODULE SessionTables ---------------------------
(***************************************************************************)
(* The PostgreSQL side of one practice session: its study_sessions row,    *)
(* the study_reviews, user_progress and pending_sessions rows that belong  *)
(* to it, and the transactions of progress_updater.py, practice_repo.py    *)
(* and set_service.py that write them.  A transaction is one step: nothing *)
(* of it is visible before its COMMIT.                                     *)
(***************************************************************************)
EXTENDS SessionBuffer

CONSTANTS
    Batches         \* item lists select_items can return (no repetition)

ASSUME BatchesAssumption == Batches \subseteq Seq(Items)

VARIABLES
    row,        \* study_sessions: status, ended_at, items_reviewed
    reviews,    \* study_reviews of the session (the answers they log)
    progress,   \* items with a user_progress row
    applied,    \* how often an answer went through SM-2 and the statistics
    pending,    \* pending_sessions row of the session, or None
    setLive     \* the practised set is not soft-deleted

tableVars == <<row, reviews, progress, applied, pending, setLive>>

Closed  == {"completed", "abandoned"}
Row     == [status : Closed \cup {"in_progress"}, ended : BOOLEAN,
            reviewed : Nat]
Pending == [raw : Seq(Answers), state : SessionState, recovered : BOOLEAN]

ASSUME NoneIsNoPending == None \notin Pending

TablesTypeOK ==
    /\ row \in Row
    /\ reviews \in SUBSET Answers
    /\ progress \in SUBSET Items
    /\ applied \in [Answers -> Nat]
    /\ pending \in Pending \cup {None}
    /\ setLive \in BOOLEAN

-----------------------------------------------------------------------------
(***************************************************************************)
(* Reads.                                                                  *)
(***************************************************************************)
HasPending == pending # None /\ ~pending.recovered

ReviewedItems == {ItemOf[a] : a \in reviews}

ItemsOf(b) == [k \in 1..Len(b) |-> ItemOf[b[k]]]

\* Items a reconstruction counts as answered: those of an unrecovered
\* pending row, else those with a review.  (The ORDER BY of the reviews
\* query is some fixed order: only the length of this list is used again.)
AnsweredIds ==
    IF HasPending /\ pending.raw # <<>>
      THEN ItemsOf(pending.raw)
      ELSE SetToSeq(ReviewedItems)

\* select_items(..., exclude_ids = done, seed_new = False).
SelectItems(done) ==
    {b \in Batches \cup {<<>>} : \A k \in 1..Len(b) : b[k] \notin done}

-----------------------------------------------------------------------------
(***************************************************************************)
(* finalise_batch.  "b" is the list of raw events, "s" the session state   *)
(* the caller found, "st" the final status.                                *)
(***************************************************************************)
\* Mutant: the guard is off by one and cuts a full batch.
TruncatedEarly(s, b) == IF Len(b) >= Len(s.order)
                          THEN SubSeq(b, 1, Len(s.order) - 1) ELSE b

Truncated(s, b) == IF Len(b) > Len(s.order)
                     THEN SubSeq(b, 1, Len(s.order)) ELSE b

\* _bulk_lock_progress adds one UserProgress object per event whose item has
\* no row: two events of one such item insert the same primary key twice.
InsertClashes(b) ==
    \E j, k \in 1..Len(b) :
        j < k /\ ItemOf[b[j]] = ItemOf[b[k]] /\ ItemOf[b[j]] \notin progress

\* Mutant: the first event of the batch is not logged.
NewReviewsButFirst(b) == {b[k] : k \in 2..Len(b)}

\* INSERT ... ON CONFLICT (session_id, item_id) DO NOTHING, in list order.
NewReviews(b) ==
    {b[k] : k \in {k \in 1..Len(b) :
        /\ ItemOf[b[k]] \notin ReviewedItems
        /\ \A j \in 1..(k - 1) : ItemOf[b[j]] # ItemOf[b[k]]}}

CloseEmpty(st) ==
    /\ row' = [row EXCEPT !.status = st, !.ended = TRUE]
    /\ UNCHANGED <<reviews, progress, applied, pending, setLive>>

CloseWith(b, st) ==
    /\ ~InsertClashes(b)
    /\ applied' = [a \in Answers |->
                     applied[a] + Cardinality({k \in 1..Len(b) : b[k] = a})]
    /\ progress' = progress \cup {ItemOf[b[k]] : k \in 1..Len(b)}
    /\ reviews' = reviews \cup NewReviews(b)
    /\ row' = [status |-> st, ended |-> TRUE, reviewed |-> Len(b)]
    /\ UNCHANGED <<pending, setLive>>

\* Mutant: an unfinished session counts as one without answers.
FinaliseIfFull(s, b, st) ==
    IF Len(b) < Len(s.order) THEN CloseEmpty(st) ELSE CloseWith(b, st)

FinaliseBatch(s, b, st) ==
    IF b = <<>> THEN CloseEmpty(st) ELSE CloseWith(Truncated(s, b), st)

FinaliseFails(s, b) == b # <<>> /\ InsertClashes(Truncated(s, b))

\* save_pending_session: the upsert leaves "recovered" as it was.
SavePending(s, b) ==
    /\ pending' = [raw |-> b, state |-> s,
                   recovered |-> pending # None /\ pending.recovered]
    /\ UNCHANGED <<row, reviews, progress, applied, setLive>>

MarkRecovered ==
    /\ pending' = IF pending = None THEN None
                  ELSE [pending EXCEPT !.recovered = TRUE]
    /\ UNCHANGED <<row, reviews, progress, applied, setLive>>

\* SetService.delete_set closes the set's sessions behind Redis's back.
DeleteSetTables ==
    /\ setLive
    /\ setLive' = FALSE
    /\ row' = IF row.status = "in_progress"
                THEN [row EXCEPT !.status = "abandoned", !.ended = TRUE]
                ELSE row
    /\ UNCHANGED <<reviews, progress, applied, pending>>
=============================================================================
