---------------------------- MODULE SessionStart ----------------------------
(***************************************************************************)
(* Starting and resuming the practice sessions of one user                 *)
(* (practice_service.start_session, _resume_or_none, _reconstruct_state;   *)
(* practice_repo's item selection).                                        *)
(*                                                                         *)
(* A context is a set, or All: the library sets of one language.  Redis    *)
(* has the state of a session and, per context, a pointer to one; the      *)
(* database has the row of the session and the user's progress.  Redis is  *)
(* written before the database transaction commits.  What happens inside   *)
(* an open session is PracticeSession's; here it is answered, checkpointed *)
(* and closed.  Each action runs from one await to the next.               *)
(***************************************************************************)
EXTENDS Naturals, FiniteSets

CONSTANTS
    Requests,       \* start requests
    MaxSessions,    \* bound on the session rows
    Items,
    Sets,
    All,            \* the practice-all context
    Content,        \* the items of each set
    Library,        \* the sets in the user's library
    Owned,          \* the sets the user created
    Limits,         \* the batch limits the user's settings may give
    Events,         \* the optional events of an instance
    MaxFaults,      \* bound on the faults in a behaviour
    None

Sessions == 1..MaxSessions
Contexts == Sets \union {All}

AllEvents == {"force", "deleteSet", "redisError", "commitError",
              "crash", "evict", "lockExpiry"}

ASSUME StartAssumption ==
    /\ MaxSessions \in Nat
    /\ All \notin Sets
    /\ Content \in [Sets -> SUBSET Items]
    /\ IsFiniteSet(Items)
    /\ Library \subseteq Sets /\ Owned \subseteq Sets
    /\ Limits \subseteq [batch : Nat, new : Nat]
    /\ None \notin Requests \union Sessions \union Contexts
    /\ Events \subseteq AllEvents
    /\ MaxFaults \in Nat

VARIABLES
    lock,       \* starting:{user}: held, and whether it has a TTL
    pointer,    \* active:{user}:{context}
    sess,       \* session:{id}
    row,        \* study_sessions; first: the batch a row was created with
    saved,      \* the answers of a session the database knows of: those of
                \* pending_sessions, else those of study_reviews
    progress,   \* user_progress of the user
    setLive,    \* sets without deleted_at
    closing,    \* where the flush of a session is
    req,        \* where each request is, and what it holds
    gaveUp,     \* history: sessions a start request failed to resume
    faults

redisVars == <<lock, pointer, sess>>
tableVars == <<row, saved, progress, setLive>>
vars == <<redisVars, tableVars, closing, req, gaveUp, faults>>

State == [batch : SUBSET Items, answered : SUBSET Items]
Row == [is : {"none", "new", "lost", "open", "closed"},
        ctx : Contexts \union {None}, first : SUBSET Items]
Progress == {"none", "seeded", "due", "later"}
Places == {"idle", "pointer", "load", "find", "read", "save", "point",
           "select", "saveNew", "pointNew", "commit", "release"}
Local == [at : Places, force : BOOLEAN,
          ctx : Contexts \union {None}, id : Sessions \union {None},
          state : State \union {None}, seeds : SUBSET Items]
Idle == [at |-> "idle", force |-> FALSE, ctx |-> None,
         id |-> None, state |-> None, seeds |-> {}]

StartTypeOK ==
    /\ lock \in [held : BOOLEAN, ttl : BOOLEAN]
    /\ pointer \in [Contexts -> Sessions \union {None}]
    /\ sess \in [Sessions -> State \union {None}]
    /\ row \in [Sessions -> Row]
    /\ saved \in [Sessions -> SUBSET Items]
    /\ progress \in [Items -> Progress]
    /\ setLive \in [Sets -> BOOLEAN]
    /\ closing \in [Sessions -> {"no", "delete", "clear"}]
    /\ req \in [Requests -> Local]
    /\ gaveUp \in SUBSET Sessions
    /\ faults \in Nat

NoRow == [is |-> "none", ctx |-> None, first |-> {}]
Lost == [NoRow EXCEPT !.is = "lost"]
Free == [held |-> FALSE, ttl |-> FALSE]

Init ==
    /\ lock = Free
    /\ pointer = [c \in Contexts |-> None]
    /\ sess = [s \in Sessions |-> None]
    /\ row = [s \in Sessions |-> NoRow]
    /\ saved = [s \in Sessions |-> {}]
    /\ progress \in [Items -> {"none", "due"}]
    /\ setLive = [s \in Sets |-> TRUE]
    /\ closing = [s \in Sessions |-> "no"]
    /\ req = [r \in Requests |-> Idle]
    /\ gaveUp = {}
    /\ faults = 0

IsComplete(state) == state.answered = state.batch

At(r, place) == req[r].at = place
Goto(r, place) == req' = [req EXCEPT ![r].at = place]
Return(r) == req' = [req EXCEPT ![r] = Idle]

\* On to a new session, or to the end, with nothing in hand.
ToSelect(r) ==
    req' = [req EXCEPT ![r] = [@ EXCEPT !.at = "select", !.id = None,
                                        !.state = None]]
ToRelease(r) ==
    req' = [req EXCEPT ![r] = [Idle EXCEPT !.at = "release"]]

Fault(kind) ==
    /\ kind \in Events
    /\ faults < MaxFaults
    /\ faults' = faults + 1

-----------------------------------------------------------------------------
(***************************************************************************)
(* Selecting items.                                                        *)
(***************************************************************************)
\* The SetItem join; practice-all takes every library set, deleted or not.
Eligible(c) ==
    IF c = All THEN UNION {Content[s] : s \in Library} ELSE Content[c]

\* select_due_item_ids without its LIMIT: force ignores next_review.
Due(c, force) ==
    {i \in Eligible(c) : \/ progress[i] \in {"seeded", "due"}
                         \/ force /\ progress[i] = "later"}

\* select_new_item_ids without its LIMIT: the anti-join on progress.
New(c) == {i \in Eligible(c) : progress[i] = "none"}

\* LIMIT n, in whatever order the rows have.
Limited(from, n) ==
    {chosen \in SUBSET from :
        Cardinality(chosen) = IF n < Cardinality(from) THEN n
                                                       ELSE Cardinality(from)}

\* slots_for_new
SlotsForNew(limits, due) ==
    LET left == limits.batch - Cardinality(due)
    IN  IF limits.new < left THEN limits.new ELSE left

\* _select_items: the batches it may return, split into due and new items.
SelectItems(c, limits, exclude, force) ==
    UNION {{<<due, new>> : new \in Limited(New(c) \ exclude,
                                           SlotsForNew(limits, due))} :
           due \in Limited(Due(c, force) \ exclude, limits.batch)}

\* seed_progress_bulk, ON CONFLICT DO NOTHING, once the transaction commits.
Seed(seeds) ==
    progress' = [i \in Items |-> IF i \in seeds /\ progress[i] = "none"
                                 THEN "seeded" ELSE progress[i]]

-----------------------------------------------------------------------------
(***************************************************************************)
(* Keys and rows.                                                          *)
(***************************************************************************)
\* Mutant: SETNX without EX.
AcquireForEver ==
    /\ ~lock.held
    /\ lock' = [held |-> TRUE, ttl |-> FALSE]

\* Mutant: the lock is overwritten.
AcquireAnyway == lock' = [held |-> TRUE, ttl |-> TRUE]

\* SET NX EX 30: one start at a time.
AcquireStartLock ==
    /\ ~lock.held
    /\ lock' = [held |-> TRUE, ttl |-> TRUE]

\* DEL, whoever holds it.
ReleaseStartLock == lock' = Free

SaveSession(s, state) == sess' = [sess EXCEPT ![s] = state]
SetActive(c, s) == pointer' = [pointer EXCEPT ![c] = s]
ClearActive(c) == pointer' = [pointer EXCEPT ![c] = None]

Latest(ids) == {s \in ids : \A t \in ids : t <= s}

\* get_active_db_session_for_context, and the same for every context.
OpenRows(ctxs) == {s \in Sessions : row[s].is = "open" /\ row[s].ctx \in ctxs}

\* get_set, and _user_can_study_set: the user's own, or in the library.
CanStudy(c) ==
    c = All \/ (c \in Sets /\ setLive[c] /\ c \in Owned \union Library)

-----------------------------------------------------------------------------
(***************************************************************************)
(* start_session: the lock, and the session to resume.                     *)
(***************************************************************************)
\* MaxSessions bounds the sessions a behaviour may start.
RowLeft ==
    Cardinality({r \in Requests : ~At(r, "idle")})
        < Cardinality({s \in Sessions : row[s].is = "none"})

StartSession(r, c, force) ==
    /\ At(r, "idle")
    /\ RowLeft
    /\ force => "force" \in Events
    /\ AcquireStartLock
    /\ req' = [req EXCEPT ![r] = [Idle EXCEPT !.at = "pointer",
                                                !.force = force, !.ctx = c]]
    /\ UNCHANGED <<pointer, sess, tableVars, closing, gaveUp, faults>>

\* get_active_session_id
ReadPointer(r) ==
    /\ At(r, "pointer")
    /\ req' = [req EXCEPT ![r].id = pointer[req[r].ctx],
                          ![r].at = IF pointer[req[r].ctx] = None
                                    THEN "find" ELSE "load"]
    /\ UNCHANGED <<redisVars, tableVars, closing, gaveUp, faults>>

\* The fast path: whatever the row says, an incomplete state is resumed.
ResumeFast(r) ==
    /\ At(r, "load")
    /\ IF sess[req[r].id] # None /\ ~IsComplete(sess[req[r].id])
       THEN ToRelease(r)
       ELSE req' = [req EXCEPT ![r].at = "find", ![r].id = None]
    /\ UNCHANGED <<redisVars, tableVars, closing, gaveUp, faults>>

\* The slow path: the latest open row of the context.
FindOpen(r) ==
    /\ At(r, "find")
    /\ \/ /\ OpenRows({req[r].ctx}) = {}
          /\ ToSelect(r)
       \/ \E s \in Latest(OpenRows({req[r].ctx})) :
             req' = [req EXCEPT ![r].at = "read", ![r].id = s]
    /\ UNCHANGED <<redisVars, tableVars, closing, gaveUp, faults>>

\* A reconstruction that raised: logged, and the session is not resumed.
GiveUp(r) ==
    /\ gaveUp' = gaveUp \union {req[r].id}
    /\ ToSelect(r)

\* The queries of _reconstruct_state: the answered items, plus a full batch
\* of what is left to study; nothing is seeded.
ReconstructRead(r) ==
    LET s == req[r].id
        answered == saved[s]
    IN  /\ At(r, "read")
        /\ \/ /\ row[s].ctx \in Sets
              /\ ~setLive[row[s].ctx]
              /\ GiveUp(r)
           \/ /\ row[s].ctx \in Sets => setLive[row[s].ctx]
              /\ \E limits \in Limits :
                 \E picked \in SelectItems(row[s].ctx, limits, answered, FALSE) :
                    req' = [req EXCEPT ![r].at = "save",
                               ![r].state = [answered |-> answered,
                                  batch |-> answered \union picked[1]
                                                     \union picked[2]]]
              /\ UNCHANGED gaveUp
        /\ UNCHANGED <<redisVars, tableVars, closing, faults>>

\* save_session, or a Redis error.
ReconstructSave(r) ==
    /\ At(r, "save")
    /\ \/ /\ SaveSession(req[r].id, req[r].state)
          /\ Goto(r, "point")
          /\ UNCHANGED <<gaveUp, faults>>
       \/ /\ Fault("redisError")
          /\ GiveUp(r)
          /\ UNCHANGED sess
    /\ UNCHANGED <<lock, pointer, tableVars, closing>>

\* set_active, and back: a session with nothing to study is not resumed.
ReconstructPoint(r) ==
    /\ At(r, "point")
    /\ \/ /\ SetActive(row[req[r].id].ctx, req[r].id)
          /\ IF IsComplete(req[r].state)
             THEN GiveUp(r)
             ELSE ToRelease(r) /\ UNCHANGED gaveUp
          /\ UNCHANGED faults
       \/ /\ Fault("redisError")
          /\ GiveUp(r)
          /\ UNCHANGED pointer
    /\ UNCHANGED <<lock, sess, tableVars, closing>>

-----------------------------------------------------------------------------
(***************************************************************************)
(* start_session: a new session.                                           *)
(***************************************************************************)
\* No set, no access or no items: 404, 403 or 409, and the lock is released.
NothingToStart(r) ==
    /\ At(r, "select")
    /\ \/ ~CanStudy(req[r].ctx)
       \/ \E limits \in Limits :
             <<{}, {}>> \in SelectItems(req[r].ctx, limits, {}, req[r].force)
    /\ ToRelease(r)
    /\ UNCHANGED <<redisVars, tableVars, closing, gaveUp, faults>>

\* The selection and the INSERTs, neither of which others can see yet.
CreateSession(r) ==
    /\ At(r, "select")
    /\ CanStudy(req[r].ctx)
    /\ \E s \in Sessions, limits \in Limits :
       \E picked \in SelectItems(req[r].ctx, limits, {}, req[r].force) :
          /\ \A t \in Sessions : (row[t].is = "none") <=> (s <= t)
          /\ picked # <<{}, {}>>
          /\ row' = [row EXCEPT ![s] = [is |-> "new", ctx |-> req[r].ctx,
                                        first |-> picked[1] \union picked[2]]]
          /\ req' = [req EXCEPT ![r].at = "saveNew", ![r].id = s,
                        ![r].seeds = picked[2],
                        ![r].state = [answered |-> {},
                                      batch |-> picked[1] \union picked[2]]]
    /\ UNCHANGED <<redisVars, saved, progress, setLive, closing,
                   gaveUp, faults>>

Rollback(r) ==
    /\ row' = [row EXCEPT ![req[r].id] = Lost]
    /\ ToRelease(r)

\* save_session; an error rolls the row back.
SaveNew(r) ==
    /\ At(r, "saveNew")
    /\ \/ /\ SaveSession(req[r].id, req[r].state)
          /\ Goto(r, "pointNew")
          /\ UNCHANGED <<row, faults>>
       \/ /\ Fault("redisError")
          /\ Rollback(r)
          /\ UNCHANGED sess
    /\ UNCHANGED <<lock, pointer, saved, progress, setLive,
                   closing, gaveUp>>

\* set_active; an error rolls the row back, the saved state stays.
PointNew(r) ==
    /\ At(r, "pointNew")
    /\ \/ /\ SetActive(req[r].ctx, req[r].id)
          /\ Goto(r, "commit")
          /\ UNCHANGED <<row, faults>>
       \/ /\ Fault("redisError")
          /\ Rollback(r)
          /\ UNCHANGED pointer
    /\ UNCHANGED <<lock, sess, saved, progress, setLive,
                   closing, gaveUp>>

\* Mutant: the seeds are committed on their own, before the session.
CommitSeedsFirst(r) ==
    /\ At(r, "commit")
    /\ Seed(req[r].seeds)
    /\ \/ /\ row' = [row EXCEPT ![req[r].id].is = "open"]
          /\ ToRelease(r)
          /\ UNCHANGED faults
       \/ /\ Fault("commitError")
          /\ Rollback(r)
    /\ UNCHANGED <<redisVars, saved, setLive, closing, gaveUp>>

\* The commit, or its failure: then Redis keeps a session without a row.
CommitNew(r) ==
    /\ At(r, "commit")
    /\ \/ /\ row' = [row EXCEPT ![req[r].id].is = "open"]
          /\ Seed(req[r].seeds)
          /\ ToRelease(r)
          /\ UNCHANGED faults
       \/ /\ Fault("commitError")
          /\ Rollback(r)
          /\ UNCHANGED progress
    /\ UNCHANGED <<redisVars, saved, setLive, closing, gaveUp>>

\* The finally clause.
Release(r) ==
    /\ At(r, "release")
    /\ ReleaseStartLock
    /\ Return(r)
    /\ UNCHANGED <<pointer, sess, tableVars, closing, gaveUp, faults>>

-----------------------------------------------------------------------------
(***************************************************************************)
(* What happens to a session in the meantime.                              *)
(***************************************************************************)
\* submit_answer; the script looks at Redis alone.
Answer(s, i) ==
    /\ sess[s] # None
    /\ row[s].is # "new"
    /\ i \in sess[s].batch \ sess[s].answered
    /\ sess' = [sess EXCEPT ![s].answered = @ \union {i}]
    /\ UNCHANGED <<lock, pointer, tableVars, closing, req, gaveUp, faults>>

\* The sweeper saves the answers of a session that may expire.
Checkpoint(s) ==
    /\ row[s].is = "open"
    /\ sess[s] # None
    /\ saved' = [saved EXCEPT ![s] = sess[s].answered]
    /\ UNCHANGED <<redisVars, row, progress, setLive, closing, req,
                   gaveUp, faults>>

\* finalise_batch commits; the keys go after the commit, one by one.
CloseCommit(s) ==
    /\ row[s].is = "open"
    /\ sess[s] # None
    /\ row' = [row EXCEPT ![s].is = "closed"]
    /\ saved' = [saved EXCEPT ![s] = IF @ = {} THEN sess[s].answered ELSE @]
    /\ progress' = [i \in Items |-> IF i \in sess[s].answered THEN "later"
                                    ELSE progress[i]]
    /\ closing' = [closing EXCEPT ![s] = "delete"]
    /\ UNCHANGED <<redisVars, setLive, req, gaveUp, faults>>

CloseDelete(s) ==
    /\ closing[s] = "delete"
    /\ sess' = [sess EXCEPT ![s] = None]
    /\ closing' = [closing EXCEPT ![s] = "clear"]
    /\ UNCHANGED <<lock, pointer, tableVars, req, gaveUp, faults>>

\* clear_active deletes the key, whichever session it names.
CloseClear(s) ==
    /\ closing[s] = "clear"
    /\ ClearActive(row[s].ctx)
    /\ closing' = [closing EXCEPT ![s] = "no"]
    /\ UNCHANGED <<lock, sess, tableVars, req, gaveUp, faults>>

\* delete_set abandons the open sessions of the set, in the database only.
DeleteSet(c) ==
    /\ "deleteSet" \in Events
    /\ setLive[c]
    /\ c \in Owned
    /\ setLive' = [setLive EXCEPT ![c] = FALSE]
    /\ row' = [s \in Sessions |->
                 IF row[s].is = "open" /\ row[s].ctx = c
                 THEN [row[s] EXCEPT !.is = "closed"] ELSE row[s]]
    /\ UNCHANGED <<redisVars, saved, progress, closing, req,
                   gaveUp, faults>>

\* next_review comes.
FallDue(i) ==
    /\ progress[i] = "later"
    /\ progress' = [progress EXCEPT ![i] = "due"]
    /\ UNCHANGED <<redisVars, row, saved, setLive, closing, req,
                   gaveUp, faults>>

\* Redis loses the sessions and the pointers (TTL, restart).
Evict ==
    /\ Fault("evict")
    /\ pointer' = [c \in Contexts |-> None]
    /\ sess' = [s \in Sessions |-> None]
    /\ UNCHANGED <<lock, tableVars, closing, req, gaveUp>>

\* The process dies: requests are gone, open transactions roll back, and the
\* lock stays until it expires.
Crash ==
    /\ Fault("crash")
    /\ req' = [r \in Requests |-> Idle]
    /\ closing' = [s \in Sessions |-> "no"]
    /\ row' = [s \in Sessions |-> IF row[s].is = "new"
                                  THEN Lost ELSE row[s]]
    /\ UNCHANGED <<redisVars, saved, progress, setLive, gaveUp>>

\* The TTL of the lock: after a crash, or (lockExpiry) under a slow start.
LockExpires ==
    /\ lock.held /\ lock.ttl
    /\ "lockExpiry" \in Events \/ \A r \in Requests : At(r, "idle")
    /\ lock' = Free
    /\ UNCHANGED <<pointer, sess, tableVars, closing, req, gaveUp, faults>>

-----------------------------------------------------------------------------
Continue(r) ==
    \/ ReadPointer(r) \/ ResumeFast(r) \/ FindOpen(r)
    \/ ReconstructRead(r) \/ ReconstructSave(r) \/ ReconstructPoint(r)
    \/ NothingToStart(r) \/ CreateSession(r)
    \/ SaveNew(r) \/ PointNew(r) \/ CommitNew(r) \/ Release(r)

Next ==
    \/ \E r \in Requests : Continue(r)
    \/ \E r \in Requests, c \in Contexts, force \in BOOLEAN :
          StartSession(r, c, force)
    \/ \E s \in Sessions :
          \/ Checkpoint(s) \/ CloseCommit(s) \/ CloseDelete(s) \/ CloseClear(s)
          \/ \E i \in Items : Answer(s, i)
    \/ \E c \in Sets : DeleteSet(c)
    \/ \E i \in Items : FallDue(i)
    \/ Evict \/ Crash \/ LockExpires

Spec == Init /\ [][Next]_vars

\* A request runs on while the process lives, and a TTL runs out.
FairSpec ==
    /\ Spec
    /\ \A r \in Requests : WF_vars(Continue(r))
    /\ WF_vars(LockExpires)

-----------------------------------------------------------------------------
(***************************************************************************)
(* Properties.                                                             *)
(***************************************************************************)
\* Two sessions of one context are open at a time only when a start request
\* tried to resume one of them and failed: concurrent starts never open two
\* ("prevents TOCTOU on concurrent session starts", session_manager.py).
OneOpenPerContext ==
    \A s, t \in Sessions :
        /\ row[s].is = "open" /\ row[t].is = "open"
        /\ row[s].ctx = row[t].ctx
        => s = t \/ s \in gaveUp \/ t \in gaveUp

\* A start that failed leaves no progress behind: an item that was seeded and
\* not yet reviewed was in the batch of a session that was committed.
NoTraceOfFailedStart ==
    \A i \in Items :
        progress[i] = "seeded" =>
            \E s \in Sessions :
                row[s].is \in {"open", "closed"} /\ i \in row[s].first

\* The user can always start again: whatever dies while it holds the start
\* lock, the lock is free some time later (SET with NX and EX in one command).
StartAgain == []<>(~lock.held)
=============================================================================
