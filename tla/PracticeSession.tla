-------------------------- MODULE PracticeSession --------------------------
(***************************************************************************)
(* The life of one buffered practice session of one user, from the moment  *)
(* start_session has committed it: answers are buffered in Redis, and the  *)
(* user's finalise or abandon call, or the sweeper, turns the buffer into  *)
(* database rows.  Requests and the sweeper are coroutines: each action    *)
(* below runs from one await to the next, and any other coroutine may run  *)
(* in between.                                                             *)
(*                                                                         *)
(* Sources: services/practice_service.py, services/session_sweeper.py.     *)
(***************************************************************************)
EXTENDS SessionTables

CONSTANTS
    Submitters,     \* requests that buffer answers or look at the session
    Flushers,       \* finalise and abandon requests
    Sweepers,       \* the sweep loop and the shutdown flush
    Events,         \* the optional events of this instance (see below)
    MaxFaults       \* bound on the number of faults in a behaviour

AllEvents == {"retry", "viewActive", "restart", "settings", "deleteSet",
              "crash", "flushError", "deleteError", "lockExpiry",
              "loseEverything", "evict"}

ASSUME ProcessAssumption ==
    /\ Submitters \cap Flushers = {}
    /\ Submitters \cap Sweepers = {}
    /\ Flushers \cap Sweepers = {}
    /\ Events \subseteq AllEvents
    /\ MaxFaults \in Nat

Procs == Submitters \cup Flushers \cup Sweepers

VARIABLES
    pc,         \* where a coroutine is suspended
    resume,     \* where it goes on after reconstructing the session
    ans,        \* the answer a submit request carries
    mem,        \* its copy of the session state
    batch,      \* its copy of the raw events
    target,     \* the status it closes the session with
    client,     \* what the client knows of each answer
    faults      \* faults so far

procVars == <<pc, resume, ans, mem, batch, target, client, faults>>
vars == <<bufferVars, tableVars, procVars>>

SubmitPc == {"idle", "append", "reload"}
ReconPc  == {"reconRead", "reconSave", "reconActive"}
FlushPc  == {"lock", "row", "load", "raw", "checkpoint", "recover", "commit",
             "delete", "release", "clear", "sweepClear", "mark", "unlock"}

ProcTypeOK ==
    /\ pc \in [Procs -> SubmitPc \cup ReconPc \cup FlushPc]
    /\ resume \in [Procs -> {"idle", "check", "ack", "raw"}]
    /\ ans \in [Procs -> Answers \cup {None}]
    /\ mem \in [Procs -> SessionState \cup {None}]
    /\ batch \in [Procs -> Seq(Answers)]
    /\ target \in [Procs -> Closed]
    /\ client \in [Answers -> {"new", "sent", "acked"}]
    /\ faults \in Nat

TypeOK == BufferTypeOK /\ TablesTypeOK /\ ProcTypeOK

\* start_session has saved the state, set the pointer and committed the row;
\* every item it selected has, or was seeded with, a progress row.
Init ==
    /\ \E b \in Batches \ {<<>>} :
          /\ sess = [order |-> b, idx |-> 0]
          /\ progress = ToSet(b)
    /\ raw = <<>> /\ seen = {} /\ active = TRUE /\ flushLock = FALSE
    /\ row = [status |-> "in_progress", ended |-> FALSE, reviewed |-> 0]
    /\ reviews = {} /\ pending = None /\ setLive = TRUE
    /\ applied = [a \in Answers |-> 0]
    /\ pc = [p \in Procs |-> "idle"]
    /\ resume = [p \in Procs |-> "idle"]
    /\ ans = [p \in Procs |-> None]
    /\ mem = [p \in Procs |-> None]
    /\ batch = [p \in Procs |-> <<>>]
    /\ target = [p \in Procs |-> "completed"]
    /\ client = [a \in Answers |-> "new"]
    /\ faults = 0

Goto(p, there) == pc' = [pc EXCEPT ![p] = there]

\* The request is over; its local copies are gone.
Return(p) ==
    /\ Goto(p, "idle")
    /\ resume' = [resume EXCEPT ![p] = "idle"]
    /\ ans' = [ans EXCEPT ![p] = None]
    /\ mem' = [mem EXCEPT ![p] = None]
    /\ batch' = [batch EXCEPT ![p] = <<>>]
    /\ target' = [target EXCEPT ![p] = "completed"]

\* A step that moves p and touches no other local state.
Step(p, from, to) ==
    /\ pc[p] = from
    /\ Goto(p, to)
    /\ UNCHANGED <<resume, ans, mem, batch, target, client, faults>>

-----------------------------------------------------------------------------
(***************************************************************************)
(* submit_answer.                                                          *)
(***************************************************************************)

\* The in-order check against a loaded state.
InOrder(s, a) == ~IsComplete(s) /\ ItemOf[a] = NextItem(s)

MaySend(a) == client[a] = "new" \/ "retry" \in Events

\* GET of the session key, and the checks on what it returned.
SubmitLoad(p, a) ==
    /\ pc[p] = "idle"
    /\ MaySend(a)
    /\ client' = [client EXCEPT ![a] = IF @ = "new" THEN "sent" ELSE @]
    /\ \/ /\ sess # None
          /\ InOrder(sess, a)
          /\ Goto(p, "append")
          /\ ans' = [ans EXCEPT ![p] = a]
          /\ UNCHANGED resume
       \/ /\ sess # None
          /\ ~InOrder(sess, a)              \* 422
          /\ UNCHANGED <<pc, ans, resume>>
       \/ /\ sess = None
          /\ Goto(p, "reconRead")
          /\ ans' = [ans EXCEPT ![p] = a]
          /\ resume' = [resume EXCEPT ![p] = "check"]
    /\ UNCHANGED <<mem, batch, target, faults, bufferVars, tableVars>>

Acknowledge(p) == client' = [client EXCEPT ![ans[p]] = "acked"]

\* The Lua script, and the 202 when it returned a state.
SubmitAppend(p) ==
    /\ pc[p] = "append"
    /\ \/ /\ AppendAccepted(ans[p])
          /\ Acknowledge(p)
          /\ Return(p)
       \/ /\ AppendRefused(ans[p])
          /\ Goto(p, "reload")
          /\ UNCHANGED <<resume, ans, mem, batch, target, client, bufferVars>>
       \/ /\ AppendMiss(ans[p])
          /\ Goto(p, "reconRead")
          /\ resume' = [resume EXCEPT ![p] = "ack"]
          /\ UNCHANGED <<ans, mem, batch, target, client, bufferVars>>
    /\ UNCHANGED <<faults, tableVars>>

\* append_raw_answer answers DUPLICATE and SESSION_COMPLETE with load_session.
SubmitReload(p) ==
    /\ pc[p] = "reload"
    /\ \/ /\ sess # None
          /\ Acknowledge(p)
          /\ Return(p)
       \/ /\ sess = None
          /\ Goto(p, "reconRead")
          /\ resume' = [resume EXCEPT ![p] = "ack"]
          /\ UNCHANGED <<ans, mem, batch, target, client>>
    /\ UNCHANGED <<faults, bufferVars, tableVars>>

-----------------------------------------------------------------------------
(***************************************************************************)
(* get_active_session and the resume half of start_session.  The former    *)
(* looks up the pointer of the context (no set, no language), which no     *)
(* session registers, so it always goes to the database and reconstructs.  *)
(* The latter does so when the pointed-at state is gone or complete.  A    *)
(* change of settings (refresh_comparison_config) reconstructs a missing   *)
(* state, of an open or a closed session, and then fails: it builds a      *)
(* SessionState without its required source_lang_id and saves nothing.     *)
(***************************************************************************)
ViewActive(p) ==
    /\ "viewActive" \in Events
    /\ pc[p] = "idle"
    /\ row.status = "in_progress"
    /\ Goto(p, "reconRead")
    /\ UNCHANGED <<resume, ans, mem, batch, target, client, faults,
                   bufferVars, tableVars>>

ResumeOnStart(p) ==
    /\ "restart" \in Events
    /\ pc[p] = "idle"
    /\ ~(active /\ sess # None /\ ~IsComplete(sess))
    /\ row.status = "in_progress"
    /\ Goto(p, "reconRead")
    /\ UNCHANGED <<resume, ans, mem, batch, target, client, faults,
                   bufferVars, tableVars>>

RefreshConfig(p) ==
    /\ "settings" \in Events
    /\ pc[p] = "idle"
    /\ sess = None
    /\ Goto(p, "reconRead")
    /\ UNCHANGED <<resume, ans, mem, batch, target, client, faults,
                   bufferVars, tableVars>>

-----------------------------------------------------------------------------
(***************************************************************************)
(* _reconstruct_state, shared by the requests above and by _flush_session. *)
(***************************************************************************)
\* The queries.  ended_at is not looked at; a deleted set raises.
ReconstructRead(p) ==
    /\ pc[p] = "reconRead"
    /\ \/ /\ setLive
          /\ \E rest \in SelectItems(ToSet(AnsweredIds)) :
                mem' = [mem EXCEPT ![p] = [order |-> AnsweredIds \o rest,
                                           idx |-> Len(AnsweredIds)]]
          /\ Goto(p, "reconSave")
          /\ UNCHANGED <<resume, ans, batch, target>>
       \/ /\ ~setLive
          /\ p \in Flushers
          /\ Goto(p, "unlock")
          /\ UNCHANGED <<resume, ans, mem, batch, target>>
       \/ /\ ~setLive
          /\ p \notin Flushers
          /\ Return(p)
    /\ UNCHANGED <<client, faults, bufferVars, tableVars>>

ReconstructSave(p) ==
    /\ Step(p, "reconSave", "reconActive")
    /\ SaveSession(mem[p])
    /\ UNCHANGED tableVars

\* set_active, then back to the caller: a submit request still has its
\* in-order check to do ("check") or nothing but its 202 ("ack").
ReconstructActivate(p) ==
    /\ pc[p] = "reconActive"
    /\ SetActive
    /\ \/ /\ resume[p] = "check"
          /\ InOrder(mem[p], ans[p])
          /\ Goto(p, "append")
          /\ mem' = [mem EXCEPT ![p] = None]
          /\ resume' = [resume EXCEPT ![p] = "idle"]
          /\ UNCHANGED <<ans, batch, target, client>>
       \/ /\ resume[p] = "check"
          /\ ~InOrder(mem[p], ans[p])
          /\ Return(p)
          /\ UNCHANGED client
       \/ /\ resume[p] = "ack"
          /\ Acknowledge(p)
          /\ Return(p)
       \/ /\ resume[p] = "idle"
          /\ Return(p)
          /\ UNCHANGED client
       \/ /\ resume[p] = "raw"
          /\ Goto(p, "raw")
          /\ resume' = [resume EXCEPT ![p] = "idle"]
          /\ UNCHANGED <<ans, mem, batch, target, client>>
    /\ UNCHANGED <<faults, tableVars>>

-----------------------------------------------------------------------------
(***************************************************************************)
(* _flush_session.  The row is read first, the lock taken second, and the  *)
(* row is not read again.                                                  *)
(***************************************************************************)
FlushRequest(p, st) ==
    /\ pc[p] = "idle"
    /\ Goto(p, IF row.ended THEN "clear" ELSE "lock")
    /\ target' = [target EXCEPT ![p] = IF row.ended THEN "completed" ELSE st]
    /\ UNCHANGED <<resume, ans, mem, batch, client, faults,
                   bufferVars, tableVars>>

\* Shared with the sweeper; a caller that finds the lock taken gives up.
TakeLock(p, next) ==
    /\ pc[p] = "lock"
    /\ \/ /\ AcquireFlushLock
          /\ Goto(p, next)
          /\ UNCHANGED <<resume, ans, mem, batch, target>>
       \/ /\ flushLock
          /\ Return(p)
          /\ UNCHANGED bufferVars
    /\ UNCHANGED <<client, faults, tableVars>>

FlushLock(p) == TakeLock(p, "load")

FlushLoad(p) ==
    /\ pc[p] = "load"
    /\ \/ /\ sess # None
          /\ Goto(p, "raw")
          /\ mem' = [mem EXCEPT ![p] = sess]
          /\ UNCHANGED resume
       \/ /\ sess = None
          /\ Goto(p, "reconRead")
          /\ resume' = [resume EXCEPT ![p] = "raw"]
          /\ UNCHANGED mem
    /\ UNCHANGED <<ans, batch, target, client, faults, bufferVars, tableVars>>

FlushReadRaw(p) ==
    /\ pc[p] = "raw"
    /\ batch' = [batch EXCEPT ![p] = raw]
    /\ Goto(p, "commit")
    /\ UNCHANGED <<resume, ans, mem, target, client, faults,
                   bufferVars, tableVars>>

\* Mutant: the buffer is dropped whether or not the transaction succeeded.
CommitOrNot(p) ==
    /\ pc[p] = "commit"
    /\ Goto(p, "delete")
    /\ \/ /\ FinaliseBatch(mem[p], batch[p], target[p])
          /\ UNCHANGED faults
       \/ /\ "flushError" \in Events
          /\ faults < MaxFaults
          /\ faults' = faults + 1
          /\ UNCHANGED tableVars
    /\ UNCHANGED <<resume, ans, mem, batch, target, client, bufferVars>>

\* The database transaction of finalise_batch, or its failure: rollback,
\* release the lock, report an error.  Redis keeps the buffer.
Commit(p) ==
    /\ pc[p] = "commit"
    /\ \/ /\ FinaliseBatch(mem[p], batch[p], target[p])
          /\ Goto(p, "delete")
          /\ UNCHANGED faults
       \/ /\ FinaliseFails(mem[p], batch[p])
          /\ Goto(p, "unlock")
          /\ UNCHANGED <<faults, tableVars>>
       \/ /\ "flushError" \in Events
          /\ faults < MaxFaults
          /\ faults' = faults + 1
          /\ Goto(p, "unlock")
          /\ UNCHANGED tableVars
    /\ UNCHANGED <<resume, ans, mem, batch, target, client, bufferVars>>

\* delete_session after the commit, or a Redis error in its place.
DropBuffer(p, next) ==
    /\ pc[p] = "delete"
    /\ \/ /\ DeleteSession
          /\ Goto(p, next)
          /\ UNCHANGED faults
       \/ /\ "deleteError" \in Events
          /\ faults < MaxFaults
          /\ faults' = faults + 1
          /\ Goto(p, "unlock")
          /\ UNCHANGED bufferVars
    /\ UNCHANGED <<resume, ans, mem, batch, target, client, tableVars>>

FlushDelete(p) == DropBuffer(p, "release")

FlushRelease(p) ==
    /\ Step(p, "release", "clear")
    /\ ReleaseFlushLock
    /\ UNCHANGED tableVars

FlushClear(p) ==
    /\ pc[p] = "clear"
    /\ ClearActive
    /\ Return(p)
    /\ UNCHANGED <<client, faults, tableVars>>

\* The finally clause of an exception path, and the end of _flush_one.
Unlock(p) ==
    /\ pc[p] = "unlock"
    /\ ReleaseFlushLock
    /\ Return(p)
    /\ UNCHANGED <<client, faults, tableVars>>

-----------------------------------------------------------------------------
(***************************************************************************)
(* The sweeper.  Which open sessions a sweep picks depends on TTLs, so any *)
(* open session may be picked at any time; the shutdown flush picks all.   *)
(***************************************************************************)
\* Mutant: a session whose key has expired (TTL -2) is not picked.
SweepSelectLive(p) ==
    /\ row.status = "in_progress"
    /\ sess # None
    /\ Step(p, "idle", "lock")
    /\ UNCHANGED <<bufferVars, tableVars>>

SweepSelect(p) ==
    /\ row.status = "in_progress"
    /\ Step(p, "idle", "lock")
    /\ UNCHANGED <<bufferVars, tableVars>>

SweepLock(p) == TakeLock(p, "row")

\* Mutant: the row is not looked at under the lock.
SweepAnyRow(p) ==
    /\ Step(p, "row", "load")
    /\ UNCHANGED <<bufferVars, tableVars>>

SweepRow(p) ==
    /\ Step(p, "row", IF row.ended THEN "unlock" ELSE "load")
    /\ UNCHANGED <<bufferVars, tableVars>>

SweepLoad(p) ==
    /\ pc[p] = "load"
    /\ mem' = [mem EXCEPT ![p] = sess]
    /\ Goto(p, "raw")
    /\ UNCHANGED <<resume, ans, batch, target, client, faults,
                   bufferVars, tableVars>>

\* Mutant: checkpoints whatever events there are, with or without a state.
SweepCheckpointAny(p) ==
    /\ pc[p] = "raw"
    /\ batch' = [batch EXCEPT ![p] = raw]
    /\ Goto(p, IF raw # <<>> THEN "checkpoint"
               ELSE IF mem[p] = None THEN "recover" ELSE "commit")
    /\ UNCHANGED <<resume, ans, mem, target, client, faults,
                   bufferVars, tableVars>>

SweepReadRaw(p) ==
    /\ pc[p] = "raw"
    /\ batch' = [batch EXCEPT ![p] = raw]
    /\ Goto(p, IF mem[p] = None THEN "recover"
               ELSE IF raw = <<>> THEN "commit" ELSE "checkpoint")
    /\ UNCHANGED <<resume, ans, mem, target, client, faults,
                   bufferVars, tableVars>>

\* Upsert and commit.  The row fetched again afterwards is the object of the
\* identity map, not expired by the commit, so nothing new is learnt.
SweepCheckpoint(p) ==
    /\ Step(p, "checkpoint", "commit")
    /\ SavePending(mem[p], batch[p])
    /\ UNCHANGED bufferVars

\* The state key is gone: pending row, else the reviews and no events.
SweepRecover(p) ==
    /\ pc[p] = "recover"
    /\ \/ /\ HasPending
          /\ mem' = [mem EXCEPT ![p] = pending.state]
          /\ batch' = [batch EXCEPT ![p] = pending.raw]
       \/ /\ ~HasPending
          /\ mem' = [mem EXCEPT ![p] = [order |-> SetToSeq(ReviewedItems),
                                        idx |-> 0]]
          /\ batch' = [batch EXCEPT ![p] = <<>>]
    /\ Goto(p, "commit")
    /\ UNCHANGED <<resume, ans, target, client, faults, bufferVars, tableVars>>

SweepDelete(p) == DropBuffer(p, "sweepClear")

\* mark_pending_session_recovered is executed before clear_active but becomes
\* visible only when get_session() commits on leaving its block.
SweepClear(p) ==
    /\ Step(p, "sweepClear", "mark")
    /\ ClearActive
    /\ UNCHANGED tableVars

SweepMark(p) ==
    /\ Step(p, "mark", "unlock")
    /\ MarkRecovered
    /\ UNCHANGED bufferVars

-----------------------------------------------------------------------------
(***************************************************************************)
(* Events outside the requests.                                            *)
(***************************************************************************)
Fault(kind) ==
    /\ kind \in Events
    /\ faults < MaxFaults
    /\ faults' = faults + 1

\* The single server process stops and starts again.
Crash ==
    /\ Fault("crash")
    /\ pc' = [p \in Procs |-> "idle"]
    /\ resume' = [p \in Procs |-> "idle"]
    /\ ans' = [p \in Procs |-> None]
    /\ mem' = [p \in Procs |-> None]
    /\ batch' = [p \in Procs |-> <<>>]
    /\ target' = [p \in Procs |-> "completed"]
    /\ UNCHANGED <<client, bufferVars, tableVars>>

CriticalPc == ReconPc \cup
    {"row", "load", "raw", "checkpoint", "recover", "commit", "delete",
     "release", "sweepClear", "mark", "unlock"}

\* p believes it holds the flush lock.
InCritical(p) == p \in Flushers \cup Sweepers /\ pc[p] \in CriticalPc

\* Mutant: the lock has no TTL.
LockNeverExpires == flushLock /\ UNCHANGED vars

\* The lock's TTL runs out: normally only after a crash left it behind, and
\* with "lockExpiry" also under a holder that needs more than 120 s.
LockExpires ==
    /\ flushLock
    /\ \/ /\ ~\E p \in Procs : InCritical(p)
          /\ UNCHANGED faults
       \/ Fault("lockExpiry")
    /\ ReleaseFlushLock
    /\ UNCHANGED <<pc, resume, ans, mem, batch, target, client, tableVars>>

RedisLoses ==
    /\ \/ Fault("loseEverything") /\ LoseEverything
       \/ Fault("evict") /\ EvictOne
    /\ UNCHANGED <<pc, resume, ans, mem, batch, target, client, tableVars>>

DeleteSet ==
    /\ "deleteSet" \in Events
    /\ DeleteSetTables
    /\ UNCHANGED <<procVars, bufferVars>>

-----------------------------------------------------------------------------
SubmitRequest(p) ==
    \/ \E a \in Answers : SubmitLoad(p, a)
    \/ ViewActive(p)
    \/ ResumeOnStart(p)
    \/ RefreshConfig(p)

SubmitStep(p) == SubmitAppend(p) \/ SubmitReload(p)

Reconstruct(p) ==
    ReconstructRead(p) \/ ReconstructSave(p) \/ ReconstructActivate(p)

FlushStep(p) ==
    \/ FlushLock(p) \/ FlushLoad(p) \/ FlushReadRaw(p) \/ Commit(p)
    \/ FlushDelete(p) \/ FlushRelease(p) \/ FlushClear(p) \/ Unlock(p)

SweepStep(p) ==
    \/ SweepRow(p) \/ SweepLoad(p) \/ SweepReadRaw(p) \/ SweepCheckpoint(p)
    \/ SweepRecover(p) \/ Commit(p) \/ SweepDelete(p) \/ SweepClear(p)
    \/ SweepMark(p) \/ Unlock(p)

Next ==
    \/ \E p \in Submitters : SubmitRequest(p) \/ SubmitStep(p) \/ Reconstruct(p)
    \/ \E p \in Flushers :
          (\E st \in Closed : FlushRequest(p, st)) \/ FlushStep(p) \/ Reconstruct(p)
    \/ \E p \in Sweepers : SweepSelect(p) \/ SweepLock(p) \/ SweepStep(p)
    \/ Crash \/ LockExpires \/ RedisLoses \/ DeleteSet

Spec == Init /\ [][Next]_vars

(***************************************************************************)
(* The event loop keeps running the coroutines it has started, the sweep   *)
(* loop comes round every five minutes, and Redis expires a forgotten      *)
(* lock.  Clients owe nothing.                                             *)
(***************************************************************************)
Fairness ==
    /\ \A p \in Submitters : WF_vars(SubmitStep(p) \/ Reconstruct(p))
    /\ \A p \in Flushers : WF_vars(FlushStep(p) \/ Reconstruct(p))
    /\ \A p \in Sweepers : WF_vars(SweepSelect(p) \/ SweepLock(p) \/ SweepStep(p))
    /\ WF_vars(LockExpires)

FairSpec == Spec /\ Fairness

-----------------------------------------------------------------------------
(***************************************************************************)
(* Properties.                                                             *)
(***************************************************************************)
\* The flush lock keeps a user's finalise and the sweeper from working on the
\* session at the same time.
OneFlusher ==
    \A p, q \in Procs : InCritical(p) /\ InCritical(q) => p = q

\* No answer goes through SM-2 and the daily statistics twice, however the
\* finalise calls, the sweeper and a crash between COMMIT and DEL interleave.
AppliedAtMostOnce == \A a \in Answers : applied[a] <= 1

IndexCountsBuffer == sess # None /\ sess.idx = Len(raw)

BufferInOrder ==
    \A k \in 1..Len(raw) :
        k <= Len(sess.order) /\ ItemOf[raw[k]] = sess.order[k]

\* While the session is open, the state and the list of raw events agree,
\* although they are two keys: the index is the number of buffered answers,
\* and the k-th of them is for the k-th item.
StateMatchesBuffer == ~row.ended => IndexCountsBuffer /\ BufferInOrder

\* When the sweeper comes to delete the buffer, everything it read from it is
\* in the database: neither truncation nor a rival made it skip an answer.
SweptIsWritten ==
    \A p \in Sweepers : pc[p] = "delete" =>
        \A a \in ToSet(batch[p]) : applied[a] >= 1

\* Answers the sweeper has checkpointed are applied once the session is
\* closed, whatever happened between the checkpoint and the close.
CheckpointKept ==
    row.ended /\ pending # None =>
        \A a \in ToSet(pending.raw) : applied[a] >= 1

\* Reviews and schedules move together: an answer that was applied left its
\* item with a review, a reviewed answer was applied, one review per item.
LogMatchesProgress ==
    /\ \A a \in Answers : applied[a] >= 1 => ItemOf[a] \in ReviewedItems
    /\ \A a \in reviews : applied[a] >= 1
    /\ \A a, b \in reviews : ItemOf[a] = ItemOf[b] => a = b

\* Closed by the sweeper alone, and with Redis keeping its data, the session
\* does what SessionOutcome promises, whatever crashes, failed flushes and
\* retries come between: what the flusher's LRANGE read is counted once, in
\* order, together with the close, and nothing before or after it; the
\* session keeps the status it was closed with, and the number of answers.
Outcome == INSTANCE SessionOutcome WITH
    result  <- [status |-> row.status, reviewed |-> row.reviewed],
    waiting <- IF row.ended THEN <<>> ELSE raw,
    counted <- applied

KeepsOutcome == Outcome!Spec

\* Every session is closed in the end.
EventuallyClosed == <>row.ended

\* A flush lock never stays behind for ever.
LockFreed == flushLock ~> ~flushLock
=============================================================================
