----------------------- MODULE PracticeSession_proofs -----------------------
(***************************************************************************)
(* Theorems about PracticeSession, for any items, answers and processes.   *)
(***************************************************************************)
EXTENDS PracticeSession, FiniteSetTheorems, SequenceTheorems, TLAPS

(***************************************************************************)
(* Lemmas about the operators of SessionBuffer and SessionTables: each     *)
(* Redis command and each transaction keeps the types of what it writes.   *)
(***************************************************************************)
\* A finite set can be listed.
LEMMA SetToSeqType ==
    ASSUME NEW S, IsFiniteSet(S)
    PROVE  SetToSeq(S) \in Seq(S)
  <1>1. Cardinality(S) \in Nat
    BY FS_CardinalityType
  <1>2. PICK f : f \in Bijection(1..Cardinality(S), S)
    BY FS_CardinalityType DEF ExistsBijection
  <1>3. f \in [1..Cardinality(S) -> S] /\ IsInjective(f)
    BY <1>2 DEF Bijection, Injection
  <1>4. SetToSeq(S) \in [1..Cardinality(S) -> S]
    BY <1>3 DEF SetToSeq
  <1> QED
    BY <1>1, <1>4

LEMMA TrimType ==
    ASSUME NEW s \in Seq(Answers)
    PROVE  Trim(s) \in Seq(Answers)
  <1>1. CASE Len(s) > MaxRawEvents
    <2>1. Len(s) - MaxRawEvents + 1 \in 1..(Len(s) + 1)
      BY <1>1, BufferAssumption, LenProperties
    <2> QED
      BY <1>1, <2>1, SubSeqProperties, LenProperties DEF Trim
  <1>2. CASE ~(Len(s) > MaxRawEvents)
    BY <1>2 DEF Trim
  <1> QED
    BY <1>1, <1>2

\* _APPEND_RAW_LUA.
LEMMA AppendType ==
    ASSUME BufferTypeOK, NEW a \in Answers, AppendAccepted(a)
    PROVE  BufferTypeOK'
  <1>1. raw' \in Seq(Answers)
    BY TrimType, AppendProperties DEF BufferTypeOK, AppendAccepted
  <1>2. sess' \in SessionState
    BY DEF BufferTypeOK, AppendAccepted, SessionState
  <1> QED
    BY <1>1, <1>2 DEF BufferTypeOK, AppendAccepted

-----------------------------------------------------------------------------
LEMMA ItemsOfType ==
    ASSUME NEW b \in Seq(Answers)
    PROVE  ItemsOf(b) \in Seq(Items)
  <1>1. \A k \in 1..Len(b) : ItemOf[b[k]] \in Items
    BY BufferAssumption, ElementOfSeq
  <1> QED
    BY <1>1 DEF ItemsOf

LEMMA ReviewedItemsFinite ==
    ASSUME TablesTypeOK
    PROVE  ReviewedItems \subseteq Items /\ IsFiniteSet(ReviewedItems)
  <1>1. ReviewedItems \subseteq Items
    BY BufferAssumption DEF TablesTypeOK, ReviewedItems
  <1> QED
    BY <1>1, BufferAssumption, FS_Subset

\* The items a reconstruction or a last-resort sweep starts from.
LEMMA AnsweredType ==
    ASSUME TablesTypeOK
    PROVE  AnsweredIds \in Seq(Items) /\ SetToSeq(ReviewedItems) \in Seq(Items)
  <1>1. SetToSeq(ReviewedItems) \in Seq(Items)
    BY ReviewedItemsFinite, SetToSeqType, SeqMonotonic
  <1>2. HasPending => pending.raw \in Seq(Answers)
    BY DEF HasPending, TablesTypeOK, Pending
  <1> QED
    BY <1>1, <1>2, ItemsOfType DEF AnsweredIds

-----------------------------------------------------------------------------
LEMMA TruncatedType ==
    ASSUME NEW s \in SessionState, NEW b \in Seq(Answers)
    PROVE  Truncated(s, b) \in Seq(Answers)
  <1>1. Len(s.order) \in Nat
    BY LenProperties DEF SessionState
  <1>2. CASE Len(b) > Len(s.order)
    BY <1>1, <1>2, SubSeqProperties, LenProperties DEF Truncated
  <1>3. CASE ~(Len(b) > Len(s.order))
    BY <1>3 DEF Truncated
  <1> QED
    BY <1>2, <1>3

\* How often an answer occurs in a batch.
LEMMA CountType ==
    ASSUME NEW b \in Seq(Answers), NEW a
    PROVE  Cardinality({k \in 1..Len(b) : b[k] = a}) \in Nat
  <1>1. IsFiniteSet(1..Len(b))
    BY FS_Interval, LenProperties
  <1>2. IsFiniteSet({k \in 1..Len(b) : b[k] = a})
    BY <1>1, FS_Subset
  <1> QED
    BY <1>2, FS_CardinalityType

LEMMA CloseWithType ==
    ASSUME TablesTypeOK, NEW b \in Seq(Answers), NEW st \in Closed, CloseWith(b, st)
    PROVE  TablesTypeOK'
  <1>1. row' \in Row
    BY LenProperties DEF CloseWith, Row
  <1>2. applied' \in [Answers -> Nat]
    <2>1. \A a \in Answers :
             applied[a] + Cardinality({k \in 1..Len(b) : b[k] = a}) \in Nat
      <3> TAKE a \in Answers
      <3>1. applied[a] \in Nat
        BY DEF TablesTypeOK
      <3> DEFINE n == Cardinality({k \in 1..Len(b) : b[k] = a})
      <3>2. n \in Nat
        BY CountType
      <3> HIDE DEF n
      <3>3. applied[a] + n \in Nat
        BY <3>1, <3>2
      <3> QED
        BY <3>3 DEF n
    <2> QED
      BY <2>1 DEF CloseWith
  <1>3. \A k \in 1..Len(b) : b[k] \in Answers /\ ItemOf[b[k]] \in Items
    BY ElementOfSeq, BufferAssumption
  <1>4. progress' \in SUBSET Items
    BY <1>3 DEF CloseWith, TablesTypeOK
  <1>5. reviews' \in SUBSET Answers
    BY <1>3 DEF CloseWith, NewReviews, TablesTypeOK
  <1> QED
    BY <1>1, <1>2, <1>4, <1>5 DEF CloseWith, TablesTypeOK

\* finalise_batch.
LEMMA FinaliseType ==
    ASSUME TablesTypeOK, NEW s \in SessionState, NEW b \in Seq(Answers),
           NEW st \in Closed, FinaliseBatch(s, b, st)
    PROVE  TablesTypeOK'
  <1>1. CASE CloseEmpty(st)
    <2>1. row' \in Row
      BY <1>1 DEF CloseEmpty, TablesTypeOK, Row
    <2> QED
      BY <1>1, <2>1 DEF CloseEmpty, TablesTypeOK
  <1>2. CASE CloseWith(Truncated(s, b), st)
    BY <1>2, TruncatedType, CloseWithType
  <1> QED
    BY <1>1, <1>2 DEF FinaliseBatch

LEMMA SavePendingType ==
    ASSUME TablesTypeOK, NEW s \in SessionState, NEW b \in Seq(Answers),
           SavePending(s, b)
    PROVE  TablesTypeOK'
  <1>1. (pending # None /\ pending.recovered) \in BOOLEAN
    OBVIOUS
  <1>2. pending' \in Pending
    BY <1>1 DEF SavePending, Pending
  <1> QED
    BY <1>2 DEF SavePending, TablesTypeOK

LEMMA MarkRecoveredType ==
    ASSUME TablesTypeOK, MarkRecovered
    PROVE  TablesTypeOK'
  <1>1. pending' \in Pending \cup {None}
    BY DEF MarkRecovered, TablesTypeOK, Pending
  <1> QED
    BY <1>1 DEF MarkRecovered, TablesTypeOK

LEMMA DeleteSetType ==
    ASSUME TablesTypeOK, DeleteSetTables
    PROVE  TablesTypeOK'
  <1>1. row' \in Row
    BY DEF DeleteSetTables, TablesTypeOK, Row, Closed
  <1> QED
    BY <1>1 DEF DeleteSetTables, TablesTypeOK

-----------------------------------------------------------------------------

Pcs == SubmitPc \cup ReconPc \cup FlushPc

(***************************************************************************)
(* Mutual exclusion of the flushers.  OneFlusher is not inductive: that    *)
(* nobody else is in the critical section when a flusher takes the lock    *)
(* follows from the lock key existing whenever somebody is inside.         *)
(***************************************************************************)
LockInv ==
    /\ pc \in [Procs -> Pcs]
    /\ \A p \in Procs : InCritical(p) => flushLock
    /\ OneFlusher

\* No TTL runs out under a holder and Redis does not lose the key.
LockIsKept == Events \cap {"lockExpiry", "loseEverything"} = {}

LEMMA LockInvInit == Init => LockInv
  BY DEF Init, LockInv, OneFlusher, InCritical, CriticalPc, ReconPc, Pcs, SubmitPc

\* A step that moves p, keeps the lock and does not carry p into the
\* critical section.
LEMMA Moves ==
    ASSUME LockInv, NEW p \in Procs, NEW to \in Pcs,
           pc' = [pc EXCEPT ![p] = to], flushLock' = flushLock,
           p \in Flushers \cup Sweepers /\ to \in CriticalPc => InCritical(p)
    PROVE  LockInv'
  <1>1. pc' \in [Procs -> Pcs]
    BY DEF LockInv
  <1>2. \A q \in Procs : InCritical(q)' => InCritical(q)
    BY DEF LockInv, InCritical
  <1> QED
    BY <1>1, <1>2 DEF LockInv, OneFlusher

\* Entering: the key was absent, so nobody is inside.
LEMMA Enters ==
    ASSUME LockInv, NEW p \in Procs, NEW to \in Pcs,
           pc' = [pc EXCEPT ![p] = to], ~flushLock, flushLock' = TRUE
    PROVE  LockInv'
  <1>1. pc' \in [Procs -> Pcs]
    BY DEF LockInv
  <1>2. \A q \in Procs : InCritical(q)' => q = p
    BY DEF LockInv, InCritical
  <1> QED
    BY <1>1, <1>2 DEF LockInv, OneFlusher

\* Leaving: the key goes, and the only process inside goes with it.
LEMMA Leaves ==
    ASSUME LockInv, NEW p \in Procs, NEW to \in Pcs \ CriticalPc,
           pc' = [pc EXCEPT ![p] = to], InCritical(p)
    PROVE  LockInv'
  <1>1. pc' \in [Procs -> Pcs]
    BY DEF LockInv
  <1>2. \A q \in Procs : ~InCritical(q)'
    BY DEF LockInv, InCritical, OneFlusher
  <1> QED
    BY <1>1, <1>2 DEF LockInv, OneFlusher

LEMMA Keeps ==
    ASSUME LockInv, pc' = pc, flushLock' = flushLock
    PROVE  LockInv'
  BY DEF LockInv, OneFlusher, InCritical

\* Requests that submit answers or look at the session take no lock.
LEMMA SubmitterKeepsLock ==
    ASSUME LockInv, NEW p \in Submitters,
           SubmitRequest(p) \/ SubmitStep(p) \/ Reconstruct(p)
    PROVE  LockInv'
  <1> USE DEF Pcs, SubmitPc, ReconPc, FlushPc
  <1>1. p \in Procs /\ p \notin Flushers \cup Sweepers
    BY ProcessAssumption DEF Procs
  <1>2. flushLock' = flushLock
    BY DEF SubmitRequest, SubmitLoad, ViewActive, ResumeOnStart, RefreshConfig,
           SubmitStep, SubmitAppend, SubmitReload, AppendAccepted, Reconstruct,
           ReconstructRead, ReconstructSave, ReconstructActivate, SaveSession,
           SetActive, bufferVars
  <1>3. pc' = pc \/ \E to \in Pcs : pc' = [pc EXCEPT ![p] = to]
    BY DEF SubmitRequest, SubmitLoad, ViewActive, ResumeOnStart, RefreshConfig,
           SubmitStep, SubmitAppend, SubmitReload, Reconstruct,
           ReconstructRead, ReconstructSave, ReconstructActivate,
           Goto, Return, Step
  <1> QED
    BY <1>1, <1>2, <1>3, Moves, Keeps

\* Reconstruction inside a flush goes on inside, or out through "unlock".
LEMMA ReconstructKeepsLock ==
    ASSUME LockInv, NEW p \in Flushers, Reconstruct(p)
    PROVE  LockInv'
  <1> USE DEF Pcs, SubmitPc, ReconPc, FlushPc
  <1>1. p \in Procs
    BY DEF Procs
  <1>2. flushLock' = flushLock
    BY DEF Reconstruct, ReconstructRead, ReconstructSave, ReconstructActivate,
           SaveSession, SetActive, bufferVars
  <1>3. \E to \in Pcs : pc' = [pc EXCEPT ![p] = to]
    BY DEF Reconstruct, ReconstructRead, ReconstructSave, ReconstructActivate,
           Goto, Return, Step
  <1>4. InCritical(p)
    BY DEF Reconstruct, ReconstructRead, ReconstructSave, ReconstructActivate,
           Step, InCritical, CriticalPc
  <1> QED
    BY <1>1, <1>2, <1>3, <1>4, Moves

\* The lock is taken only when it is free; the loser goes away.
LEMMA TakeLockSafe ==
    ASSUME LockInv, NEW p \in Procs, NEW next \in Pcs, TakeLock(p, next)
    PROVE  LockInv'
  <1>1. CASE AcquireFlushLock /\ Goto(p, next)
    BY <1>1, Enters DEF AcquireFlushLock, Goto
  <1>2. CASE Return(p) /\ UNCHANGED bufferVars
    <2>1. pc' = [pc EXCEPT ![p] = "idle"] /\ flushLock' = flushLock
      BY <1>2 DEF Return, Goto, bufferVars
    <2>2. "idle" \in Pcs /\ "idle" \notin CriticalPc
      BY DEF Pcs, SubmitPc, CriticalPc, ReconPc
    <2> QED
      BY <2>1, <2>2, Moves
  <1> QED
    BY <1>1, <1>2 DEF TakeLock

\* Steps inside the critical section that do not touch the lock.
LEMMA InsideKeepsLock ==
    ASSUME LockInv, NEW p \in Flushers \cup Sweepers,
           \/ FlushLoad(p) \/ FlushReadRaw(p) \/ Commit(p) \/ FlushDelete(p)
           \/ SweepRow(p) \/ SweepLoad(p) \/ SweepReadRaw(p)
           \/ SweepCheckpoint(p) \/ SweepRecover(p) \/ SweepDelete(p)
           \/ SweepClear(p) \/ SweepMark(p)
    PROVE  LockInv'
  <1> USE DEF Pcs, SubmitPc, ReconPc, FlushPc
  <1>1. p \in Procs
    BY DEF Procs
  <1>2. flushLock' = flushLock
    BY DEF FlushLoad, FlushReadRaw, Commit, FlushDelete, SweepRow, SweepLoad,
           SweepReadRaw, SweepCheckpoint, SweepRecover, SweepDelete, SweepClear,
           SweepMark, DropBuffer, DeleteSession, ClearActive, bufferVars
  <1>3. \E to \in Pcs : pc' = [pc EXCEPT ![p] = to]
    BY DEF FlushLoad, FlushReadRaw, Commit, FlushDelete, SweepRow, SweepLoad,
           SweepReadRaw, SweepCheckpoint, SweepRecover, SweepDelete, SweepClear,
           SweepMark, DropBuffer, Goto, Step
  <1>4. InCritical(p)
    BY DEF FlushLoad, FlushReadRaw, Commit, FlushDelete, SweepRow, SweepLoad,
           SweepReadRaw, SweepCheckpoint, SweepRecover, SweepDelete, SweepClear,
           SweepMark, DropBuffer, Step, InCritical, CriticalPc
  <1> QED
    BY <1>1, <1>2, <1>3, <1>4, Moves

\* Steps outside it: the idempotent answer to a finalise call, the pick of a
\* sweep, and the clear_active that follows the release.
LEMMA OutsideKeepsLock ==
    ASSUME LockInv, NEW p \in Flushers \cup Sweepers,
           (\E st \in Closed : FlushRequest(p, st)) \/ FlushClear(p) \/ SweepSelect(p)
    PROVE  LockInv'
  <1>1. p \in Procs
    BY DEF Procs
  <1>2. flushLock' = flushLock
    BY DEF FlushRequest, FlushClear, SweepSelect, ClearActive, bufferVars
  <1>3. \E to \in {"clear", "lock", "idle"} : pc' = [pc EXCEPT ![p] = to]
    BY DEF FlushRequest, FlushClear, SweepSelect, Goto, Return, Step
  <1>4. {"clear", "lock", "idle"} \subseteq Pcs \ CriticalPc
    BY DEF Pcs, SubmitPc, FlushPc, CriticalPc, ReconPc
  <1> QED
    BY <1>1, <1>2, <1>3, <1>4, Moves

LEMMA ReleaseSafe ==
    ASSUME LockInv, NEW p \in Flushers \cup Sweepers, FlushRelease(p) \/ Unlock(p)
    PROVE  LockInv'
  <1>1. p \in Procs
    BY DEF Procs
  <1>2. InCritical(p)
    BY DEF FlushRelease, Unlock, Step, InCritical, CriticalPc
  <1>3. \E to \in {"clear", "idle"} : pc' = [pc EXCEPT ![p] = to]
    BY DEF FlushRelease, Unlock, Goto, Return, Step
  <1>4. {"clear", "idle"} \subseteq Pcs \ CriticalPc
    BY DEF Pcs, SubmitPc, FlushPc, CriticalPc, ReconPc
  <1> QED
    BY <1>1, <1>2, <1>3, <1>4, Leaves

\* Faults: a crash empties the critical section, and the only expiry left is
\* that of a lock nobody holds.
LEMMA FaultsSafe ==
    ASSUME LockInv, LockIsKept, Crash \/ LockExpires \/ RedisLoses \/ DeleteSet
    PROVE  LockInv'
  <1>1. CASE Crash
    <2>1. pc' = [p \in Procs |-> "idle"]
      BY <1>1 DEF Crash
    <2>2. pc' \in [Procs -> Pcs]
      BY <2>1 DEF Pcs, SubmitPc
    <2>3. \A p \in Procs : ~InCritical(p)'
      BY <2>1 DEF InCritical, CriticalPc, ReconPc
    <2> QED
      BY <2>2, <2>3 DEF LockInv, OneFlusher
  <1>2. CASE LockExpires
    <2>1. pc' = pc /\ ~\E p \in Procs : InCritical(p)
      BY <1>2 DEF LockExpires, Fault, LockIsKept
    <2> QED
      BY <2>1 DEF LockInv, OneFlusher, InCritical
  <1>3. CASE RedisLoses
    <2>1. pc' = pc /\ flushLock' = flushLock
      BY <1>3 DEF RedisLoses, Fault, LockIsKept, EvictOne
    <2> QED
      BY <2>1, Keeps
  <1>4. CASE DeleteSet
    <2>1. pc' = pc /\ flushLock' = flushLock
      BY <1>4 DEF DeleteSet, procVars, bufferVars
    <2> QED
      BY <2>1, Keeps
  <1> QED
    BY <1>1, <1>2, <1>3, <1>4

LEMMA LockInvStep ==
    ASSUME LockInv, LockIsKept, [Next]_vars
    PROVE  LockInv'
  <1>1. CASE UNCHANGED vars
    BY <1>1, Keeps DEF vars, procVars, bufferVars
  <1>2. ASSUME NEW p \in Submitters,
               SubmitRequest(p) \/ SubmitStep(p) \/ Reconstruct(p)
        PROVE  LockInv'
    BY <1>2, SubmitterKeepsLock
  <1>3. ASSUME NEW p \in Flushers,
               (\E st \in Closed : FlushRequest(p, st)) \/ FlushStep(p) \/ Reconstruct(p)
        PROVE  LockInv'
    <2>1. p \in Procs /\ "load" \in Pcs
      BY DEF Procs, Pcs, FlushPc
    <2>2. CASE FlushLock(p)
      BY <2>1, <2>2, TakeLockSafe DEF FlushLock
    <2>3. CASE FlushLoad(p) \/ FlushReadRaw(p) \/ Commit(p) \/ FlushDelete(p)
      BY <2>3, InsideKeepsLock
    <2>4. CASE (\E st \in Closed : FlushRequest(p, st)) \/ FlushClear(p)
      BY <2>4, OutsideKeepsLock
    <2>5. CASE FlushRelease(p) \/ Unlock(p)
      BY <2>5, ReleaseSafe
    <2>6. CASE Reconstruct(p)
      BY <2>6, ReconstructKeepsLock
    <2> QED
      BY <1>3, <2>2, <2>3, <2>4, <2>5, <2>6 DEF FlushStep
  <1>4. ASSUME NEW p \in Sweepers, SweepSelect(p) \/ SweepLock(p) \/ SweepStep(p)
        PROVE  LockInv'
    <2>1. p \in Procs /\ "row" \in Pcs
      BY DEF Procs, Pcs, FlushPc
    <2>2. CASE SweepLock(p)
      BY <2>1, <2>2, TakeLockSafe DEF SweepLock
    <2>3. CASE SweepSelect(p)
      BY <2>3, OutsideKeepsLock
    <2>4. CASE Unlock(p)
      BY <2>4, ReleaseSafe
    <2>5. CASE \/ SweepRow(p) \/ SweepLoad(p) \/ SweepReadRaw(p)
               \/ SweepCheckpoint(p) \/ SweepRecover(p) \/ Commit(p)
               \/ SweepDelete(p) \/ SweepClear(p) \/ SweepMark(p)
      BY <2>5, InsideKeepsLock
    <2> QED
      BY <1>4, <2>2, <2>3, <2>4, <2>5 DEF SweepStep
  <1>5. CASE Crash \/ LockExpires \/ RedisLoses \/ DeleteSet
    BY <1>5, FaultsSafe
  <1> QED
    BY <1>1, <1>2, <1>3, <1>4, <1>5 DEF Next

\* As long as a holder is done within the lock's 120 seconds and Redis does
\* not lose it, at most one of the finalise calls, abandon calls and sweeps
\* works on the session, whatever else happens (_flush_session, _flush_one).
THEOREM FlushIsExclusive ==
    ASSUME LockIsKept
    PROVE  Spec => []OneFlusher
  <1>1. Init => LockInv
    BY LockInvInit
  <1>2. LockInv /\ [Next]_vars => LockInv'
    BY LockInvStep
  <1>3. LockInv => OneFlusher
    BY DEF LockInv
  <1> QED
    BY <1>1, <1>2, <1>3, PTL DEF Spec

-----------------------------------------------------------------------------
(***************************************************************************)
(* Types.  A copy of the session state may be None (the sweeper found the  *)
(* key gone), and a process may carry no answer; what the handlers do with *)
(* them is typed because of where each process is.                         *)
(***************************************************************************)
LocalOK ==
    \A p \in Procs :
        /\ pc[p] \in {"append", "reload"} \/ resume[p] \in {"check", "ack"}
             => ans[p] \in Answers
        /\ pc[p] \in {"reconSave", "reconActive", "checkpoint", "commit"}
             => mem[p] \in SessionState
        /\ pc[p] = "raw" /\ p \in Flushers => mem[p] \in SessionState

TypeInv == TypeOK /\ LocalOK

LEMMA TypeInvInit == Init => TypeInv
  <1> SUFFICES ASSUME Init PROVE TypeInv
    OBVIOUS
  <1>1. BufferTypeOK
    <2>1. PICK b \in Batches \ {<<>>} : sess = [order |-> b, idx |-> 0]
      BY DEF Init
    <2>2. sess \in SessionState
      BY <2>1, BatchesAssumption DEF SessionState
    <2>3. raw \in Seq(Answers) /\ seen \in SUBSET Answers
      BY EmptySeq DEF Init
    <2>4. active \in BOOLEAN /\ flushLock \in BOOLEAN
      BY Zenon DEF Init
    <2> QED
      BY <2>2, <2>3, <2>4 DEF BufferTypeOK
  <1>2. TablesTypeOK
    <2>1. PICK b \in Batches : progress = ToSet(b)
      BY DEF Init
    <2>2. progress \in SUBSET Items
      BY <2>1, BatchesAssumption, ElementOfSeq, LenProperties DEF ToSet
    <2>3. row \in Row
      BY DEF Init, Row
    <2>4. setLive \in BOOLEAN
      BY Zenon DEF Init
    <2> QED
      BY <2>2, <2>3, <2>4 DEF Init, TablesTypeOK
  <1>3. ProcTypeOK
    <2>1. <<>> \in Seq(Answers)
      BY EmptySeq
    <2> QED
      BY <2>1 DEF Init, ProcTypeOK, SubmitPc, Closed
  <1>4. LocalOK
    BY DEF Init, LocalOK
  <1> QED
    BY <1>1, <1>2, <1>3, <1>4 DEF TypeInv, TypeOK

\* The end of a request.
LEMMA ReturnType ==
    ASSUME TypeInv, NEW p \in Procs, Return(p),
           client' \in [Answers -> {"new", "sent", "acked"}], faults' \in Nat
    PROVE  ProcTypeOK' /\ LocalOK'
  <1>1. <<>> \in Seq(Answers)
    BY EmptySeq
  <1>2. ProcTypeOK'
    BY <1>1 DEF TypeInv, TypeOK, ProcTypeOK, Return, Goto, SubmitPc, Closed
  <1>3. LocalOK'
    BY DEF TypeInv, TypeOK, ProcTypeOK, LocalOK, Return, Goto
  <1> QED
    BY <1>2, <1>3

\* A step of p that leaves its copies alone.
LEMMA StepType ==
    ASSUME TypeInv, NEW p \in Procs, NEW to \in Pcs,
           Goto(p, to), UNCHANGED <<resume, ans, mem, batch, target, client>>,
           faults' \in Nat,
           to \in {"append", "reload"} => ans[p] \in Answers,
           to \in {"reconSave", "reconActive", "checkpoint", "commit"}
             => mem[p] \in SessionState,
           to = "raw" /\ p \in Flushers => mem[p] \in SessionState
    PROVE  ProcTypeOK' /\ LocalOK'
  <1>1. ProcTypeOK'
    BY DEF TypeInv, TypeOK, ProcTypeOK, Goto, Pcs
  <1>2. LocalOK'
    BY DEF TypeInv, TypeOK, ProcTypeOK, LocalOK, Goto
  <1> QED
    BY <1>1, <1>2

LEMMA SubmitType ==
    ASSUME TypeInv, NEW p \in Submitters, SubmitRequest(p) \/ SubmitStep(p)
    PROVE  TypeInv'
  <1>0. p \in Procs
    BY DEF Procs
  <1>1. ASSUME NEW a \in Answers, SubmitLoad(p, a)
        PROVE  TypeInv'
    <2>1. BufferTypeOK' /\ TablesTypeOK'
      BY <1>1 DEF TypeInv, TypeOK, SubmitLoad, BufferTypeOK, TablesTypeOK,
                  bufferVars, tableVars
    <2>a. /\ pc' \in [Procs -> SubmitPc \cup ReconPc \cup FlushPc]
          /\ resume' \in [Procs -> {"idle", "check", "ack", "raw"}]
          /\ ans' \in [Procs -> Answers \cup {None}]
      <3>1. /\ pc \in [Procs -> SubmitPc \cup ReconPc \cup FlushPc]
            /\ resume \in [Procs -> {"idle", "check", "ack", "raw"}]
            /\ ans \in [Procs -> Answers \cup {None}]
        BY DEF TypeInv, TypeOK, ProcTypeOK
      <3>2. /\ pc' \in {pc, [pc EXCEPT ![p] = "append"], [pc EXCEPT ![p] = "reconRead"]}
            /\ resume' \in {resume, [resume EXCEPT ![p] = "check"]}
            /\ ans' \in {ans, [ans EXCEPT ![p] = a]}
        BY <1>1 DEF SubmitLoad, Goto
      <3>3. {"append", "reconRead"} \subseteq SubmitPc \cup ReconPc
        BY DEF SubmitPc, ReconPc
      <3> QED
        BY <3>1, <3>2, <3>3
    <2>b. client' \in [Answers -> {"new", "sent", "acked"}]
      BY <1>1 DEF TypeInv, TypeOK, ProcTypeOK, SubmitLoad
    <2>2. ProcTypeOK'
      BY <1>1, <2>a, <2>b DEF TypeInv, TypeOK, ProcTypeOK, SubmitLoad
    <2>3. LocalOK'
      BY <1>0, <1>1 DEF TypeInv, TypeOK, ProcTypeOK, LocalOK, SubmitLoad, Goto
    <2> QED
      BY <2>1, <2>2, <2>3 DEF TypeInv, TypeOK
  <1>2. CASE ViewActive(p) \/ ResumeOnStart(p) \/ RefreshConfig(p)
    <2>1. BufferTypeOK' /\ TablesTypeOK'
      BY <1>2 DEF TypeInv, TypeOK, ViewActive, ResumeOnStart, RefreshConfig,
                  BufferTypeOK, TablesTypeOK, bufferVars, tableVars
    <2>2. "reconRead" \in Pcs /\ faults \in Nat
      BY DEF Pcs, ReconPc, TypeInv, TypeOK, ProcTypeOK
    <2>3. ProcTypeOK' /\ LocalOK'
      BY <1>0, <1>2, <2>2, StepType DEF ViewActive, ResumeOnStart, RefreshConfig
    <2> QED
      BY <2>1, <2>3 DEF TypeInv, TypeOK
  <1>3. CASE SubmitAppend(p)
    <2>1. ans[p] \in Answers
      BY <1>0, <1>3 DEF TypeInv, LocalOK, SubmitAppend
    <2>2. TablesTypeOK'
      BY <1>3 DEF TypeInv, TypeOK, SubmitAppend, TablesTypeOK, tableVars
    <2>3. BufferTypeOK'
      <3>1. CASE AppendAccepted(ans[p])
        BY <2>1, <3>1, AppendType DEF TypeInv, TypeOK
      <3>2. CASE UNCHANGED bufferVars
        BY <3>2 DEF TypeInv, TypeOK, BufferTypeOK, bufferVars
      <3> QED
        BY <1>3, <3>1, <3>2 DEF SubmitAppend
    <2>4. client' \in [Answers -> {"new", "sent", "acked"}] /\ faults' \in Nat
      BY <1>3 DEF TypeInv, TypeOK, ProcTypeOK, SubmitAppend, Acknowledge
    <2>5. ProcTypeOK' /\ LocalOK'
      <3>1. CASE Return(p)
        BY <1>0, <2>4, <3>1, ReturnType
      <3>2. CASE Goto(p, "reload") /\ UNCHANGED <<resume, ans, mem, batch, target, client>>
        <4>1. "reload" \in Pcs
          BY DEF Pcs, SubmitPc
        <4> QED
          BY <1>0, <2>1, <2>4, <3>2, <4>1, StepType
      <3>3. CASE /\ Goto(p, "reconRead")
                 /\ resume' = [resume EXCEPT ![p] = "ack"]
                 /\ UNCHANGED <<ans, mem, batch, target, client>>
        <4>1. ProcTypeOK'
          BY <2>4, <3>3 DEF TypeInv, TypeOK, ProcTypeOK, Goto, ReconPc
        <4>2. LocalOK'
          BY <2>1, <3>3 DEF TypeInv, TypeOK, ProcTypeOK, LocalOK, Goto
        <4> QED
          BY <4>1, <4>2
      <3> QED
        BY <1>3, <3>1, <3>2, <3>3 DEF SubmitAppend
    <2> QED
      BY <2>2, <2>3, <2>5 DEF TypeInv, TypeOK
  <1>4. CASE SubmitReload(p)
    <2>1. ans[p] \in Answers
      BY <1>0, <1>4 DEF TypeInv, LocalOK, SubmitReload
    <2>2. BufferTypeOK' /\ TablesTypeOK'
      BY <1>4 DEF TypeInv, TypeOK, SubmitReload, BufferTypeOK, TablesTypeOK,
                  bufferVars, tableVars
    <2>3. client' \in [Answers -> {"new", "sent", "acked"}] /\ faults' \in Nat
      BY <1>4 DEF TypeInv, TypeOK, ProcTypeOK, SubmitReload, Acknowledge
    <2>4. ProcTypeOK' /\ LocalOK'
      <3>1. CASE Return(p)
        BY <1>0, <2>3, <3>1, ReturnType
      <3>2. CASE /\ Goto(p, "reconRead")
                 /\ resume' = [resume EXCEPT ![p] = "ack"]
                 /\ UNCHANGED <<ans, mem, batch, target, client>>
        <4>1. ProcTypeOK'
          BY <2>3, <3>2 DEF TypeInv, TypeOK, ProcTypeOK, Goto, ReconPc
        <4>2. LocalOK'
          BY <2>1, <3>2 DEF TypeInv, TypeOK, ProcTypeOK, LocalOK, Goto
        <4> QED
          BY <4>1, <4>2
      <3> QED
        BY <1>4, <3>1, <3>2 DEF SubmitReload
    <2> QED
      BY <2>2, <2>4 DEF TypeInv, TypeOK
  <1> QED
    BY <1>1, <1>2, <1>3, <1>4 DEF SubmitRequest, SubmitStep

\* Where a process is about to use its copy of the state, it has one.
LEMMA MemIsState ==
    ASSUME TypeInv, NEW p \in Procs,
           pc[p] \in {"reconSave", "reconActive", "checkpoint", "commit"}
    PROVE  mem[p] \in SessionState
  BY DEF TypeInv, LocalOK

\* _reconstruct_state.
LEMMA ReconstructType ==
    ASSUME TypeInv, NEW p \in Submitters \cup Flushers, Reconstruct(p)
    PROVE  TypeInv'
  <1>0. p \in Procs
    BY DEF Procs
  <1>1. CASE ReconstructRead(p)
    <2>1. BufferTypeOK' /\ TablesTypeOK'
      BY <1>1 DEF TypeInv, TypeOK, ReconstructRead, BufferTypeOK, TablesTypeOK,
                  bufferVars, tableVars
    <2>2. client' \in [Answers -> {"new", "sent", "acked"}] /\ faults' \in Nat
      BY <1>1 DEF TypeInv, TypeOK, ProcTypeOK, ReconstructRead
    <2>3. CASE Return(p)
      BY <1>0, <2>1, <2>2, <2>3, ReturnType DEF TypeInv, TypeOK
    <2>4. CASE Goto(p, "unlock") /\ UNCHANGED <<resume, ans, mem, batch, target>>
      <3>1. "unlock" \in Pcs /\ client' = client
        BY <1>1 DEF Pcs, FlushPc, ReconstructRead
      <3> QED
        BY <1>0, <2>1, <2>2, <2>4, <3>1, StepType DEF TypeInv, TypeOK
    <2>5. CASE /\ \E rest \in SelectItems(ToSet(AnsweredIds)) :
                     mem' = [mem EXCEPT ![p] = [order |-> AnsweredIds \o rest,
                                                idx |-> Len(AnsweredIds)]]
               /\ Goto(p, "reconSave")
               /\ UNCHANGED <<resume, ans, batch, target>>
      <3>1. PICK rest \in SelectItems(ToSet(AnsweredIds)) :
               mem' = [mem EXCEPT ![p] = [order |-> AnsweredIds \o rest,
                                          idx |-> Len(AnsweredIds)]]
        BY <2>5
      <3>2. rest \in Seq(Items)
        BY BatchesAssumption, EmptySeq DEF SelectItems
      <3>3. AnsweredIds \in Seq(Items)
        BY AnsweredType DEF TypeInv, TypeOK
      <3> DEFINE s == [order |-> AnsweredIds \o rest, idx |-> Len(AnsweredIds)]
      <3>4. s \in SessionState
        BY <3>2, <3>3, ConcatProperties, LenProperties DEF SessionState
      <3> HIDE DEF s
      <3>5. ProcTypeOK'
        BY <2>2, <2>5, <3>1, <3>4 DEF TypeInv, TypeOK, ProcTypeOK, Goto, ReconPc, s
      <3>6. LocalOK'
        BY <1>0, <2>5, <3>1, <3>4 DEF TypeInv, TypeOK, ProcTypeOK, LocalOK, Goto, s
      <3> QED
        BY <2>1, <3>5, <3>6 DEF TypeInv, TypeOK
    <2> QED
      BY <1>1, <2>3, <2>4, <2>5 DEF ReconstructRead
  <1>2. CASE ReconstructSave(p)
    <2>1. mem[p] \in SessionState
      <3>1. pc[p] = "reconSave"
        BY <1>2 DEF ReconstructSave, Step
      <3> QED
        BY <1>0, <3>1, MemIsState
    <2>2. BufferTypeOK' /\ TablesTypeOK'
      BY <1>2, <2>1 DEF TypeInv, TypeOK, ReconstructSave, SaveSession,
                        BufferTypeOK, TablesTypeOK, tableVars
    <2>3. "reconActive" \in Pcs /\ faults' \in Nat
      BY <1>2 DEF Pcs, ReconPc, ReconstructSave, Step, TypeInv, TypeOK, ProcTypeOK
    <2>4. ProcTypeOK' /\ LocalOK'
      BY <1>0, <1>2, <2>1, <2>3, StepType DEF ReconstructSave, Step
    <2> QED
      BY <2>2, <2>4 DEF TypeInv, TypeOK
  <1>3. CASE ReconstructActivate(p)
    <2>1. mem[p] \in SessionState
      <3>1. pc[p] = "reconActive"
        BY <1>3 DEF ReconstructActivate
      <3> QED
        BY <1>0, <3>1, MemIsState
    <2>2. BufferTypeOK' /\ TablesTypeOK'
      BY <1>3 DEF TypeInv, TypeOK, ReconstructActivate, SetActive,
                  BufferTypeOK, TablesTypeOK, tableVars
    <2>3. client' \in [Answers -> {"new", "sent", "acked"}] /\ faults' \in Nat
      BY <1>3 DEF TypeInv, TypeOK, ProcTypeOK, ReconstructActivate, Acknowledge
    <2>4. CASE Return(p)
      BY <1>0, <2>2, <2>3, <2>4, ReturnType DEF TypeInv, TypeOK
    <2>5. CASE /\ resume[p] = "check"
               /\ Goto(p, "append")
               /\ mem' = [mem EXCEPT ![p] = None]
               /\ resume' = [resume EXCEPT ![p] = "idle"]
               /\ UNCHANGED <<ans, batch, target, client>>
      <3>1. ProcTypeOK'
        BY <2>3, <2>5 DEF TypeInv, TypeOK, ProcTypeOK, Goto, SubmitPc
      <3>2. LocalOK'
        BY <1>0, <2>5 DEF TypeInv, TypeOK, ProcTypeOK, LocalOK, Goto
      <3> QED
        BY <2>2, <3>1, <3>2 DEF TypeInv, TypeOK
    <2>6. CASE /\ Goto(p, "raw")
               /\ resume' = [resume EXCEPT ![p] = "idle"]
               /\ UNCHANGED <<ans, mem, batch, target, client>>
      <3>1. ProcTypeOK'
        BY <2>3, <2>6 DEF TypeInv, TypeOK, ProcTypeOK, Goto, FlushPc
      <3>2. LocalOK'
        BY <1>0, <2>1, <2>6 DEF TypeInv, TypeOK, ProcTypeOK, LocalOK, Goto
      <3> QED
        BY <2>2, <3>1, <3>2 DEF TypeInv, TypeOK
    <2> QED
      BY <1>3, <2>4, <2>5, <2>6 DEF ReconstructActivate
  <1> QED
    BY <1>1, <1>2, <1>3 DEF Reconstruct

-----------------------------------------------------------------------------
\* A step of p changes what p holds, and what it holds fits where it goes.
LEMMA LocalChange ==
    ASSUME TypeInv, NEW p \in Procs, NEW to,
           pc' = [pc EXCEPT ![p] = to], ans' = ans,
           \A q \in Procs \ {p} : resume'[q] = resume[q] /\ mem'[q] = mem[q],
           to \in {"append", "reload"} \/ resume'[p] \in {"check", "ack"}
             => ans[p] \in Answers,
           to \in {"reconSave", "reconActive", "checkpoint", "commit"}
             => mem'[p] \in SessionState,
           to = "raw" /\ p \in Flushers => mem'[p] \in SessionState
    PROVE  LocalOK'
  BY DEF TypeInv, TypeOK, ProcTypeOK, LocalOK

\* The flush lock, taken by a finaliser and by a sweeper.
LEMMA TakeLockType ==
    ASSUME TypeInv, NEW p \in Procs, NEW next \in {"load", "row"}, TakeLock(p, next)
    PROVE  TypeInv'
  <1>1. BufferTypeOK' /\ TablesTypeOK'
    BY DEF TypeInv, TypeOK, TakeLock, AcquireFlushLock, BufferTypeOK, TablesTypeOK,
           bufferVars, tableVars
  <1>2. client' \in [Answers -> {"new", "sent", "acked"}] /\ faults' \in Nat
    BY DEF TypeInv, TypeOK, ProcTypeOK, TakeLock
  <1>3. ProcTypeOK' /\ LocalOK'
    <2>1. CASE Return(p)
      BY <1>2, <2>1, ReturnType
    <2>2. CASE Goto(p, next) /\ UNCHANGED <<resume, ans, mem, batch, target>>
      <3>1. next \in Pcs /\ client' = client
        BY DEF Pcs, FlushPc, TakeLock
      <3> QED
        BY <1>2, <2>2, <3>1, StepType
    <2> QED
      BY <2>1, <2>2 DEF TakeLock
  <1> QED
    BY <1>1, <1>3 DEF TypeInv, TypeOK

\* The transaction of finalise_batch.
LEMMA CommitType ==
    ASSUME TypeInv, NEW p \in Procs, Commit(p)
    PROVE  TypeInv'
  <1>1. BufferTypeOK'
    BY DEF TypeInv, TypeOK, Commit, BufferTypeOK, bufferVars
  <1>2. TablesTypeOK'
    <2>1. pc[p] = "commit"
      BY DEF Commit
    <2>2. mem[p] \in SessionState
      BY <2>1, MemIsState
    <2>3. batch[p] \in Seq(Answers) /\ target[p] \in Closed
      BY DEF TypeInv, TypeOK, ProcTypeOK
    <2>4. CASE FinaliseBatch(mem[p], batch[p], target[p])
      BY <2>2, <2>3, <2>4, FinaliseType DEF TypeInv, TypeOK
    <2>5. CASE UNCHANGED tableVars
      BY <2>5 DEF TypeInv, TypeOK, TablesTypeOK, tableVars
    <2> QED
      BY <2>4, <2>5 DEF Commit
  <1>3. ProcTypeOK' /\ LocalOK'
    <2>1. faults' \in Nat
      BY DEF Commit, TypeInv, TypeOK, ProcTypeOK
    <2>2. PICK to \in {"delete", "unlock"} : Goto(p, to)
      BY DEF Commit
    <2>3. to \in Pcs
      BY DEF Pcs, FlushPc
    <2>4. UNCHANGED <<resume, ans, mem, batch, target, client>>
      BY DEF Commit
    <2> QED
      BY <2>1, <2>2, <2>3, <2>4, StepType
  <1> QED
    BY <1>1, <1>2, <1>3 DEF TypeInv, TypeOK

\* delete_session.
LEMMA DropBufferType ==
    ASSUME TypeInv, NEW p \in Procs, NEW next \in {"release", "sweepClear"},
           DropBuffer(p, next)
    PROVE  TypeInv'
  <1>1. BufferTypeOK' /\ TablesTypeOK'
    BY EmptySeq DEF TypeInv, TypeOK, DropBuffer, DeleteSession, BufferTypeOK,
           TablesTypeOK, bufferVars, tableVars
  <1>2. faults' \in Nat
    BY DEF DropBuffer, TypeInv, TypeOK, ProcTypeOK
  <1>3. PICK to \in {next, "unlock"} : Goto(p, to)
    BY DEF DropBuffer
  <1>4. to \in Pcs
    BY DEF Pcs, FlushPc
  <1>5. UNCHANGED <<resume, ans, mem, batch, target, client>>
    BY DEF DropBuffer
  <1>6. ProcTypeOK' /\ LocalOK'
    BY <1>2, <1>3, <1>4, <1>5, StepType
  <1> QED
    BY <1>1, <1>6 DEF TypeInv, TypeOK

\* Releases and clear_active, alone or at the end of a request.
LEMMA EndType ==
    ASSUME TypeInv, NEW p \in Procs,
           FlushRelease(p) \/ FlushClear(p) \/ Unlock(p) \/ SweepClear(p)
    PROVE  TypeInv'
  <1>1. BufferTypeOK' /\ TablesTypeOK'
    BY DEF TypeInv, TypeOK, FlushRelease, FlushClear, Unlock, SweepClear,
           ReleaseFlushLock, ClearActive, BufferTypeOK, TablesTypeOK, tableVars
  <1>2. client' = client /\ faults' = faults
    BY DEF FlushRelease, FlushClear, Unlock, SweepClear, Step
  <1>3. client' \in [Answers -> {"new", "sent", "acked"}] /\ faults' \in Nat
    BY <1>2 DEF TypeInv, TypeOK, ProcTypeOK
  <1>4. ProcTypeOK' /\ LocalOK'
    <2>1. CASE Return(p)
      BY <1>3, <2>1, ReturnType
    <2>2. ASSUME NEW from, NEW to \in {"clear", "mark"}, Step(p, from, to)
          PROVE  ProcTypeOK' /\ LocalOK'
      <3>1. to \in Pcs
        BY DEF Pcs, FlushPc
      <3> QED
        BY <1>3, <2>2, <3>1, StepType DEF Step
    <2> QED
      BY <2>1, <2>2 DEF FlushRelease, FlushClear, Unlock, SweepClear
  <1> QED
    BY <1>1, <1>4 DEF TypeInv, TypeOK

\* The steps of _flush_session that only read.
LEMMA FlushReadType ==
    ASSUME TypeInv, NEW p \in Flushers,
           (\E st \in Closed : FlushRequest(p, st)) \/ FlushLoad(p) \/ FlushReadRaw(p)
    PROVE  TypeInv'
  <1>0. p \in Procs
    BY DEF Procs
  <1>1. BufferTypeOK' /\ TablesTypeOK'
    BY DEF TypeInv, TypeOK, FlushRequest, FlushLoad, FlushReadRaw,
           BufferTypeOK, TablesTypeOK, bufferVars, tableVars
  <1>2. resume[p] \in {"check", "ack"} => ans[p] \in Answers
    BY <1>0 DEF TypeInv, LocalOK
  <1>3. ASSUME NEW st \in Closed, FlushRequest(p, st)
        PROVE  ProcTypeOK' /\ LocalOK'
    <2>2. PICK to \in {"clear", "lock"} : pc' = [pc EXCEPT ![p] = to]
      BY <1>3 DEF FlushRequest, Goto
    <2>a. PICK en \in Closed : target' = [target EXCEPT ![p] = en]
      <3>1. "completed" \in Closed
        BY DEF Closed
      <3>2. CASE row.ended
        BY <1>3, <3>1, <3>2 DEF FlushRequest
      <3>3. CASE ~row.ended
        BY <1>3, <3>3 DEF FlushRequest
      <3> QED
        BY <3>2, <3>3
    <2>b. to \in FlushPc
      BY DEF FlushPc
    <2>1. ProcTypeOK'
      <3>1. UNCHANGED <<resume, ans, mem, batch, client, faults>>
        BY <1>3 DEF FlushRequest
      <3>2. pc' \in [Procs -> SubmitPc \cup ReconPc \cup FlushPc]
        BY <2>2, <2>b DEF TypeInv, TypeOK, ProcTypeOK
      <3>3. target' \in [Procs -> Closed]
        BY <2>a DEF TypeInv, TypeOK, ProcTypeOK
      <3> QED
        BY <3>1, <3>2, <3>3 DEF TypeInv, TypeOK, ProcTypeOK
    <2>3. UNCHANGED <<resume, ans, mem>>
      BY <1>3 DEF FlushRequest
    <2>4. LocalOK'
      BY <1>0, <1>2, <2>2, <2>3, LocalChange
    <2> QED
      BY <2>1, <2>4
  <1>4. ASSUME FlushLoad(p)
        PROVE  ProcTypeOK' /\ LocalOK'
    <2>1. ProcTypeOK'
      <3>1. /\ pc' \in {[pc EXCEPT ![p] = "raw"], [pc EXCEPT ![p] = "reconRead"]}
            /\ resume' \in {resume, [resume EXCEPT ![p] = "raw"]}
            /\ mem' \in {mem, [mem EXCEPT ![p] = sess]}
        BY <1>4 DEF FlushLoad, Goto
      <3>2. UNCHANGED <<ans, batch, target, client, faults>>
        BY <1>4 DEF FlushLoad
      <3>3. "raw" \in FlushPc /\ "reconRead" \in ReconPc
        BY DEF FlushPc, ReconPc
      <3>4. pc' \in [Procs -> SubmitPc \cup ReconPc \cup FlushPc]
        BY <3>1, <3>3 DEF TypeInv, TypeOK, ProcTypeOK
      <3>5. resume' \in [Procs -> {"idle", "check", "ack", "raw"}]
        BY <3>1 DEF TypeInv, TypeOK, ProcTypeOK
      <3>6. mem' \in [Procs -> SessionState \cup {None}]
        BY <3>1 DEF TypeInv, TypeOK, ProcTypeOK, BufferTypeOK
      <3> QED
        BY <3>2, <3>4, <3>5, <3>6 DEF TypeInv, TypeOK, ProcTypeOK
    <2>2. CASE sess # None /\ Goto(p, "raw") /\ mem' = [mem EXCEPT ![p] = sess]
               /\ UNCHANGED resume
      <3>1. mem'[p] \in SessionState
        BY <1>0, <2>2 DEF TypeInv, TypeOK, BufferTypeOK, ProcTypeOK
      <3>2. \A q \in Procs \ {p} : resume'[q] = resume[q] /\ mem'[q] = mem[q]
        BY <2>2 DEF TypeInv, TypeOK, ProcTypeOK
      <3>3. LocalOK'
        BY <1>0, <1>2, <1>4, <2>2, <3>1, <3>2, LocalChange DEF FlushLoad, Goto
      <3> QED
        BY <2>1, <3>3
    <2>3. CASE Goto(p, "reconRead") /\ resume' = [resume EXCEPT ![p] = "raw"]
               /\ UNCHANGED mem
      <3>1. /\ resume'[p] = "raw"
            /\ \A q \in Procs \ {p} : resume'[q] = resume[q] /\ mem'[q] = mem[q]
        BY <1>0, <2>3 DEF TypeInv, TypeOK, ProcTypeOK
      <3>2. LocalOK'
        BY <1>0, <1>4, <2>3, <3>1, LocalChange DEF FlushLoad, Goto
      <3> QED
        BY <2>1, <3>2
    <2> QED
      BY <1>4, <2>2, <2>3 DEF FlushLoad
  <1>5. ASSUME FlushReadRaw(p)
        PROVE  ProcTypeOK' /\ LocalOK'
    <2>1. ProcTypeOK'
      BY <1>5 DEF TypeInv, TypeOK, ProcTypeOK, BufferTypeOK, FlushReadRaw, Goto, FlushPc
    <2>2. mem[p] \in SessionState
      BY <1>0, <1>5 DEF TypeInv, LocalOK, FlushReadRaw
    <2>3. pc' = [pc EXCEPT ![p] = "commit"] /\ UNCHANGED <<resume, ans, mem>>
      BY <1>5 DEF FlushReadRaw, Goto
    <2>4. LocalOK'
      BY <1>0, <1>2, <2>2, <2>3, LocalChange
    <2> QED
      BY <2>1, <2>4
  <1> QED
    BY <1>1, <1>3, <1>4, <1>5 DEF TypeInv, TypeOK

LEMMA FlushType ==
    ASSUME TypeInv, NEW p \in Flushers,
           (\E st \in Closed : FlushRequest(p, st)) \/ FlushStep(p)
    PROVE  TypeInv'
  <1>1. p \in Procs
    BY DEF Procs
  <1>2. CASE FlushLock(p)
    BY <1>1, <1>2, TakeLockType DEF FlushLock
  <1>3. CASE (\E st \in Closed : FlushRequest(p, st)) \/ FlushLoad(p) \/ FlushReadRaw(p)
    BY <1>3, FlushReadType
  <1>4. CASE Commit(p)
    BY <1>1, <1>4, CommitType
  <1>5. CASE FlushDelete(p)
    BY <1>1, <1>5, DropBufferType DEF FlushDelete
  <1>6. CASE FlushRelease(p) \/ FlushClear(p) \/ Unlock(p)
    BY <1>1, <1>6, EndType
  <1> QED
    BY <1>2, <1>3, <1>4, <1>5, <1>6 DEF FlushStep

-----------------------------------------------------------------------------
\* The steps of the sweeper that only read.
LEMMA SweepReadType ==
    ASSUME TypeInv, NEW p \in Sweepers,
           SweepSelect(p) \/ SweepRow(p) \/ SweepLoad(p) \/ SweepReadRaw(p)
    PROVE  TypeInv'
  <1>0. p \in Procs /\ p \notin Flushers
    BY ProcessAssumption DEF Procs
  <1>1. BufferTypeOK' /\ TablesTypeOK'
    BY DEF TypeInv, TypeOK, SweepSelect, SweepRow, SweepLoad, SweepReadRaw,
           BufferTypeOK, TablesTypeOK, bufferVars, tableVars
  <1>2. resume[p] \in {"check", "ack"} => ans[p] \in Answers
    BY <1>0 DEF TypeInv, LocalOK
  <1>3. CASE SweepSelect(p) \/ SweepRow(p)
    <2>1. faults' \in Nat /\ UNCHANGED <<resume, ans, mem, batch, target, client>>
      BY <1>3 DEF SweepSelect, SweepRow, Step, TypeInv, TypeOK, ProcTypeOK
    <2>2. PICK to \in {"lock", "unlock", "load"} : Goto(p, to)
      BY <1>3 DEF SweepSelect, SweepRow, Step
    <2>3. to \in Pcs
      BY DEF Pcs, FlushPc
    <2>4. ProcTypeOK' /\ LocalOK'
      BY <1>0, <2>1, <2>2, <2>3, StepType
    <2> QED
      BY <1>1, <2>4 DEF TypeInv, TypeOK
  <1>4. CASE SweepLoad(p)
    <2>1. ProcTypeOK'
      BY <1>4 DEF TypeInv, TypeOK, ProcTypeOK, BufferTypeOK, SweepLoad, Goto, FlushPc
    <2>2. \A q \in Procs \ {p} : resume'[q] = resume[q] /\ mem'[q] = mem[q]
      BY <1>4 DEF SweepLoad, TypeInv, TypeOK, ProcTypeOK
    <2>3. pc' = [pc EXCEPT ![p] = "raw"] /\ UNCHANGED <<resume, ans>>
      BY <1>4 DEF SweepLoad, Goto
    <2>4. LocalOK'
      BY <1>0, <1>2, <2>2, <2>3, LocalChange
    <2> QED
      BY <1>1, <2>1, <2>4 DEF TypeInv, TypeOK
  <1>5. CASE SweepReadRaw(p)
    <2>1. ProcTypeOK'
      BY <1>5 DEF TypeInv, TypeOK, ProcTypeOK, BufferTypeOK, SweepReadRaw, Goto, FlushPc
    <2>2. PICK to \in {"recover", "commit", "checkpoint"} :
             /\ pc' = [pc EXCEPT ![p] = to]
             /\ to # "recover" => mem[p] # None
      BY <1>5 DEF SweepReadRaw, Goto
    <2>3. to # "recover" => mem[p] \in SessionState
      BY <1>0, <2>2 DEF TypeInv, TypeOK, ProcTypeOK
    <2>4. UNCHANGED <<resume, ans, mem>>
      BY <1>5 DEF SweepReadRaw
    <2>5. LocalOK'
      BY <1>0, <1>2, <2>2, <2>3, <2>4, LocalChange
    <2> QED
      BY <1>1, <2>1, <2>5 DEF TypeInv, TypeOK
  <1> QED
    BY <1>3, <1>4, <1>5

\* The pending row: checkpoint, recovery and the recovered mark.
LEMMA SweepPendingType ==
    ASSUME TypeInv, NEW p \in Sweepers,
           SweepCheckpoint(p) \/ SweepRecover(p) \/ SweepMark(p)
    PROVE  TypeInv'
  <1>0. p \in Procs
    BY DEF Procs
  <1>1. BufferTypeOK'
    BY DEF TypeInv, TypeOK, SweepCheckpoint, SweepRecover, SweepMark,
           BufferTypeOK, bufferVars
  <1>2. resume[p] \in {"check", "ack"} => ans[p] \in Answers
    BY <1>0 DEF TypeInv, LocalOK
  <1>3. CASE SweepCheckpoint(p)
    <2>1. pc[p] = "checkpoint"
      BY <1>3 DEF SweepCheckpoint, Step
    <2>2. mem[p] \in SessionState
      BY <1>0, <2>1, MemIsState
    <2>3. batch[p] \in Seq(Answers) /\ faults' \in Nat
      BY <1>0, <1>3 DEF SweepCheckpoint, Step, TypeInv, TypeOK, ProcTypeOK
    <2>4. TablesTypeOK'
      BY <1>3, <2>2, <2>3, SavePendingType DEF SweepCheckpoint, TypeInv, TypeOK
    <2>5. "commit" \in Pcs
      BY DEF Pcs, FlushPc
    <2>6. ProcTypeOK' /\ LocalOK'
      BY <1>0, <1>3, <2>2, <2>3, <2>5, StepType DEF SweepCheckpoint, Step
    <2> QED
      BY <1>1, <2>4, <2>6 DEF TypeInv, TypeOK
  <1>4. CASE SweepRecover(p)
    <2>1. PICK s \in SessionState, b \in Seq(Answers) :
             mem' = [mem EXCEPT ![p] = s] /\ batch' = [batch EXCEPT ![p] = b]
      <3>1. CASE /\ HasPending
                 /\ mem' = [mem EXCEPT ![p] = pending.state]
                 /\ batch' = [batch EXCEPT ![p] = pending.raw]
        <4>1. pending.state \in SessionState /\ pending.raw \in Seq(Answers)
          BY <3>1 DEF HasPending, TypeInv, TypeOK, TablesTypeOK, Pending
        <4> QED
          BY <3>1, <4>1
      <3>2. CASE /\ mem' = [mem EXCEPT ![p] = [order |-> SetToSeq(ReviewedItems),
                                               idx |-> 0]]
                 /\ batch' = [batch EXCEPT ![p] = <<>>]
        <4>1. [order |-> SetToSeq(ReviewedItems), idx |-> 0] \in SessionState
          BY AnsweredType DEF TypeInv, TypeOK, SessionState
        <4>2. <<>> \in Seq(Answers)
          BY EmptySeq
        <4> QED
          BY <3>2, <4>1, <4>2
      <3> QED
        BY <1>4, <3>1, <3>2 DEF SweepRecover
    <2>2. TablesTypeOK'
      BY <1>4 DEF SweepRecover, TypeInv, TypeOK, TablesTypeOK, tableVars
    <2>3. ProcTypeOK'
      BY <1>4, <2>1 DEF SweepRecover, Goto, FlushPc, TypeInv, TypeOK, ProcTypeOK
    <2>4. /\ mem'[p] \in SessionState
          /\ \A q \in Procs \ {p} : resume'[q] = resume[q] /\ mem'[q] = mem[q]
      BY <1>0, <1>4, <2>1 DEF SweepRecover, TypeInv, TypeOK, ProcTypeOK
    <2>5. pc' = [pc EXCEPT ![p] = "commit"] /\ UNCHANGED <<resume, ans>>
      BY <1>4 DEF SweepRecover, Goto
    <2>6. LocalOK'
      BY <1>0, <1>2, <2>4, <2>5, LocalChange
    <2> QED
      BY <1>1, <2>2, <2>3, <2>6 DEF TypeInv, TypeOK
  <1>5. CASE SweepMark(p)
    <2>1. TablesTypeOK'
      BY <1>5, MarkRecoveredType DEF SweepMark, TypeInv, TypeOK
    <2>2. "unlock" \in Pcs /\ faults' \in Nat
      BY <1>5 DEF Pcs, FlushPc, SweepMark, Step, TypeInv, TypeOK, ProcTypeOK
    <2>3. ProcTypeOK' /\ LocalOK'
      BY <1>0, <1>5, <2>2, StepType DEF SweepMark, Step
    <2> QED
      BY <1>1, <2>1, <2>3 DEF TypeInv, TypeOK
  <1> QED
    BY <1>3, <1>4, <1>5

LEMMA SweepType ==
    ASSUME TypeInv, NEW p \in Sweepers,
           SweepSelect(p) \/ SweepLock(p) \/ SweepStep(p)
    PROVE  TypeInv'
  <1>1. p \in Procs
    BY DEF Procs
  <1>2. CASE SweepLock(p)
    BY <1>1, <1>2, TakeLockType DEF SweepLock
  <1>3. CASE SweepSelect(p) \/ SweepRow(p) \/ SweepLoad(p) \/ SweepReadRaw(p)
    BY <1>3, SweepReadType
  <1>4. CASE SweepCheckpoint(p) \/ SweepRecover(p) \/ SweepMark(p)
    BY <1>4, SweepPendingType
  <1>5. CASE Commit(p)
    BY <1>1, <1>5, CommitType
  <1>6. CASE SweepDelete(p)
    BY <1>1, <1>6, DropBufferType DEF SweepDelete
  <1>7. CASE SweepClear(p) \/ Unlock(p)
    BY <1>1, <1>7, EndType
  <1> QED
    BY <1>2, <1>3, <1>4, <1>5, <1>6, <1>7 DEF SweepStep

\* Restarts, expiries, losses in Redis, deletion of the set.
LEMMA FaultsType ==
    ASSUME TypeInv, Crash \/ LockExpires \/ RedisLoses \/ DeleteSet
    PROVE  TypeInv'
  <1>1. CASE Crash
    <2>1. BufferTypeOK' /\ TablesTypeOK'
      BY <1>1 DEF Crash, TypeInv, TypeOK, BufferTypeOK, TablesTypeOK,
                  bufferVars, tableVars
    <2>2. <<>> \in Seq(Answers)
      BY EmptySeq
    <2>3. ProcTypeOK'
      BY <1>1, <2>2 DEF Crash, Fault, TypeInv, TypeOK, ProcTypeOK, SubmitPc, Closed
    <2>4. LocalOK'
      BY <1>1 DEF Crash, LocalOK
    <2> QED
      BY <2>1, <2>3, <2>4 DEF TypeInv, TypeOK
  <1>2. CASE LockExpires \/ RedisLoses
    <2>1. BufferTypeOK'
      BY <1>2, EmptySeq DEF LockExpires, ReleaseFlushLock, RedisLoses, LoseEverything,
                            EvictOne, TypeInv, TypeOK, BufferTypeOK
    <2>2. TablesTypeOK'
      BY <1>2 DEF LockExpires, RedisLoses, TypeInv, TypeOK, TablesTypeOK, tableVars
    <2>3. /\ UNCHANGED <<pc, resume, ans, mem, batch, target, client>>
          /\ faults' \in Nat
      BY <1>2 DEF LockExpires, RedisLoses, Fault, TypeInv, TypeOK, ProcTypeOK
    <2>4. ProcTypeOK' /\ LocalOK'
      BY <2>3 DEF TypeInv, TypeOK, ProcTypeOK, LocalOK
    <2> QED
      BY <2>1, <2>2, <2>4 DEF TypeInv, TypeOK
  <1>3. CASE DeleteSet
    <2>1. TablesTypeOK'
      BY <1>3, DeleteSetType DEF DeleteSet, TypeInv, TypeOK
    <2>2. BufferTypeOK'
      BY <1>3 DEF DeleteSet, TypeInv, TypeOK, BufferTypeOK, bufferVars
    <2>3. ProcTypeOK' /\ LocalOK'
      BY <1>3 DEF DeleteSet, TypeInv, TypeOK, ProcTypeOK, LocalOK, procVars
    <2> QED
      BY <2>1, <2>2, <2>3 DEF TypeInv, TypeOK
  <1> QED
    BY <1>1, <1>2, <1>3

LEMMA TypeInvStep ==
    ASSUME TypeInv, [Next]_vars
    PROVE  TypeInv'
  <1>1. CASE UNCHANGED vars
    BY <1>1 DEF TypeInv, TypeOK, BufferTypeOK, TablesTypeOK, ProcTypeOK, LocalOK,
                vars, bufferVars, tableVars, procVars
  <1>2. ASSUME NEW p \in Submitters,
               SubmitRequest(p) \/ SubmitStep(p) \/ Reconstruct(p)
        PROVE  TypeInv'
    BY <1>2, SubmitType, ReconstructType
  <1>3. ASSUME NEW p \in Flushers,
               (\E st \in Closed : FlushRequest(p, st)) \/ FlushStep(p) \/ Reconstruct(p)
        PROVE  TypeInv'
    BY <1>3, FlushType, ReconstructType
  <1>4. ASSUME NEW p \in Sweepers, SweepSelect(p) \/ SweepLock(p) \/ SweepStep(p)
        PROVE  TypeInv'
    BY <1>4, SweepType
  <1>5. CASE Crash \/ LockExpires \/ RedisLoses \/ DeleteSet
    BY <1>5, FaultsType
  <1> QED
    BY <1>1, <1>2, <1>3, <1>4, <1>5 DEF Next

\* Redis, the tables and the handlers' local copies keep their types, under
\* every interleaving and fault: no handler of practice_service or of the
\* sweeper closes, checkpoints or saves a session without having its state.
THEOREM TypeCorrect == Spec => []TypeOK
  <1>1. Init => TypeInv
    BY TypeInvInit
  <1>2. TypeInv /\ [Next]_vars => TypeInv'
    BY TypeInvStep
  <1>3. TypeInv => TypeOK
    BY DEF TypeInv
  <1> QED
    BY <1>1, <1>2, <1>3, PTL DEF Spec

-----------------------------------------------------------------------------
(***************************************************************************)
(* The review log and the schedules.  Only the transaction of              *)
(* finalise_batch writes either; what it inserts is, for each item not yet *)
(* reviewed, the first event of the batch.                                 *)
(***************************************************************************)
\* A non-empty set of numbers has a smallest one.
LEMMA LeastNumber ==
    ASSUME NEW S \in SUBSET Nat, S # {}
    PROVE  \E m \in S : \A k \in S : m <= k
  <1> DEFINE Less == {pair \in Nat \X Nat : pair[1] < pair[2]}
  <1>1. IsWellFoundedOn(Less, Nat)
    <2>1. Less = OpToRel(<, Nat)
      BY DEF OpToRel
    <2> QED
      BY <2>1, NatLessThanWellFounded
  <1>2. \A x, y \in Nat : <<x, y>> \in Less <=> x < y
    OBVIOUS
  <1> HIDE DEF Less
  <1>3. PICK m \in S : \A k \in S : ~(<<k, m>> \in Less)
    BY <1>1, WFMin
  <1>4. \A k \in S : k \in Nat /\ m \in Nat /\ ~(k < m)
    BY <1>2, <1>3
  <1>5. \A k \in S : m <= k
    BY <1>4
  <1> QED
    BY <1>5

\* Each event of a batch finds a review of its item, old or new.
LEMMA EachItemLogged ==
    ASSUME NEW b \in Seq(Answers), NEW k \in 1..Len(b)
    PROVE  ItemOf[b[k]] \in {ItemOf[a] : a \in reviews \cup NewReviews(b)}
  <1>1. CASE ItemOf[b[k]] \in ReviewedItems
    BY <1>1 DEF ReviewedItems
  <1>2. CASE ItemOf[b[k]] \notin ReviewedItems
    <2> DEFINE same == {j \in 1..Len(b) : ItemOf[b[j]] = ItemOf[b[k]]}
    <2>1. same \in SUBSET Nat /\ same # {}
      BY LenProperties
    <2>2. PICK first \in same : \A j \in same : first <= j
      BY <2>1, LeastNumber
    <2>3. first \in 1..Len(b) /\ ItemOf[b[first]] = ItemOf[b[k]]
      BY <2>2
    <2>4. \A j \in 1..(first - 1) : ItemOf[b[j]] # ItemOf[b[first]]
      BY <2>2, <2>3, LenProperties
    <2>5. b[first] \in NewReviews(b)
      BY <1>2, <2>3, <2>4 DEF NewReviews
    <2> QED
      BY <2>3, <2>5
  <1> QED
    BY <1>1, <1>2

\* Two new reviews are for different items.
LEMMA NewReviewsDiffer ==
    ASSUME NEW b \in Seq(Answers), NEW x \in NewReviews(b), NEW y \in NewReviews(b),
           ItemOf[x] = ItemOf[y]
    PROVE  x = y
  <1>1. PICK j \in 1..Len(b) :
           x = b[j] /\ \A i \in 1..(j - 1) : ItemOf[b[i]] # ItemOf[b[j]]
    BY DEF NewReviews
  <1>2. PICK k \in 1..Len(b) :
           y = b[k] /\ \A i \in 1..(k - 1) : ItemOf[b[i]] # ItemOf[b[k]]
    BY DEF NewReviews
  <1>3. ~(j < k) /\ ~(k < j)
    BY <1>1, <1>2, LenProperties
  <1> QED
    BY <1>1, <1>2, <1>3, LenProperties

LEMMA CloseKeepsLog ==
    ASSUME TypeInv, LogMatchesProgress, NEW b \in Seq(Answers), NEW st,
           CloseWith(b, st)
    PROVE  LogMatchesProgress'
  <1> DEFINE n(a) == Cardinality({k \in 1..Len(b) : b[k] = a})
  <1>1. /\ reviews' = reviews \cup NewReviews(b)
        /\ applied' = [a \in Answers |-> applied[a] + n(a)]
    BY DEF CloseWith
  <1>2. \A a \in Answers : n(a) \in Nat /\ applied[a] \in Nat
    BY CountType DEF TypeInv, TypeOK, TablesTypeOK
  <1>3. \A k \in 1..Len(b) : b[k] \in Answers
    BY ElementOfSeq
  <1>4. ASSUME NEW k \in 1..Len(b)
        PROVE  n(b[k]) >= 1
    <2> DEFINE S == {j \in 1..Len(b) : b[j] = b[k]}
    <2>1. S # {}
      <3>1. k \in S
        BY <1>4
      <3> QED
        BY <3>1
    <2>2. IsFiniteSet(S)
      <3>1. IsFiniteSet(1..Len(b))
        BY FS_Interval, LenProperties
      <3> QED
        BY <3>1, FS_Subset
    <2>3. Cardinality(S) # 0 /\ Cardinality(S) \in Nat
      BY <2>1, <2>2, FS_EmptySet, FS_CardinalityType
    <2> HIDE DEF S
    <2>4. Cardinality(S) >= 1
      BY <2>3
    <2> QED
      BY <2>4 DEF S
  <1>5. ASSUME NEW a \in Answers, applied[a] + n(a) >= 1, ~(applied[a] >= 1)
        PROVE  \E k \in 1..Len(b) : b[k] = a
    <2> DEFINE S == {j \in 1..Len(b) : b[j] = a}
    <2>1. SUFFICES ASSUME S = {} PROVE FALSE
      OBVIOUS
    <2>2. n(a) = 0
      BY <2>1, FS_EmptySet
    <2> HIDE DEF n
    <2> QED
      BY <1>2, <1>5, <2>2
  <1> HIDE DEF n
  <1>6. \A a \in Answers : applied'[a] = applied[a] + n(a)
    BY <1>1
  <1>7. ASSUME NEW a \in Answers, applied'[a] >= 1
        PROVE  ItemOf[a] \in ReviewedItems'
    <2>1. CASE applied[a] >= 1
      BY <1>1, <2>1 DEF LogMatchesProgress, ReviewedItems
    <2>2. CASE ~(applied[a] >= 1)
      <3>1. PICK k \in 1..Len(b) : b[k] = a
        BY <1>5, <1>6, <1>7, <2>2
      <3> QED
        BY <1>1, <3>1, EachItemLogged DEF ReviewedItems
    <2> QED
      BY <2>1, <2>2
  <1>8. ASSUME NEW a \in reviews'
        PROVE  applied'[a] >= 1
    <2>1. CASE a \in reviews
      <3>1. a \in Answers /\ applied[a] >= 1
        BY <2>1 DEF LogMatchesProgress, TypeInv, TypeOK, TablesTypeOK
      <3> QED
        BY <1>2, <1>6, <3>1
    <2>2. CASE a \in NewReviews(b)
      <3>1. PICK k \in 1..Len(b) : a = b[k]
        BY <2>2 DEF NewReviews
      <3>2. a \in Answers /\ n(a) >= 1
        BY <1>3, <1>4, <3>1
      <3> QED
        BY <1>2, <1>6, <3>2
    <2> QED
      BY <1>1, <1>8, <2>1, <2>2
  <1>9. ASSUME NEW x \in reviews', NEW y \in reviews', ItemOf[x] = ItemOf[y]
        PROVE  x = y
    <2>1. \A a \in NewReviews(b) : ItemOf[a] \notin ReviewedItems
      BY DEF NewReviews
    <2>2. \A a \in reviews : ItemOf[a] \in ReviewedItems
      BY DEF ReviewedItems
    <2>3. CASE x \in reviews /\ y \in reviews
      BY <1>9, <2>3 DEF LogMatchesProgress
    <2>4. CASE x \in NewReviews(b) /\ y \in NewReviews(b)
      BY <1>9, <2>4, NewReviewsDiffer
    <2> QED
      BY <1>1, <1>9, <2>1, <2>2, <2>3, <2>4
  <1> QED
    BY <1>7, <1>8, <1>9 DEF LogMatchesProgress

LEMMA CommitKeepsLog ==
    ASSUME TypeInv, LogMatchesProgress, NEW p \in Procs, Commit(p)
    PROVE  LogMatchesProgress'
  <1>1. CASE UNCHANGED <<reviews, applied>>
    BY <1>1 DEF LogMatchesProgress, ReviewedItems
  <1>2. CASE CloseWith(Truncated(mem[p], batch[p]), target[p])
    <2>1. pc[p] = "commit"
      BY DEF Commit
    <2>2. mem[p] \in SessionState /\ batch[p] \in Seq(Answers)
      BY <2>1, MemIsState DEF TypeInv, TypeOK, ProcTypeOK
    <2> QED
      BY <1>2, <2>2, TruncatedType, CloseKeepsLog
  <1> QED
    BY <1>1, <1>2 DEF Commit, FinaliseBatch, CloseEmpty, tableVars

LEMMA LogStep ==
    ASSUME TypeInv, LogMatchesProgress, [Next]_vars
    PROVE  LogMatchesProgress'
  <1>1. CASE \E p \in Procs : Commit(p)
    BY <1>1, CommitKeepsLog
  <1>2. CASE UNCHANGED <<reviews, applied>>
    BY <1>2 DEF LogMatchesProgress, ReviewedItems
  <1>3. ASSUME NEW p \in Procs, SubmitRequest(p) \/ SubmitStep(p) \/ Reconstruct(p)
        PROVE  UNCHANGED <<reviews, applied>>
    BY <1>3 DEF SubmitRequest, SubmitLoad, ViewActive, ResumeOnStart, RefreshConfig,
           SubmitStep, SubmitAppend, SubmitReload, Reconstruct, ReconstructRead,
           ReconstructSave, ReconstructActivate, tableVars
  <1>4. ASSUME NEW p \in Procs, ~Commit(p),
               (\E st \in Closed : FlushRequest(p, st)) \/ FlushStep(p)
        PROVE  UNCHANGED <<reviews, applied>>
    BY <1>4 DEF FlushRequest, FlushStep, FlushLock, TakeLock, FlushLoad, FlushReadRaw,
           FlushDelete, DropBuffer, FlushRelease, FlushClear, Unlock, tableVars
  <1>5. ASSUME NEW p \in Procs, ~Commit(p),
               SweepSelect(p) \/ SweepLock(p) \/ SweepStep(p)
        PROVE  UNCHANGED <<reviews, applied>>
    BY <1>5 DEF SweepSelect, SweepLock, TakeLock, SweepStep, SweepRow, SweepLoad,
           SweepReadRaw, SweepCheckpoint, SavePending, SweepRecover, SweepDelete,
           DropBuffer, SweepClear, SweepMark, MarkRecovered, Unlock, tableVars
  <1>6. Crash \/ LockExpires \/ RedisLoses \/ DeleteSet
          => UNCHANGED <<reviews, applied>>
    BY DEF Crash, LockExpires, RedisLoses, DeleteSet, DeleteSetTables, tableVars
  <1>7. UNCHANGED vars => UNCHANGED <<reviews, applied>>
    BY DEF vars, tableVars
  <1> QED
    BY <1>1, <1>2, <1>3, <1>4, <1>5, <1>6, <1>7 DEF Next, Procs

\* However often and by whomever a session is finalised, retried and
\* recovered: an item that went through SM-2 is in the review log, once, with
\* an answer that did (_insert_reviews and _run_sm2_batch commit together).
THEOREM LogFollowsProgress == Spec => []LogMatchesProgress
  <1>1. Init => TypeInv /\ LogMatchesProgress
    <2>1. Init => LogMatchesProgress
      BY DEF Init, LogMatchesProgress
    <2> QED
      BY <2>1, TypeInvInit
  <1>2. TypeInv /\ LogMatchesProgress /\ [Next]_vars => (TypeInv /\ LogMatchesProgress)'
    BY TypeInvStep, LogStep
  <1> QED
    BY <1>1, <1>2, PTL DEF Spec
-----------------------------------------------------------------------------
(***************************************************************************)
(* PracticeSession implements SessionOutcome, for any items, answers,      *)
(* faults and number of sweepers.                                          *)
(***************************************************************************)
\* The sweeper closes the session, Redis keeps its data, requests to submit
\* come one at a time, no item is in a batch twice, and the raw list has room.
SweepsAlone ==
    /\ Flushers = {}
    /\ Events \subseteq {"retry", "crash", "flushError"}
    /\ \A p, q \in Submitters : p = q
    /\ \A b \in Batches :
          /\ Len(b) <= MaxRawEvents
          /\ \A j, k \in 1..Len(b) : b[j] = b[k] => j = k

\* b is how the list of raw events begins.
Begins(b) == Len(b) <= Len(raw) /\ \A k \in 1..Len(b) : b[k] = raw[k]

\* An open session: nothing is counted, state and list of events agree, and
\* what is checkpointed is in the list.
OpenOK ==
    ~row.ended =>
        /\ row.status = "in_progress" /\ row.reviewed = 0
        /\ \A a \in Answers : applied[a] = 0
        /\ sess # None
        /\ sess.order \in Batches
        /\ sess.idx = Len(raw) /\ Len(raw) <= Len(sess.order)
        /\ \A k \in 1..Len(raw) : ItemOf[raw[k]] = sess.order[k]
        /\ pending # None => Begins(pending.raw)

ClosedOK == CheckpointKept /\ AppliedAtMostOnce

\* Only a closed session is ever reconstructed; an answer that has passed its
\* check is still the next one.
SubmitterOK(p) ==
    /\ pc[p] \in SubmitPc \cup ReconPc
    /\ resume[p] # "raw"
    /\ pc[p] \in ReconPc => row.ended
    /\ pc[p] = "append" /\ ~row.ended =>
          sess.idx < Len(sess.order) /\ ItemOf[ans[p]] = sess.order[sess.idx + 1]

SweepPc == {"idle", "lock", "row", "load", "raw", "checkpoint", "commit",
            "delete", "sweepClear", "mark", "unlock"}
Reading == {"load", "raw", "checkpoint", "commit"}

\* A sweeper that has looked at the row works on an open session; what it has
\* read of the list is how the list begins, and no less than was checkpointed.
SweeperOK(p) ==
    /\ pc[p] \in SweepPc
    /\ pc[p] \in Reading => ~row.ended
    /\ pc[p] \in Reading \ {"load"} => mem[p] # None /\ mem[p].order = sess.order
    /\ pc[p] \in {"checkpoint", "commit"} =>
          /\ Begins(batch[p])
          /\ pending # None => Len(pending.raw) <= Len(batch[p])
    /\ pc[p] = "delete" =>
          row.ended /\ \A a \in ToSet(batch[p]) : applied[a] >= 1

OutcomeInv ==
    /\ OpenOK /\ ClosedOK
    /\ \A p \in Submitters : SubmitterOK(p)
    /\ \A p \in Sweepers : SweeperOK(p)

AllInv == TypeInv /\ LockInv /\ OutcomeInv

LEMMA OutcomeInit == SweepsAlone /\ Init => OutcomeInv /\ Outcome!Init
  <1> SUFFICES ASSUME SweepsAlone, Init PROVE OutcomeInv /\ Outcome!Init
    OBVIOUS
  <1>1. PICK b \in Batches : sess = [order |-> b, idx |-> 0]
    BY DEF Init
  <1>2. b \in Seq(Items) /\ Len(b) \in Nat
    BY BatchesAssumption, LenProperties
  <1>3. OpenOK
    BY <1>1, <1>2, NoneIsNoState DEF Init, OpenOK, SessionState
  <1>4. ClosedOK
    BY DEF Init, ClosedOK, CheckpointKept, AppliedAtMostOnce
  <1>5. \A p \in Submitters : SubmitterOK(p)
    BY DEF Init, SubmitterOK, SubmitPc, ReconPc, Procs
  <1>6. \A p \in Sweepers : SweeperOK(p)
    BY DEF Init, SweeperOK, SweepPc, Reading, Procs
  <1>7. Outcome!Init
    BY DEF Init, Outcome!Init, Outcome!InProgress
  <1> QED
    BY <1>3, <1>4, <1>5, <1>6, <1>7 DEF OutcomeInv

-----------------------------------------------------------------------------
\* A step of p alone that leaves the tables and, of an open session, the
\* buffer as they are.
Quiet(p) ==
    /\ \A q \in Procs \ {p} :
          /\ pc'[q] = pc[q] /\ resume'[q] = resume[q] /\ ans'[q] = ans[q]
          /\ mem'[q] = mem[q] /\ batch'[q] = batch[q]
    /\ row' = row /\ applied' = applied
    /\ pending' = pending \/ (pending # None /\ pending' # None
                              /\ pending'.raw = pending.raw)
    /\ row.ended \/ (sess' = sess /\ raw' = raw)

\* What the abstract session sees of it.
Stutters == UNCHANGED Outcome!vars

LEMMA QuietStep ==
    ASSUME AllInv, NEW p \in Procs, Quiet(p),
           p \in Submitters => SubmitterOK(p)',
           p \in Sweepers => SweeperOK(p)'
    PROVE  OutcomeInv' /\ Stutters
  <1>1. OpenOK'
    BY DEF AllInv, OutcomeInv, OpenOK, Quiet, Begins
  <1>2. ClosedOK'
    BY DEF AllInv, OutcomeInv, ClosedOK, CheckpointKept, AppliedAtMostOnce, Quiet
  <1>3. ASSUME NEW q \in Submitters PROVE SubmitterOK(q)'
    <2>1. CASE q = p
      BY <2>1
    <2>2. CASE q # p
      <3>1. q \in Procs /\ SubmitterOK(q)
        BY DEF Procs, AllInv, OutcomeInv
      <3> QED
        BY <2>2, <3>1 DEF Quiet, SubmitterOK
    <2> QED
      BY <2>1, <2>2
  <1>4. ASSUME NEW q \in Sweepers PROVE SweeperOK(q)'
    <2>1. CASE q = p
      BY <2>1
    <2>2. CASE q # p
      <3>1. q \in Procs /\ SweeperOK(q)
        BY DEF Procs, AllInv, OutcomeInv
      <3> QED
        BY <2>2, <3>1 DEF Quiet, SweeperOK, Begins, Reading
    <2> QED
      BY <2>1, <2>2
  <1>5. Stutters
    BY DEF Stutters, Quiet, Outcome!vars
  <1> QED
    BY <1>1, <1>2, <1>3, <1>4, <1>5 DEF OutcomeInv

\* The end of a request.
LEMMA ReturnQuiet ==
    ASSUME AllInv, NEW p \in Procs, Return(p), UNCHANGED tableVars,
           row.ended \/ (sess' = sess /\ raw' = raw)
    PROVE  OutcomeInv' /\ Stutters
  <1>1. pc' = [pc EXCEPT ![p] = "idle"] /\ resume' = [resume EXCEPT ![p] = "idle"]
    BY DEF Return, Goto
  <1>2. pc \in [Procs -> Pcs] /\ resume \in [Procs -> {"idle", "check", "ack", "raw"}]
    BY DEF AllInv, LockInv, TypeInv, TypeOK, ProcTypeOK
  <1>3. Quiet(p)
    BY <1>1, <1>2 DEF Return, Quiet, tableVars, AllInv, TypeInv, TypeOK, ProcTypeOK
  <1>4. SubmitterOK(p)'
    BY <1>1, <1>2 DEF SubmitterOK, SubmitPc, ReconPc
  <1>5. SweeperOK(p)'
    BY <1>1, <1>2 DEF SweeperOK, SweepPc, Reading
  <1> QED
    BY <1>3, <1>4, <1>5, QuietStep

-----------------------------------------------------------------------------
(***************************************************************************)
(* Requests that submit.                                                   *)
(***************************************************************************)
LEMMA SubmitterFacts ==
    ASSUME AllInv, SweepsAlone, NEW p \in Submitters
    PROVE  /\ p \in Procs /\ p \notin Sweepers /\ p \notin Flushers
           /\ pc[p] \in Pcs /\ SubmitterOK(p)
           /\ pc \in [Procs -> Pcs] /\ resume \in [Procs -> {"idle", "check", "ack", "raw"}]
           /\ ans \in [Procs -> Answers \cup {None}]
           /\ mem \in [Procs -> SessionState \cup {None}]
           /\ batch \in [Procs -> Seq(Answers)]
  BY ProcessAssumption
  DEF AllInv, LockInv, TypeInv, TypeOK, ProcTypeOK, OutcomeInv, Procs

LEMMA LoadStep ==
    ASSUME AllInv, SweepsAlone, NEW p \in Submitters, NEW a \in Answers,
           SubmitLoad(p, a)
    PROVE  OutcomeInv' /\ Stutters
  <1> USE SubmitterFacts
  <1>1. Quiet(p)
    BY DEF SubmitLoad, Goto, Quiet, tableVars, bufferVars
  <1>2. pc[p] = "idle" /\ UNCHANGED <<sess, row>> /\ resume[p] # "raw"
    BY DEF SubmitLoad, tableVars, bufferVars, SubmitterOK
  <1>3. CASE sess # None /\ InOrder(sess, a) /\ Goto(p, "append")
             /\ ans' = [ans EXCEPT ![p] = a] /\ UNCHANGED resume
    <2>1. pc'[p] = "append" /\ ans'[p] = a
      BY <1>3 DEF Goto
    <2>2. sess \in SessionState
      BY <1>3 DEF AllInv, TypeInv, TypeOK, BufferTypeOK
    <2>3. sess.idx \in Nat /\ sess.order \in Seq(Items) /\ Len(sess.order) \in Nat
      BY <2>2, LenProperties DEF SessionState
    <2>4. sess.idx < Len(sess.order) /\ ItemOf[a] = sess.order[sess.idx + 1]
      BY <1>3, <2>3 DEF InOrder, IsComplete, NextItem
    <2>5. SubmitterOK(p)'
      BY <1>2, <1>3, <2>1, <2>4 DEF SubmitterOK, SubmitPc, ReconPc
    <2> QED
      BY <1>1, <2>5, QuietStep
  <1>4. CASE UNCHANGED <<pc, ans, resume>>
    <2>1. SubmitterOK(p)'
      BY <1>2, <1>4 DEF SubmitterOK, SubmitPc, ReconPc
    <2> QED
      BY <1>1, <2>1, QuietStep
  <1>5. CASE sess = None /\ Goto(p, "reconRead")
             /\ resume' = [resume EXCEPT ![p] = "check"]
    <2>1. pc'[p] = "reconRead" /\ resume'[p] = "check"
      BY <1>5 DEF Goto
    <2>2. row.ended
      BY <1>5 DEF AllInv, OutcomeInv, OpenOK
    <2>3. SubmitterOK(p)'
      BY <1>2, <2>1, <2>2 DEF SubmitterOK, SubmitPc, ReconPc
    <2> QED
      BY <1>1, <2>3, QuietStep
  <1> QED
    BY <1>3, <1>4, <1>5 DEF SubmitLoad

\* The script takes the answer: the next item's, so of no item in the list.
LEMMA TakeStep ==
    ASSUME AllInv, SweepsAlone, NEW p \in Submitters, pc[p] = "append",
           AppendAccepted(ans[p]), Return(p), UNCHANGED tableVars
    PROVE  OutcomeInv' /\ [Outcome!Next]_Outcome!vars
  <1> DEFINE a == ans[p]
  <1> USE SubmitterFacts
  <1>1. CASE row.ended
    BY <1>1, ReturnQuiet DEF Stutters
  <1>2. CASE ~row.ended
    <2>1. /\ sess \in SessionState /\ sess.order \in Batches
          /\ sess.idx = Len(raw) /\ Len(raw) <= Len(sess.order)
          /\ \A k \in 1..Len(raw) : ItemOf[raw[k]] = sess.order[k]
          /\ row.status = "in_progress" /\ row.reviewed = 0
      BY <1>2 DEF AllInv, OutcomeInv, OpenOK, TypeInv, TypeOK, BufferTypeOK
    <2>2. raw \in Seq(Answers) /\ a \in Answers
      BY DEF AllInv, TypeInv, TypeOK, BufferTypeOK, LocalOK
    <2>3. Len(raw) \in Nat /\ Len(sess.order) \in Nat /\ sess.order \in Seq(Items)
      BY <2>1, <2>2, LenProperties DEF SessionState
    <2>4. Len(raw) < Len(sess.order) /\ ItemOf[a] = sess.order[Len(raw) + 1]
      BY <1>2, <2>1 DEF SubmitterOK
    <2>5. Len(sess.order) <= MaxRawEvents
      BY <2>1 DEF SweepsAlone
    <2>6. Append(raw, a) \in Seq(Answers) /\ Len(Append(raw, a)) = Len(raw) + 1
          /\ Append(raw, a)[Len(raw) + 1] = a
          /\ \A k \in 1..Len(raw) : Append(raw, a)[k] = raw[k]
      BY <2>2, AppendProperties
    <2>7. raw' = Append(raw, a)
      BY <2>3, <2>4, <2>5, <2>6, BufferAssumption DEF AppendAccepted, Trim
    <2>8. sess' = [sess EXCEPT !.idx = @ + 1]
      BY DEF AppendAccepted
    <2>9. sess' \in SessionState /\ sess'.idx = Len(raw) + 1 /\ sess'.order = sess.order
          /\ sess' # None
      <3>1. sess' \in SessionState
        BY <2>1, <2>8 DEF SessionState
      <3>2. sess'.idx = Len(raw) + 1 /\ sess'.order = sess.order
        BY <2>1, <2>8 DEF SessionState
      <3> QED
        BY <3>1, <3>2, NoneIsNoState
    <2>10. row' = row /\ applied' = applied /\ pending' = pending
      BY DEF tableVars
    <2> HIDE DEF a
    <2>11. \A b : Begins(b) /\ Len(b) \in Nat => Len(b) <= Len(raw') /\ \A k \in 1..Len(b) : b[k] = raw'[k]
      BY <2>3, <2>6, <2>7 DEF Begins
    <2>12. pending # None => Len(pending.raw) \in Nat
      BY LenProperties DEF AllInv, TypeInv, TypeOK, TablesTypeOK, Pending
    <2>13. \A q \in Sweepers : Len(batch[q]) \in Nat
      BY LenProperties DEF Procs
    <2>14. OpenOK'
      <3>1. \A k \in 1..Len(raw') : ItemOf[raw'[k]] = sess'.order[k]
        BY <2>1, <2>3, <2>4, <2>6, <2>7, <2>9
      <3>2. pending' # None => Begins(pending.raw)'
        BY <1>2, <2>10, <2>11, <2>12 DEF AllInv, OutcomeInv, OpenOK, Begins
      <3>3. (\A x \in Answers : applied[x] = 0)'
        BY <1>2, <2>10 DEF AllInv, OutcomeInv, OpenOK
      <3> QED
        BY <2>1, <2>3, <2>4, <2>6, <2>7, <2>9, <2>10, <3>1, <3>2, <3>3 DEF OpenOK
    <2>15. ClosedOK'
      BY <2>10 DEF AllInv, OutcomeInv, ClosedOK, CheckpointKept, AppliedAtMostOnce
    <2>16. ASSUME NEW q \in Submitters PROVE SubmitterOK(q)'
      <3>1. q = p
        BY DEF SweepsAlone
      <3>2. pc'[p] = "idle" /\ resume'[p] = "idle"
        BY DEF Return, Goto
      <3> QED
        BY <3>1, <3>2 DEF SubmitterOK, SubmitPc, ReconPc
    <2>17. ASSUME NEW q \in Sweepers PROVE SweeperOK(q)'
      <3>1. q \in Procs /\ q # p /\ SweeperOK(q)
        BY DEF Procs, AllInv, OutcomeInv
      <3>2. pc'[q] = pc[q] /\ mem'[q] = mem[q] /\ batch'[q] = batch[q]
        BY <3>1 DEF Return, Goto
      <3>3. Begins(batch[q]) => Begins(batch[q])'
        BY <2>11, <2>13, <3>2 DEF Begins
      <3> QED
        BY <2>9, <2>10, <3>1, <3>2, <3>3 DEF SweeperOK, Reading
    <2>18. Outcome!Take(a)
      <3>1. \A j, k \in 1..Len(sess.order) :
                sess.order[j] = sess.order[k] => j = k
        BY <2>1 DEF SweepsAlone
      <3>2. \A k \in 1..Len(raw) : ItemOf[raw[k]] # ItemOf[a]
        <4> SUFFICES ASSUME NEW k \in 1..Len(raw), ItemOf[raw[k]] = ItemOf[a]
                     PROVE  FALSE
          OBVIOUS
        <4>1. k \in 1..Len(sess.order) /\ Len(raw) + 1 \in 1..Len(sess.order)
              /\ k # Len(raw) + 1
          BY <2>3, <2>4
        <4>2. sess.order[k] = sess.order[Len(raw) + 1]
          BY <2>1, <2>4
        <4> QED
          BY <3>1, <4>1, <4>2
      <3> QED
        BY <1>2, <2>1, <2>7, <2>10, <3>2 DEF Outcome!Take, Outcome!InProgress
    <2> QED
      BY <2>2, <2>14, <2>15, <2>16, <2>17, <2>18 DEF OutcomeInv, Outcome!Next
  <1> QED
    BY <1>1, <1>2

LEMMA AppendStep ==
    ASSUME AllInv, SweepsAlone, NEW p \in Submitters,
           SubmitAppend(p) \/ SubmitReload(p)
    PROVE  OutcomeInv' /\ [Outcome!Next]_Outcome!vars
  <1> USE SubmitterFacts
  <1>1. UNCHANGED tableVars
    BY DEF SubmitAppend, SubmitReload
  <1>2. CASE SubmitAppend(p) /\ AppendAccepted(ans[p]) /\ Return(p)
    BY <1>1, <1>2, TakeStep DEF SubmitAppend
  <1>3. CASE SubmitReload(p) /\ Return(p)
    BY <1>1, <1>3, ReturnQuiet DEF SubmitReload, bufferVars, Stutters
  <1>4. CASE SubmitAppend(p) /\ Goto(p, "reload")
             /\ UNCHANGED <<resume, ans, mem, batch, bufferVars>>
    <2>1. Quiet(p)
      BY <1>1, <1>4 DEF Goto, Quiet, tableVars, bufferVars
    <2>2. pc'[p] = "reload" /\ resume'[p] # "raw"
      BY <1>4 DEF Goto, SubmitterOK
    <2>3. SubmitterOK(p)'
      BY <2>2 DEF SubmitterOK, SubmitPc, ReconPc
    <2> QED
      BY <2>1, <2>3, QuietStep DEF Stutters
  <1>5. CASE sess = None /\ Goto(p, "reconRead")
             /\ resume' = [resume EXCEPT ![p] = "ack"]
             /\ UNCHANGED <<ans, mem, batch, bufferVars>>
    <2>1. Quiet(p)
      BY <1>1, <1>5 DEF Goto, Quiet, tableVars, bufferVars
    <2>2. pc'[p] = "reconRead" /\ resume'[p] # "raw"
      BY <1>5 DEF Goto
    <2>3. row'.ended
      BY <1>1, <1>5 DEF AllInv, OutcomeInv, OpenOK, tableVars
    <2>4. SubmitterOK(p)'
      BY <2>2, <2>3 DEF SubmitterOK, SubmitPc, ReconPc
    <2> QED
      BY <2>1, <2>4, QuietStep DEF Stutters
  <1> QED
    BY <1>2, <1>3, <1>4, <1>5 DEF SubmitAppend, SubmitReload, AppendMiss

LEMMA ReconstructStep ==
    ASSUME AllInv, SweepsAlone, NEW p \in Submitters, Reconstruct(p)
    PROVE  OutcomeInv' /\ Stutters
  <1> USE SubmitterFacts
  <1>1. row.ended /\ UNCHANGED tableVars
    BY DEF Reconstruct, ReconstructRead, ReconstructSave, ReconstructActivate,
           Step, SubmitterOK, ReconPc
  <1>2. CASE Return(p)
    BY <1>1, <1>2, ReturnQuiet
  <1>3. CASE /\ \E to \in {"reconSave", "reconActive", "append"} : Goto(p, to)
             /\ resume' = resume \/ resume' = [resume EXCEPT ![p] = "idle"]
             /\ mem' = mem \/ \E x : mem' = [mem EXCEPT ![p] = x]
             /\ UNCHANGED <<ans, batch>>
    <2>1. Quiet(p)
      BY <1>1, <1>3 DEF Goto, Quiet, tableVars
    <2>2. pc'[p] \in {"reconSave", "reconActive", "append"} /\ resume'[p] # "raw"
      BY <1>3 DEF Goto, SubmitterOK
    <2>3. SubmitterOK(p)'
      BY <1>1, <2>2 DEF SubmitterOK, SubmitPc, ReconPc, tableVars
    <2> QED
      BY <2>1, <2>3, QuietStep
  <1>4. CASE ReconstructRead(p)
    BY <1>2, <1>3, <1>4 DEF ReconstructRead
  <1>5. CASE ReconstructSave(p)
    BY <1>3, <1>5 DEF ReconstructSave, Step
  <1>6. CASE ReconstructActivate(p)
    BY <1>2, <1>3, <1>6 DEF ReconstructActivate, SubmitterOK
  <1> QED
    BY <1>4, <1>5, <1>6 DEF Reconstruct

-----------------------------------------------------------------------------
(***************************************************************************)
(* Sweeps.                                                                 *)
(***************************************************************************)
LEMMA SweeperFacts ==
    ASSUME AllInv, SweepsAlone, NEW p \in Sweepers
    PROVE  /\ p \in Procs /\ p \notin Submitters
           /\ SweeperOK(p)
           /\ pc \in [Procs -> Pcs] /\ resume \in [Procs -> {"idle", "check", "ack", "raw"}]
           /\ ans \in [Procs -> Answers \cup {None}]
           /\ mem \in [Procs -> SessionState \cup {None}]
           /\ batch \in [Procs -> Seq(Answers)]
           /\ target \in [Procs -> Closed]
  BY ProcessAssumption
  DEF AllInv, LockInv, TypeInv, TypeOK, ProcTypeOK, OutcomeInv, Procs

\* Steps that only move on.
LEMMA SweepMoves ==
    ASSUME AllInv, SweepsAlone, NEW p \in Sweepers,
           NEW to \in {"lock", "row", "load", "mark", "sweepClear", "unlock"},
           Goto(p, to), UNCHANGED <<resume, ans, mem, batch, row, applied>>,
           to = "load" => ~row.ended,
           row.ended \/ (sess' = sess /\ raw' = raw),
           pending' = pending \/ MarkRecovered
    PROVE  OutcomeInv' /\ Stutters
  <1> USE SweeperFacts
  <1>1. pending' = pending \/ (pending # None /\ pending' # None
                               /\ pending'.raw = pending.raw)
    <2>1. CASE pending # None /\ pending' = [pending EXCEPT !.recovered = TRUE]
      <3>1. pending \in Pending
        BY <2>1 DEF AllInv, TypeInv, TypeOK, TablesTypeOK
      <3>2. pending' \in Pending /\ pending'.raw = pending.raw
        BY <2>1, <3>1 DEF Pending
      <3> QED
        BY <2>1, <3>2, NoneIsNoPending
    <2> QED
      BY <2>1 DEF MarkRecovered
  <1>2. Quiet(p)
    BY <1>1 DEF Goto, Quiet
  <1>3. pc'[p] = to
    BY DEF Goto
  <1>4. SweeperOK(p)'
    BY <1>3 DEF SweeperOK, SweepPc, Reading
  <1> QED
    BY <1>2, <1>4, QuietStep

LEMMA SweepMovesOn ==
    ASSUME AllInv, SweepsAlone, NEW p \in Sweepers,
           \/ SweepSelect(p) \/ SweepLock(p) \/ SweepRow(p)
           \/ SweepDelete(p) \/ SweepClear(p) \/ SweepMark(p) \/ Unlock(p)
    PROVE  OutcomeInv' /\ Stutters
  <1> USE SweeperFacts
  <1>1. CASE SweepSelect(p)
    BY <1>1, SweepMoves DEF SweepSelect, Step, bufferVars, tableVars
  <1>2. CASE SweepLock(p)
    <2>1. CASE Return(p)
      BY <1>2, <2>1, ReturnQuiet DEF SweepLock, TakeLock, AcquireFlushLock, bufferVars
    <2>2. CASE AcquireFlushLock /\ Goto(p, "row") /\ UNCHANGED <<resume, ans, mem, batch>>
      BY <1>2, <2>2, SweepMoves DEF SweepLock, TakeLock, AcquireFlushLock, tableVars
    <2> QED
      BY <1>2, <2>1, <2>2 DEF SweepLock, TakeLock
  <1>3. CASE SweepRow(p)
    BY <1>3, SweepMoves DEF SweepRow, Step, bufferVars, tableVars
  <1>4. CASE SweepDelete(p)
    <2>1. row.ended /\ pc[p] = "delete"
      BY <1>4 DEF SweepDelete, DropBuffer, SweeperOK
    <2>2. Goto(p, "sweepClear")
      BY <1>4 DEF SweepDelete, DropBuffer, SweepsAlone
    <2> QED
      BY <1>4, <2>1, <2>2, SweepMoves DEF SweepDelete, DropBuffer, tableVars
  <1>5. CASE SweepClear(p)
    BY <1>5, SweepMoves DEF SweepClear, Step, ClearActive, tableVars
  <1>6. CASE SweepMark(p)
    BY <1>6, SweepMoves DEF SweepMark, Step, MarkRecovered, bufferVars
  <1>7. CASE Unlock(p)
    BY <1>7, ReturnQuiet DEF Unlock, ReleaseFlushLock
  <1> QED
    BY <1>1, <1>2, <1>3, <1>4, <1>5, <1>6, <1>7

\* What a sweeper that works on the session knows.
LEMMA ReadingFacts ==
    ASSUME AllInv, SweepsAlone, NEW p \in Sweepers, pc[p] \in Reading
    PROVE  /\ ~row.ended
           /\ row.status = "in_progress" /\ row.reviewed = 0
           /\ \A a \in Answers : applied[a] = 0
           /\ raw \in Seq(Answers) /\ Len(raw) \in Nat
           /\ sess \in SessionState /\ sess.order \in Batches
           /\ sess.order \in Seq(Items) /\ Len(sess.order) \in Nat
           /\ Len(raw) <= Len(sess.order)
           /\ \A k \in 1..Len(raw) : ItemOf[raw[k]] = sess.order[k]
           /\ pending # None => Begins(pending.raw) /\ Len(pending.raw) \in Nat
           /\ \A q \in Sweepers \ {p} : pc[q] \notin Reading \cup {"delete"}
  <1> USE SweeperFacts
  <1>1. ~row.ended
    BY DEF SweeperOK
  <1>2. sess \in SessionState /\ raw \in Seq(Answers)
    BY <1>1 DEF AllInv, OutcomeInv, OpenOK, TypeInv, TypeOK, BufferTypeOK
  <1>3. sess.order \in Seq(Items)
    BY <1>2 DEF SessionState
  <1>4. pending # None => Len(pending.raw) \in Nat
    BY LenProperties DEF AllInv, TypeInv, TypeOK, TablesTypeOK, Pending
  <1>5. \A q \in Sweepers \ {p} : pc[q] \notin Reading \cup {"delete"}
    BY DEF AllInv, LockInv, OneFlusher, InCritical, CriticalPc, Reading
  <1> QED
    BY <1>1, <1>2, <1>3, <1>4, <1>5, LenProperties DEF AllInv, OutcomeInv, OpenOK

LEMMA SweepReads ==
    ASSUME AllInv, SweepsAlone, NEW p \in Sweepers,
           SweepLoad(p) \/ SweepReadRaw(p)
    PROVE  OutcomeInv' /\ Stutters
  <1> USE SweeperFacts
  <1>1. pc[p] \in {"load", "raw"} /\ UNCHANGED <<sess, raw, row, applied, pending>>
    BY DEF SweepLoad, SweepReadRaw, bufferVars, tableVars
  <1>2. Quiet(p)
    BY <1>1 DEF SweepLoad, SweepReadRaw, Goto, Quiet
  <1>3. /\ ~row.ended /\ sess \in SessionState /\ Len(raw) \in Nat
        /\ pending # None => Len(pending.raw) <= Len(raw)
    BY <1>1, ReadingFacts DEF Reading, Begins
  <1>4. CASE SweepLoad(p)
    <2>1. pc'[p] = "raw" /\ mem'[p] = sess
      BY <1>4 DEF SweepLoad, Goto
    <2>2. SweeperOK(p)'
      BY <1>1, <1>3, <2>1, NoneIsNoState DEF SweeperOK, SweepPc, Reading
    <2> QED
      BY <1>2, <2>2, QuietStep
  <1>5. CASE SweepReadRaw(p)
    <2>1. pc[p] = "raw" /\ mem[p] # None /\ mem[p].order = sess.order /\ mem' = mem
      BY <1>5 DEF SweepReadRaw, SweeperOK, Reading
    <2>2. pc'[p] \in {"checkpoint", "commit"} /\ batch'[p] = raw
      BY <1>5, <2>1 DEF SweepReadRaw, Goto
    <2>3. Begins(batch[p])'
      BY <1>1, <1>3, <2>2 DEF Begins
    <2>4. SweeperOK(p)'
      BY <1>1, <1>3, <2>1, <2>2, <2>3 DEF SweeperOK, SweepPc, Reading
    <2> QED
      BY <1>2, <2>4, QuietStep
  <1> QED
    BY <1>4, <1>5

\* The checkpoint is what the sweeper has read.
LEMMA CheckpointStep ==
    ASSUME AllInv, SweepsAlone, NEW p \in Sweepers, SweepCheckpoint(p)
    PROVE  OutcomeInv' /\ Stutters
  <1> USE SweeperFacts
  <1>1. pc[p] = "checkpoint" /\ pc' = [pc EXCEPT ![p] = "commit"]
        /\ UNCHANGED <<sess, raw, row, applied, resume, ans, mem, batch>>
    BY DEF SweepCheckpoint, Step, Goto, SavePending, bufferVars
  <1>2. /\ ~row.ended /\ Len(raw) \in Nat
        /\ \A q \in Sweepers \ {p} : pc[q] \notin Reading \cup {"delete"}
    BY <1>1, ReadingFacts DEF Reading
  <1>3. Begins(batch[p]) /\ mem[p] # None /\ mem[p].order = sess.order
        /\ batch[p] \in Seq(Answers) /\ Len(batch[p]) \in Nat
    BY <1>1, LenProperties DEF SweeperOK, Reading
  <1>4. pending'.raw = batch[p]
    BY DEF SweepCheckpoint, SavePending
  <1>5. OpenOK'
    <2>1. Begins(pending.raw)'
      BY <1>1, <1>3, <1>4 DEF Begins
    <2> QED
      BY <1>1, <1>2, <2>1 DEF OpenOK, AllInv, OutcomeInv
  <1>6. ClosedOK'
    BY <1>1, <1>2 DEF ClosedOK, CheckpointKept, AppliedAtMostOnce, AllInv, OutcomeInv
  <1>7. ASSUME NEW q \in Submitters PROVE SubmitterOK(q)'
    <2>1. q \in Procs /\ q # p /\ SubmitterOK(q)
      BY DEF Procs, AllInv, OutcomeInv
    <2> QED
      BY <1>1, <2>1 DEF SubmitterOK
  <1>8. ASSUME NEW q \in Sweepers PROVE SweeperOK(q)'
    <2>1. CASE q = p
      <3>1. pc'[p] = "commit"
        BY <1>1
      <3>2. Begins(batch[p])'
        BY <1>1, <1>3 DEF Begins
      <3>3. pending' # None => Len(pending'.raw) <= Len(batch'[p])
        BY <1>1, <1>3, <1>4
      <3> QED
        BY <1>1, <1>2, <1>3, <2>1, <3>1, <3>2, <3>3 DEF SweeperOK, SweepPc, Reading
    <2>2. CASE q # p
      <3>1. q \in Procs /\ SweeperOK(q) /\ pc[q] \notin Reading \cup {"delete"}
        BY <1>2, <2>2 DEF Procs, AllInv, OutcomeInv
      <3>2. pc'[q] = pc[q]
        BY <1>1, <2>2, <3>1
      <3> QED
        BY <3>1, <3>2 DEF SweeperOK, Reading
    <2> QED
      BY <2>1, <2>2
  <1>9. Stutters
    BY <1>1 DEF Stutters, Outcome!vars
  <1> QED
    BY <1>5, <1>6, <1>7, <1>8, <1>9 DEF OutcomeInv

\* No answer is twice in what the transaction gets, so it counts each once.
LEMMA CountOnce ==
    ASSUME NEW b \in Seq(Answers), NEW a \in Answers,
           \A j, k \in 1..Len(b) : b[j] = b[k] => j = k
    PROVE  Cardinality({k \in 1..Len(b) : b[k] = a})
             = IF a \in ToSet(b) THEN 1 ELSE 0
  <1> DEFINE at == {k \in 1..Len(b) : b[k] = a}
  <1>1. Len(b) \in Nat /\ DOMAIN b = 1..Len(b)
    BY LenProperties
  <1>2. CASE a \in ToSet(b)
    <2>1. PICK k \in 1..Len(b) : b[k] = a
      BY <1>1, <1>2 DEF ToSet
    <2>2. at = {k}
      BY <2>1
    <2>3. Cardinality({k}) = 1
      BY FS_Singleton
    <2> QED
      BY <1>2, <2>2, <2>3
  <1>3. CASE a \notin ToSet(b)
    <2>1. at = {}
      BY <1>1, <1>3 DEF ToSet
    <2> QED
      BY <1>3, <2>1, FS_EmptySet
  <1> QED
    BY <1>2, <1>3

\* The transaction closes the session with the answers read, each once.
LEMMA FinaliseCounts ==
    ASSUME AllInv, SweepsAlone, NEW p \in Sweepers, pc[p] = "commit",
           FinaliseBatch(mem[p], batch[p], target[p])
    PROVE  /\ row' = [status |-> target[p], ended |-> TRUE,
                      reviewed |-> Len(batch[p])]
           /\ applied' = [a \in Answers |-> IF a \in ToSet(batch[p]) THEN 1 ELSE 0]
           /\ pending' = pending
  <1> DEFINE b == batch[p]
  <1> USE SweeperFacts
  <1>1. /\ row.reviewed = 0 /\ row \in Row
        /\ applied \in [Answers -> Nat] /\ \A a \in Answers : applied[a] = 0
        /\ Len(raw) \in Nat /\ Len(sess.order) \in Nat /\ Len(raw) <= Len(sess.order)
        /\ sess.order \in Batches
        /\ \A k \in 1..Len(raw) : ItemOf[raw[k]] = sess.order[k]
    BY ReadingFacts DEF Reading, AllInv, TypeInv, TypeOK, TablesTypeOK
  <1>2. b \in Seq(Answers) /\ Len(b) \in Nat /\ Begins(b) /\ mem[p].order = sess.order
    BY LenProperties DEF SweeperOK, Reading
  <1>3. CASE b = <<>>
    <2>1. CloseEmpty(target[p])
      BY <1>3 DEF FinaliseBatch
    <2>2. ToSet(b) = {} /\ Len(b) = 0
      BY <1>3 DEF ToSet
    <2>3. row' = [status |-> target[p], ended |-> TRUE, reviewed |-> 0]
      BY <1>1, <2>1 DEF CloseEmpty, Row
    <2>4. applied = [a \in Answers |-> 0]
      BY <1>1
    <2> QED
      BY <2>1, <2>2, <2>3, <2>4 DEF CloseEmpty
  <1>4. CASE b # <<>>
    <2>1. Truncated(mem[p], b) = b
      BY <1>1, <1>2 DEF Truncated, Begins
    <2>2. CloseWith(b, target[p])
      BY <1>4, <2>1 DEF FinaliseBatch
    <2>3. \A j, k \in 1..Len(sess.order) : sess.order[j] = sess.order[k] => j = k
      BY <1>1 DEF SweepsAlone
    <2>4. ASSUME NEW j \in 1..Len(b), NEW k \in 1..Len(b), b[j] = b[k]
          PROVE  j = k
      <3>1. j \in 1..Len(raw) /\ k \in 1..Len(raw) /\ raw[j] = raw[k]
        BY <1>1, <1>2, <2>4 DEF Begins
      <3>2. sess.order[j] = sess.order[k]
        BY <1>1, <3>1
      <3>3. j \in 1..Len(sess.order) /\ k \in 1..Len(sess.order)
        BY <1>1, <3>1
      <3> QED
        BY <2>3, <3>2, <3>3
    <2>5. \A a \in Answers : Cardinality({k \in 1..Len(b) : b[k] = a})
                               = IF a \in ToSet(b) THEN 1 ELSE 0
      BY <1>2, <2>4, CountOnce
    <2>6. \A a \in Answers :
            applied[a] + Cardinality({k \in 1..Len(b) : b[k] = a})
              = IF a \in ToSet(b) THEN 1 ELSE 0
      <3>1. \A a \in Answers : applied[a] = 0
        BY <1>1
      <3> HIDE SweeperFacts
      <3> QED
        BY <2>5, <3>1
    <2> HIDE DEF b
    <2>7. applied' = [a \in Answers |->
                        applied[a] + Cardinality({k \in 1..Len(b) : b[k] = a})]
          /\ row' = [status |-> target[p], ended |-> TRUE, reviewed |-> Len(b)]
          /\ pending' = pending
      BY <2>2 DEF CloseWith
    <2>8. applied' = [a \in Answers |-> IF a \in ToSet(b) THEN 1 ELSE 0]
      BY <2>6, <2>7
    <2> QED
      BY <2>7, <2>8 DEF b
  <1> QED
    BY <1>3, <1>4

LEMMA CommitStep ==
    ASSUME AllInv, SweepsAlone, NEW p \in Sweepers, Commit(p)
    PROVE  OutcomeInv' /\ [Outcome!Next]_Outcome!vars
  <1> DEFINE b == batch[p]
  <1> USE SweeperFacts
  <1>1. pc[p] = "commit" /\ UNCHANGED <<resume, ans, mem, batch, sess, raw>>
    BY DEF Commit, bufferVars
  <1>2. /\ ~row.ended /\ row.status = "in_progress" /\ row.reviewed = 0
        /\ raw \in Seq(Answers) /\ Len(raw) \in Nat
        /\ pending # None => Begins(pending.raw) /\ Len(pending.raw) \in Nat
        /\ \A q \in Sweepers \ {p} : pc[q] \notin Reading \cup {"delete"}
    BY <1>1, ReadingFacts DEF Reading
  <1>3. /\ b \in Seq(Answers) /\ Len(b) \in Nat /\ Begins(b)
        /\ pending # None => Len(pending.raw) <= Len(b)
    BY <1>1, LenProperties DEF SweeperOK
  <1>4. CASE Goto(p, "unlock") /\ UNCHANGED tableVars
    BY <1>1, <1>4, SweepMoves DEF tableVars, Stutters
  <1>5. CASE FinaliseBatch(mem[p], batch[p], target[p]) /\ Goto(p, "delete")
    <2>1. /\ row' = [status |-> target[p], ended |-> TRUE, reviewed |-> Len(b)]
          /\ applied' = [a \in Answers |-> IF a \in ToSet(b) THEN 1 ELSE 0]
          /\ pending' = pending
      BY <1>1, <1>5, FinaliseCounts
    <2>2. DOMAIN b = 1..Len(b) /\ \A a \in ToSet(b) : a \in Answers /\ applied'[a] = 1
      BY <1>3, <2>1, LenProperties, ElementOfSeq DEF ToSet
    <2> HIDE DEF b
    <2>3. OpenOK'
      BY <2>1 DEF OpenOK
    <2>4. CheckpointKept'
      <3>1. ASSUME pending # None, NEW a \in ToSet(pending.raw) PROVE a \in ToSet(b)
        <4>1. pending.raw \in Seq(Answers)
          BY <3>1 DEF AllInv, TypeInv, TypeOK, TablesTypeOK, Pending
        <4>2. PICK k \in 1..Len(pending.raw) : pending.raw[k] = a
          BY <3>1, <4>1, LenProperties DEF ToSet
        <4>3. k \in 1..Len(b) /\ b[k] = a
          BY <1>2, <1>3, <3>1, <4>2 DEF Begins
        <4> QED
          BY <2>2, <4>3 DEF ToSet
      <3> QED
        BY <2>1, <2>2, <3>1 DEF CheckpointKept
    <2>5. AppliedAtMostOnce'
      BY <2>1 DEF AppliedAtMostOnce
    <2>6. ASSUME NEW q \in Submitters PROVE SubmitterOK(q)'
      <3>1. q \in Procs /\ q # p /\ SubmitterOK(q)
        BY DEF Procs, AllInv, OutcomeInv
      <3> QED
        BY <1>1, <1>5, <2>1, <3>1 DEF SubmitterOK, Goto
    <2>7. ASSUME NEW q \in Sweepers PROVE SweeperOK(q)'
      <3>1. CASE q = p
        <4>1. pc'[p] = "delete" /\ batch'[p] = b
          BY <1>1, <1>5 DEF Goto, b
        <4>2. \A a \in ToSet(b) : applied'[a] >= 1
          BY <2>2
        <4> QED
          BY <2>1, <3>1, <4>1, <4>2 DEF SweeperOK, SweepPc, Reading
      <3>2. CASE q # p
        <4>1. q \in Procs /\ SweeperOK(q) /\ pc[q] \notin Reading \cup {"delete"}
          BY <1>2, <3>2 DEF Procs, AllInv, OutcomeInv
        <4>2. pc'[q] = pc[q]
          BY <1>5, <3>2, <4>1 DEF Goto
        <4> QED
          BY <4>1, <4>2 DEF SweeperOK, Reading
      <3> QED
        BY <3>1, <3>2
    <2>8. Outcome!CloseWith(Len(b))
      <3>1. ToSet(SubSeq(raw, 1, Len(b))) = ToSet(b)
        <4>1. /\ SubSeq(raw, 1, Len(b)) \in Seq(Answers)
              /\ Len(SubSeq(raw, 1, Len(b))) = Len(b)
              /\ \A k \in 1..Len(b) : SubSeq(raw, 1, Len(b))[k] = raw[k]
          BY <1>2, <1>3, SubSeqProperties DEF Begins
        <4> DEFINE first == SubSeq(raw, 1, Len(b))
        <4>2. DOMAIN first = 1..Len(b) /\ \A k \in 1..Len(b) : first[k] = b[k]
          BY <1>3, <4>1, LenProperties DEF Begins, b
        <4> HIDE DEF first
        <4>3. ToSet(first) = ToSet(b)
          BY <2>2, <4>2 DEF ToSet
        <4> QED
          BY <4>3 DEF first
      <3>2. target[p] \in {"completed", "abandoned"}
        BY DEF Closed
      <3>3. (IF row.ended THEN <<>> ELSE raw) = raw
            /\ (IF row'.ended THEN <<>> ELSE raw') = <<>>
        BY <1>2, <2>1
      <3>4. [status |-> row'.status, reviewed |-> row'.reviewed]
              \in [status : {"completed", "abandoned"}, reviewed : {Len(b)}]
        BY <2>1, <3>2
      <3>5. [status |-> row.status, reviewed |-> row.reviewed] = Outcome!InProgress
        BY <1>2 DEF Outcome!InProgress
      <3>6. applied' = [a \in Answers |->
                          IF a \in Outcome!ToSet(SubSeq(raw, 1, Len(b)))
                          THEN 1 ELSE 0]
        BY <2>1, <3>1 DEF ToSet, Outcome!ToSet
      <3> QED
        BY <3>3, <3>4, <3>5, <3>6 DEF Outcome!CloseWith
    <2>9. Len(b) \in 0..Len(raw)
      BY <1>2, <1>3 DEF Begins
    <2>10. Outcome!Next
      BY <1>2, <2>8, <2>9 DEF Outcome!Next
    <2> QED
      BY <2>3, <2>4, <2>5, <2>6, <2>7, <2>10 DEF OutcomeInv, ClosedOK
  <1> QED
    BY <1>4, <1>5 DEF Commit

LEMMA SweepStepOut ==
    ASSUME AllInv, SweepsAlone, NEW p \in Sweepers,
           SweepSelect(p) \/ SweepLock(p) \/ SweepStep(p)
    PROVE  OutcomeInv' /\ [Outcome!Next]_Outcome!vars
  <1>1. CASE \/ SweepSelect(p) \/ SweepLock(p) \/ SweepRow(p)
             \/ SweepDelete(p) \/ SweepClear(p) \/ SweepMark(p) \/ Unlock(p)
    BY <1>1, SweepMovesOn DEF Stutters
  <1>2. CASE SweepLoad(p) \/ SweepReadRaw(p)
    BY <1>2, SweepReads DEF Stutters
  <1>3. CASE SweepCheckpoint(p)
    BY <1>3, CheckpointStep DEF Stutters
  <1>4. CASE Commit(p)
    BY <1>4, CommitStep
  <1>5. ~SweepRecover(p)
    BY SweeperFacts DEF SweepRecover, SweeperOK, SweepPc
  <1> QED
    BY <1>1, <1>2, <1>3, <1>4, <1>5 DEF SweepStep

\* A crash takes the sweepers off the session, and what they have committed
\* stands; a lock that expires is nobody's.
LEMMA EventStep ==
    ASSUME AllInv, SweepsAlone, Crash \/ LockExpires \/ RedisLoses \/ DeleteSet
    PROVE  OutcomeInv' /\ Stutters
  <1>1. CASE Crash
    <2>1. /\ \A p \in Procs : pc'[p] = "idle" /\ resume'[p] = "idle"
          /\ UNCHANGED <<sess, raw, row, applied, pending>>
      BY <1>1 DEF Crash, bufferVars, tableVars
    <2>2. OpenOK' /\ ClosedOK'
      BY <2>1 DEF AllInv, OutcomeInv, OpenOK, ClosedOK, CheckpointKept,
                  AppliedAtMostOnce, Begins
    <2>3. \A p \in Submitters : SubmitterOK(p)'
      BY <2>1 DEF SubmitterOK, SubmitPc, ReconPc, Procs
    <2>4. \A p \in Sweepers : SweeperOK(p)'
      BY <2>1 DEF SweeperOK, SweepPc, Reading, Procs
    <2> QED
      BY <2>1, <2>2, <2>3, <2>4 DEF OutcomeInv, Stutters, Outcome!vars
  <1>2. CASE LockExpires
    <2>1. UNCHANGED <<pc, resume, ans, mem, batch, sess, raw, tableVars>>
      BY <1>2 DEF LockExpires, ReleaseFlushLock
    <2>2. OpenOK' /\ ClosedOK'
      BY <2>1 DEF AllInv, OutcomeInv, OpenOK, ClosedOK, CheckpointKept,
                  AppliedAtMostOnce, Begins, tableVars
    <2>3. \A p \in Submitters : SubmitterOK(p)'
      BY <2>1 DEF AllInv, OutcomeInv, SubmitterOK, tableVars
    <2>4. \A p \in Sweepers : SweeperOK(p)'
      BY <2>1 DEF AllInv, OutcomeInv, SweeperOK, Begins, tableVars
    <2> QED
      BY <2>1, <2>2, <2>3, <2>4 DEF OutcomeInv, Stutters, Outcome!vars, tableVars
  <1>3. ~RedisLoses /\ ~DeleteSet
    BY DEF SweepsAlone, RedisLoses, DeleteSet, Fault
  <1> QED
    BY <1>1, <1>2, <1>3

LEMMA OutcomeStep ==
    ASSUME AllInv, SweepsAlone, [Next]_vars
    PROVE  OutcomeInv' /\ [Outcome!Next]_Outcome!vars
  <1>1. CASE UNCHANGED vars
    <2>1. UNCHANGED <<pc, resume, ans, mem, batch, sess, raw, row, applied, pending>>
      BY <1>1 DEF vars, procVars, bufferVars, tableVars
    <2>2. OpenOK' /\ ClosedOK'
      BY <2>1 DEF AllInv, OutcomeInv, OpenOK, ClosedOK, CheckpointKept,
                  AppliedAtMostOnce, Begins
    <2>3. \A p \in Submitters : SubmitterOK(p)'
      BY <2>1 DEF AllInv, OutcomeInv, SubmitterOK
    <2>4. \A p \in Sweepers : SweeperOK(p)'
      BY <2>1 DEF AllInv, OutcomeInv, SweeperOK, Begins
    <2> QED
      BY <2>1, <2>2, <2>3, <2>4 DEF OutcomeInv, Outcome!vars
  <1>2. ASSUME NEW p \in Submitters, NEW a \in Answers, SubmitLoad(p, a)
        PROVE  OutcomeInv' /\ [Outcome!Next]_Outcome!vars
    BY <1>2, LoadStep DEF Stutters
  <1>3. ASSUME NEW p \in Submitters, SubmitStep(p)
        PROVE  OutcomeInv' /\ [Outcome!Next]_Outcome!vars
    BY <1>3, AppendStep DEF SubmitStep
  <1>4. ASSUME NEW p \in Submitters, Reconstruct(p)
        PROVE  OutcomeInv' /\ [Outcome!Next]_Outcome!vars
    BY <1>4, ReconstructStep DEF Stutters
  <1>5. \A p \in Submitters : ~ViewActive(p) /\ ~ResumeOnStart(p) /\ ~RefreshConfig(p)
    BY DEF SweepsAlone, ViewActive, ResumeOnStart, RefreshConfig
  <1>6. ASSUME NEW p \in Sweepers, SweepSelect(p) \/ SweepLock(p) \/ SweepStep(p)
        PROVE  OutcomeInv' /\ [Outcome!Next]_Outcome!vars
    BY <1>6, SweepStepOut
  <1>7. CASE Crash \/ LockExpires \/ RedisLoses \/ DeleteSet
    BY <1>7, EventStep DEF Stutters
  <1>8. Flushers = {}
    BY DEF SweepsAlone
  <1> QED
    BY <1>1, <1>2, <1>3, <1>4, <1>5, <1>6, <1>7, <1>8 DEF Next, SubmitRequest

\* With only the sweeper closing sessions, every state has the invariant, and
\* every step is one of the abstract session's or none.
LEMMA SweepsAloneInv ==
    ASSUME SweepsAlone
    PROVE  Spec => []OutcomeInv /\ KeepsOutcome
  <1>1. Init => AllInv /\ Outcome!Init
    BY OutcomeInit, TypeInvInit, LockInvInit DEF AllInv
  <1>2. AllInv /\ [Next]_vars => AllInv' /\ [Outcome!Next]_Outcome!vars
    <2> SUFFICES ASSUME AllInv, [Next]_vars
                 PROVE  AllInv' /\ [Outcome!Next]_Outcome!vars
      OBVIOUS
    <2>1. LockIsKept
      BY DEF SweepsAlone, LockIsKept
    <2>2. TypeInv'
      BY TypeInvStep DEF AllInv
    <2>3. LockInv'
      BY <2>1, LockInvStep DEF AllInv
    <2>4. OutcomeInv' /\ [Outcome!Next]_Outcome!vars
      BY OutcomeStep
    <2> QED
      BY <2>2, <2>3, <2>4 DEF AllInv
  <1>3. AllInv => OutcomeInv
    BY DEF AllInv
  <1> QED
    BY <1>1, <1>2, <1>3, PTL DEF Spec, KeepsOutcome, Outcome!Spec

(***************************************************************************)
(* What follows for a user whose session the sweeper closes, whatever      *)
(* crashes, failed flushes, retries and rival sweeps come between.         *)
(***************************************************************************)
\* It does what the abstract session does: it takes answers while it is open,
\* and is closed once, with each answer it closes with counted exactly once
\* (_flush_one, finalise_batch).
THEOREM SweepsKeepOutcome ==
    ASSUME SweepsAlone
    PROVE  Spec => KeepsOutcome
  BY SweepsAloneInv

\* The state and the list of events of an open session agree, item by item
\* (_APPEND_RAW_LUA).
THEOREM BufferAgrees ==
    ASSUME SweepsAlone
    PROVE  Spec => []StateMatchesBuffer
  <1>1. OutcomeInv => StateMatchesBuffer
    <2> SUFFICES ASSUME OutcomeInv, ~row.ended
                 PROVE  IndexCountsBuffer /\ BufferInOrder
      BY DEF StateMatchesBuffer
    <2>1. OpenOK
      BY DEF OutcomeInv
    <2> QED
      BY <2>1 DEF OpenOK, IndexCountsBuffer, BufferInOrder
  <1> QED
    BY <1>1, SweepsAloneInv, PTL

\* When the sweeper deletes the buffer, all it read is counted (_flush_one).
THEOREM SweptIsCounted ==
    ASSUME SweepsAlone
    PROVE  Spec => []SweptIsWritten
  <1>1. OutcomeInv => SweptIsWritten
    BY DEF OutcomeInv, SweeperOK, SweptIsWritten
  <1> QED
    BY <1>1, SweepsAloneInv, PTL

\* No answer is counted twice, and none that was checkpointed is lost
\* (save_pending_session).
THEOREM SweepsCountOnce ==
    ASSUME SweepsAlone
    PROVE  Spec => [](AppliedAtMostOnce /\ CheckpointKept)
  <1>1. OutcomeInv => AppliedAtMostOnce /\ CheckpointKept
    BY DEF OutcomeInv, ClosedOK
  <1> QED
    BY <1>1, SweepsAloneInv, PTL

-----------------------------------------------------------------------------
(***************************************************************************)
(* Counting beside flushes by the user: finalise and abandon requests, the *)
(* sweeper and any number of submitters at once, with crashes, failed      *)
(* transactions, reconstructions, evicted keys and the deletion of the set  *)
(* between them.                                                           *)
(***************************************************************************)
\* The flush lock is kept, a DEL that is tried is done, and clients do not send
\* an answer again; without each of these an answer can be counted twice.
CountedIsDropped ==
    Events \cap {"retry", "deleteError", "lockExpiry", "loseEverything"} = {}

Closers == Flushers \cup Sweepers

\* p has still to append its answer; q has read a batch it has yet to count.
WillAppend(p) == pc[p] = "append" \/ (pc[p] \in ReconPc /\ resume[p] = "check")
WillCount(q)  == pc[q] \in {"checkpoint", "commit"}

InPending(a) == pending # None /\ a \in ToSet(pending.raw)

\* Answer a is neither counted, nor buffered, nor about to be counted.
Untouched(a) ==
    /\ applied[a] = 0
    /\ a \notin ToSet(raw) /\ ~InPending(a)
    /\ \A q \in Closers : WillCount(q) => a \notin ToSet(batch[q])

NewOK ==
    \A a \in Answers : client[a] = "new" =>
        Untouched(a) /\ \A p \in Submitters : WillAppend(p) => ans[p] # a

\* An answer on its way into the buffer is on its way once.
CarriedOK ==
    \A p \in Submitters :
        /\ pc[p] \notin ReconPc => resume[p] = "idle"
        /\ WillAppend(p) =>
              /\ Untouched(ans[p])
              /\ \A q \in Submitters : WillAppend(q) /\ ans[q] = ans[p] => q = p

NoTwice(b) == \A j, k \in 1..Len(b) : b[j] = b[k] => j = k

BatchOK ==
    \A q \in Closers : WillCount(q) =>
        NoTwice(batch[q]) /\ \A a \in ToSet(batch[q]) : applied[a] = 0

\* The buffer holds answers that are counted: between the commit and the DEL
\* of a flush, or for good when the process stops there.
LeftOver == \E a \in ToSet(raw) : applied[a] >= 1

Flushing == ReconPc \cup {"load", "raw", "checkpoint", "recover", "commit"}

\* Nobody is to read them again: the row is closed, nobody is at work, and who
\* waits with an old row for the lock waits for the one who deletes them.
Settled ==
    /\ row.ended
    /\ \A q \in Closers : pc[q] \notin Flushing
    /\ (\E q \in Closers : pc[q] = "delete") \/ \A q \in Flushers : pc[q] # "lock"

RawOK == NoTwice(raw) /\ (LeftOver => Settled)

\* The checkpoint holds answers that are counted.  No sweeper is to recover
\* them: it looks at the row under the lock.
PendingCounted == \E a \in Answers : InPending(a) /\ applied[a] >= 1

PendingOK ==
    /\ pending # None => NoTwice(pending.raw)
    /\ PendingCounted => row.ended /\ \A q \in Sweepers : pc[q] \notin Flushing

CloserOK ==
    /\ \A q \in Closers : pc[q] = "delete" => row.ended
    /\ \A q \in Sweepers : pc[q] \notin ReconPc

CountInv ==
    AppliedAtMostOnce /\ NewOK /\ CarriedOK /\ BatchOK /\ RawOK /\ PendingOK /\ CloserOK

CountAll == TypeInv /\ LockInv /\ CountInv

LEMMA CountInit == Init => CountInv
  <1> SUFFICES ASSUME Init PROVE CountInv
    OBVIOUS
  <1>3. ToSet(raw) = {} /\ Len(raw) = 0 /\ \A a : ~InPending(a)
    BY DEF Init, ToSet, InPending
  <1>4. \A p \in Procs : pc[p] = "idle" /\ resume[p] = "idle"
    BY DEF Init
  <1>5. \A a \in Answers : applied[a] = 0
    BY DEF Init
  <1>6. AppliedAtMostOnce /\ NewOK /\ CarriedOK
    BY <1>3, <1>4, <1>5
    DEF AppliedAtMostOnce, NewOK, CarriedOK, Untouched, WillAppend, WillCount,
        ReconPc, Procs, Closers
  <1>7. BatchOK /\ RawOK /\ CloserOK
    BY <1>3, <1>4
    DEF BatchOK, RawOK, CloserOK, NoTwice, LeftOver, WillCount, ReconPc, Procs, Closers
  <1>8. PendingOK
    BY <1>3 DEF PendingOK, PendingCounted, Init
  <1> QED
    BY <1>6, <1>7, <1>8 DEF CountInv

\* p moves alone.
Alone(p) ==
    \A q \in Procs \ {p} :
        /\ pc'[q] = pc[q] /\ resume'[q] = resume[q] /\ ans'[q] = ans[q]
        /\ batch'[q] = batch[q]

\* A step of p that counts nothing, buffers nothing and reads no batch.
Tame(p) ==
    /\ Alone(p)
    /\ applied' = applied /\ row'.ended = row.ended
    /\ raw' = raw \/ raw' = <<>>
    /\ \A a \in Answers : client'[a] = "new" => client[a] = "new"
    /\ p \in Submitters /\ WillAppend(p)' => WillAppend(p) /\ ans'[p] = ans[p]
    /\ WillCount(p)' => WillCount(p) /\ batch'[p] = batch[p]
    /\ pending' # None => pending # None /\ pending'.raw = pending.raw
    /\ p \in Submitters /\ pc'[p] \notin ReconPc => resume'[p] = "idle"
    /\ p \in Closers =>
          /\ pc'[p] = "delete" => row.ended
          /\ LeftOver => /\ pc'[p] \notin Flushing
                         /\ pc[p] = "delete" => raw' = <<>>
                         /\ pc'[p] = "lock" /\ p \in Flushers => pc[p] = "lock"
    /\ p \in Sweepers =>
          /\ pc'[p] \notin ReconPc
          /\ PendingCounted => pc'[p] \notin Flushing

LEMMA TameStep ==
    ASSUME CountAll, NEW p \in Procs, Tame(p)
    PROVE  CountInv'
  <1> USE DEF Procs, Closers
  <1>1. /\ \A q \in Submitters : WillAppend(q)' => WillAppend(q) /\ ans'[q] = ans[q]
        /\ \A q \in Closers : WillCount(q)' => WillCount(q) /\ batch'[q] = batch[q]
    <2>1. \A q \in Procs \ {p} :
             /\ WillAppend(q)' => WillAppend(q) /\ ans'[q] = ans[q]
             /\ WillCount(q)' => WillCount(q) /\ batch'[q] = batch[q]
      BY DEF Tame, Alone, WillAppend, WillCount
    <2> QED
      BY <2>1 DEF Tame
  <1>2. /\ ToSet(raw') \subseteq ToSet(raw) /\ applied' = applied
        /\ \A a : InPending(a)' => InPending(a)
    BY DEF Tame, ToSet, InPending
  <1>3. \A a : Untouched(a) => Untouched(a)'
    BY <1>1, <1>2 DEF Untouched
  <1>4. AppliedAtMostOnce'
    BY <1>2 DEF CountAll, CountInv, AppliedAtMostOnce
  <1>5. NewOK'
    BY <1>1, <1>3 DEF CountAll, CountInv, NewOK, Tame
  <1>6. CarriedOK'
    <2>1. ASSUME NEW q \in Submitters, pc'[q] \notin ReconPc PROVE resume'[q] = "idle"
      BY <2>1 DEF CountAll, CountInv, CarriedOK, Tame, Alone
    <2>2. ASSUME NEW q \in Submitters, WillAppend(q)'
          PROVE  Untouched(ans[q])' /\ \A o \in Submitters :
                     (WillAppend(o) /\ ans[o] = ans[q])' => o = q
      BY <1>1, <1>3, <2>2 DEF CountAll, CountInv, CarriedOK
    <2> QED
      BY <2>1, <2>2 DEF CarriedOK
  <1>7. BatchOK'
    BY <1>1, <1>2 DEF CountAll, CountInv, BatchOK
  <1>8. RawOK'
    <2>1. NoTwice(raw')
      BY DEF CountAll, CountInv, RawOK, NoTwice, Tame
    <2>2. ASSUME LeftOver' PROVE Settled'
      <3>1. raw' = raw /\ LeftOver /\ Settled
        BY <1>2, <2>2 DEF CountAll, CountInv, RawOK, LeftOver, Tame, ToSet
      <3>2. raw # <<>>
        BY <2>2, <3>1 DEF LeftOver, ToSet
      <3> QED
        BY <3>1, <3>2 DEF Settled, Tame, Alone
    <2> QED
      BY <2>1, <2>2 DEF RawOK
  <1>9. PendingOK'
    <2>1. pending' # None => NoTwice(pending'.raw)
      BY DEF CountAll, CountInv, PendingOK, Tame
    <2>2. ASSUME PendingCounted'
          PROVE  row'.ended /\ \A q \in Sweepers : pc'[q] \notin Flushing
      <3>1. PendingCounted
        BY <1>2, <2>2 DEF PendingCounted
      <3>2. row.ended /\ \A q \in Sweepers : pc[q] \notin Flushing
        BY <3>1 DEF CountAll, CountInv, PendingOK
      <3> QED
        BY <3>1, <3>2 DEF Tame, Alone
    <2> QED
      BY <2>1, <2>2 DEF PendingOK
  <1>10. CloserOK'
    <2>1. ASSUME NEW q \in Closers, pc'[q] = "delete" PROVE row'.ended
      BY <2>1 DEF CountAll, CountInv, CloserOK, Tame, Alone
    <2>2. ASSUME NEW q \in Sweepers PROVE pc'[q] \notin ReconPc
      BY DEF CountAll, CountInv, CloserOK, Tame, Alone
    <2> QED
      BY <2>1, <2>2 DEF CloserOK
  <1> QED
    BY <1>4, <1>5, <1>6, <1>7, <1>8, <1>9, <1>10 DEF CountInv

-----------------------------------------------------------------------------
LEMMA LocalFacts ==
    ASSUME CountAll, NEW p \in Procs
    PROVE  /\ pc \in [Procs -> Pcs] /\ resume \in [Procs -> {"idle", "check", "ack", "raw"}]
           /\ ans \in [Procs -> Answers \cup {None}]
           /\ mem \in [Procs -> SessionState \cup {None}]
           /\ batch \in [Procs -> Seq(Answers)]
           /\ target \in [Procs -> Closed]
           /\ client \in [Answers -> {"new", "sent", "acked"}]
           /\ raw \in Seq(Answers) /\ sess \in SessionState \cup {None}
           /\ p \in Submitters <=> p \notin Closers
           /\ p \in Sweepers <=> p \notin Submitters /\ p \notin Flushers
  BY ProcessAssumption
  DEF CountAll, LockInv, TypeInv, TypeOK, ProcTypeOK, BufferTypeOK, Procs, Closers

\* The end of a request or of a sweep.
LEMMA ReturnTame ==
    ASSUME CountAll, NEW p \in Procs, Return(p), UNCHANGED tableVars,
           raw' = raw, pc[p] # "delete",
           \A a \in Answers : client'[a] = "new" => client[a] = "new"
    PROVE  CountInv'
  <1> USE LocalFacts
  <1>1. pc'[p] = "idle" /\ resume'[p] = "idle" /\ Alone(p)
    BY DEF Return, Goto, Alone
  <1>2. Tame(p)
    BY <1>1 DEF Tame, tableVars, WillAppend, WillCount, ReconPc, Flushing
  <1> QED
    BY <1>2, TameStep

\* A GET that finds the answer in order takes it on its way.
LEMMA LoadCounts ==
    ASSUME CountAll, CountedIsDropped, NEW p \in Submitters, NEW a \in Answers,
           SubmitLoad(p, a)
    PROVE  CountInv'
  <1> USE LocalFacts DEF Procs
  <1>1. /\ pc[p] = "idle" /\ client[a] = "new" /\ client'[a] = "sent"
        /\ \A o \in Answers \ {a} : client'[o] = client[o]
        /\ UNCHANGED <<batch, raw, applied, row, pending>>
    BY DEF SubmitLoad, MaySend, CountedIsDropped, bufferVars, tableVars
  <1>2. CASE UNCHANGED <<pc, ans, resume>>
    <2>1. Tame(p)
      BY <1>1, <1>2 DEF Tame, Alone, WillAppend, WillCount, CountAll, CountInv, CarriedOK
    <2> QED
      BY <2>1, TameStep
  <1>3. CASE /\ ans' = [ans EXCEPT ![p] = a]
             /\ \/ pc' = [pc EXCEPT ![p] = "append"] /\ resume' = resume
                \/ /\ pc' = [pc EXCEPT ![p] = "reconRead"]
                   /\ resume' = [resume EXCEPT ![p] = "check"]
    <2>1. Untouched(a) /\ \A q \in Submitters : WillAppend(q) => ans[q] # a
      BY <1>1 DEF CountAll, CountInv, NewOK
    <2>2. /\ \A q \in Closers : pc'[q] = pc[q] /\ batch'[q] = batch[q]
          /\ \A q \in Submitters \ {p} :
                pc'[q] = pc[q] /\ resume'[q] = resume[q] /\ ans'[q] = ans[q]
          /\ ans'[p] = a
      BY <1>1, <1>3 DEF Closers
    <2>3. \A o : Untouched(o)' <=> Untouched(o)
      BY <1>1, <2>2 DEF Untouched, WillCount, InPending
    <2>4. \A q \in Submitters \ {p} : WillAppend(q)' <=> WillAppend(q)
      BY <2>2 DEF WillAppend
    <2>5. NewOK'
      <3>1. ASSUME NEW o \in Answers, client'[o] = "new"
            PROVE  Untouched(o)' /\ \A q \in Submitters : WillAppend(q)' => ans'[q] # o
        <4>1. o # a /\ client[o] = "new"
          BY <1>1, <3>1
        <4>2. Untouched(o) /\ \A q \in Submitters : WillAppend(q) => ans[q] # o
          BY <4>1 DEF CountAll, CountInv, NewOK
        <4> QED
          BY <2>2, <2>3, <2>4, <4>1, <4>2
      <3> QED
        BY <3>1 DEF NewOK
    <2>6. CarriedOK'
      <3>1. ASSUME NEW q \in Submitters, pc'[q] \notin ReconPc PROVE resume'[q] = "idle"
        BY <1>1, <1>3, <3>1, <2>2 DEF CountAll, CountInv, CarriedOK, ReconPc
      <3>2. ASSUME NEW q \in Submitters, WillAppend(q)'
            PROVE  Untouched(ans[q])' /\ \A o \in Submitters :
                       (WillAppend(o) /\ ans[o] = ans[q])' => o = q
        <4>1. CASE q = p
          <5>1. ans'[q] = a
            BY <2>2, <4>1
          <5>2. Untouched(ans[q])'
            BY <2>1, <2>3, <5>1
          <5>3. \A o \in Submitters \ {p} : WillAppend(o)' => ans'[o] # ans'[q]
            BY <2>1, <2>2, <2>4, <5>1
          <5> QED
            BY <4>1, <5>2, <5>3
        <4>2. CASE q # p
          <5>1. /\ WillAppend(q) /\ ans'[q] = ans[q] /\ ans[q] # a
            BY <2>1, <2>2, <2>4, <3>2, <4>2
          <5>2. /\ Untouched(ans[q])
                /\ \A o \in Submitters : WillAppend(o) /\ ans[o] = ans[q] => o = q
            BY <5>1 DEF CountAll, CountInv, CarriedOK
          <5>3. Untouched(ans[q])'
            BY <2>3, <5>1, <5>2
          <5>4. ASSUME NEW o \in Submitters, WillAppend(o)', ans'[o] = ans'[q]
                PROVE  o = q
            <6>1. o # p
              BY <2>2, <5>1, <5>4
            <6>2. WillAppend(o) /\ ans'[o] = ans[o]
              BY <2>2, <2>4, <5>4, <6>1
            <6> QED
              BY <5>1, <5>2, <5>4, <6>2
          <5> QED
            BY <5>3, <5>4
        <4> QED
          BY <4>1, <4>2
      <3> QED
        BY <3>1, <3>2 DEF CarriedOK
    <2>7. AppliedAtMostOnce' /\ BatchOK'
      BY <1>1, <2>2 DEF CountAll, CountInv, AppliedAtMostOnce, BatchOK, WillCount
    <2>8. RawOK' /\ CloserOK'
      <3>1. NoTwice(raw') /\ (LeftOver' <=> LeftOver)
        BY <1>1 DEF CountAll, CountInv, RawOK, LeftOver, NoTwice
      <3>2. Settled => Settled'
        BY <1>1, <2>2 DEF Settled, Closers
      <3>3. CloserOK'
        BY <1>1, <2>2 DEF CountAll, CountInv, CloserOK, Closers
      <3> QED
        BY <3>1, <3>2, <3>3 DEF CountAll, CountInv, RawOK
    <2>9. PendingOK'
      BY <1>1, <2>2
      DEF CountAll, CountInv, PendingOK, PendingCounted, InPending, NoTwice, Closers
    <2> QED
      BY <2>5, <2>6, <2>7, <2>8, <2>9 DEF CountInv
  <1> QED
    BY <1>2, <1>3 DEF SubmitLoad, Goto

\* The list the script leaves: the new answer and no other, each once.
LEMMA AppendOnce ==
    ASSUME NEW s \in Seq(Answers), NEW a \in Answers, NoTwice(s), a \notin ToSet(s)
    PROVE  LET t == Trim(Append(s, a))
           IN  NoTwice(t) /\ ToSet(t) \subseteq ToSet(s) \cup {a}
  <1> DEFINE u == Append(s, a)
             t == Trim(u)
  <1>1. Len(s) \in Nat /\ u \in Seq(Answers) /\ Len(u) = Len(s) + 1
        /\ (\A i \in 1..Len(s) : u[i] = s[i]) /\ u[Len(u)] = a
    BY AppendProperties, LenProperties
  <1>2. \A i \in 1..Len(s) : s[i] \in ToSet(s)
    BY LenProperties DEF ToSet
  <1>3. \A i \in 1..Len(u) : i \in 1..Len(s) \/ i = Len(u)
    BY <1>1
  <1> HIDE DEF u
  <1>4. NoTwice(u)
    BY <1>1, <1>2, <1>3 DEF NoTwice
  <1>5. \A i \in 1..Len(u) : u[i] \in ToSet(s) \cup {a}
    BY <1>1, <1>2, <1>3
  <1>6. CASE Len(u) > MaxRawEvents
    <2> DEFINE d == Len(u) - MaxRawEvents
    <2>1. d \in Nat /\ d + 1 \in 1..Len(u) /\ MaxRawEvents \in Nat
      BY <1>1, <1>6, BufferAssumption
    <2>2. t = SubSeq(u, d + 1, Len(u))
      BY <1>6 DEF Trim
    <2>3. \A i \in (d + 1)..Len(u) : u[i] \in Answers
      BY <1>1, <2>1, ElementOfSeq
    <2>4. t \in Seq(Answers) /\ Len(t) = Len(u) - d
          /\ \A i \in 1..(Len(u) - d) : t[i] = u[i + d]
      <3> HIDE DEF d, t
      <3>1. d + 1 \in Int /\ Len(u) \in Int /\ Len(u) - (d + 1) + 1 = Len(u) - d
            /\ d + 1 <= Len(u)
        BY <1>1, <2>1
      <3>2. /\ SubSeq(u, d + 1, Len(u)) \in Seq(Answers)
            /\ Len(SubSeq(u, d + 1, Len(u))) = Len(u) - d
            /\ \A i \in 1..(Len(u) - d) :
                  SubSeq(u, d + 1, Len(u))[i] = u[(d + 1) + i - 1]
        BY <3>1, <2>3, SubSeqProperties
      <3>3. \A i \in 1..(Len(u) - d) : (d + 1) + i - 1 = i + d
        BY <1>1, <2>1
      <3> QED
        BY <2>2, <3>2, <3>3
    <2> HIDE DEF d, t
    <2>5. \A i \in 1..Len(t) : i + d \in 1..Len(u)
      BY <1>1, <2>1, <2>4
    <2>6. NoTwice(t)
      BY <1>4, <2>1, <2>4, <2>5 DEF NoTwice
    <2>7. ToSet(t) \subseteq ToSet(s) \cup {a}
      BY <1>5, <2>4, <2>5, LenProperties DEF ToSet
    <2> QED
      BY <2>6, <2>7 DEF t, u
  <1>7. CASE ~(Len(u) > MaxRawEvents)
    <2>1. t = u
      BY <1>7 DEF Trim
    <2>2. ToSet(u) \subseteq ToSet(s) \cup {a}
      BY <1>1, <1>5, LenProperties DEF ToSet
    <2> QED
      BY <1>4, <2>1, <2>2 DEF u
  <1> QED
    BY <1>6, <1>7

\* The state the script leaves.
LEMMA AppendedState ==
    ASSUME BufferTypeOK, NEW a, AppendAccepted(a)
    PROVE  sess' \in SessionState /\ sess'.order = sess.order /\ sess'.idx = sess.idx + 1
  BY DEF BufferTypeOK, AppendAccepted, SessionState

\* The script buffers an answer that nothing has touched.
LEMMA AppendCounts ==
    ASSUME CountAll, NEW p \in Submitters, SubmitStep(p)
    PROVE  CountInv'
  <1> USE LocalFacts DEF Procs
  <1>1. CASE /\ pc[p] = "append" /\ AppendAccepted(ans[p]) /\ Acknowledge(p)
             /\ Return(p) /\ UNCHANGED tableVars
    <2> DEFINE a == ans[p]
    <2>1. a \in Answers
      BY <1>1 DEF CountAll, TypeInv, LocalOK
    <2>2. Untouched(a) /\ \A q \in Submitters : WillAppend(q) /\ ans[q] = a => q = p
      BY <1>1 DEF CountAll, CountInv, CarriedOK, WillAppend
    <2>3. NoTwice(raw')
          /\ ToSet(raw') \subseteq ToSet(raw) \cup {a}
      <3>1. raw' = Trim(Append(raw, a)) /\ NoTwice(raw) /\ a \notin ToSet(raw)
        BY <1>1, <2>2 DEF AppendAccepted, Untouched, CountAll, CountInv, RawOK
      <3> HIDE DEF a
      <3> QED
        BY <2>1, <3>1, AppendOnce
    <2>4. /\ \A q \in Closers :
                pc'[q] = pc[q] /\ batch'[q] = batch[q]
          /\ \A q \in Submitters \ {p} :
                pc'[q] = pc[q] /\ resume'[q] = resume[q] /\ ans'[q] = ans[q]
          /\ pc'[p] = "idle" /\ resume'[p] = "idle"
          /\ applied' = applied /\ row' = row /\ pending' = pending
      BY <1>1 DEF Closers, Return, Goto, tableVars
    <2>5. client'[a] # "new" /\ \A o \in Answers \ {a} : client'[o] = client[o]
      BY <1>1, <2>1 DEF Acknowledge
    <2> HIDE DEF a
    <2>6. \A o : o # a /\ Untouched(o) => Untouched(o)'
      BY <2>3, <2>4 DEF Untouched, WillCount, InPending
    <2>7. \A q \in Submitters : WillAppend(q)' => q # p /\ WillAppend(q) /\ ans'[q] = ans[q]
      BY <2>4 DEF WillAppend, ReconPc
    <2>8. NewOK'
      BY <2>5, <2>6, <2>7 DEF CountAll, CountInv, NewOK
    <2>9. CarriedOK'
      <3>1. ASSUME NEW q \in Submitters, pc'[q] \notin ReconPc PROVE resume'[q] = "idle"
        BY <2>4, <3>1 DEF CountAll, CountInv, CarriedOK
      <3>2. ASSUME NEW q \in Submitters, WillAppend(q)'
            PROVE  Untouched(ans[q])' /\ \A o \in Submitters :
                       (WillAppend(o) /\ ans[o] = ans[q])' => o = q
        BY <2>2, <2>6, <2>7, <3>2 DEF CountAll, CountInv, CarriedOK
      <3> QED
        BY <3>1, <3>2 DEF CarriedOK
    <2>10. AppliedAtMostOnce' /\ BatchOK'
      BY <2>4 DEF CountAll, CountInv, AppliedAtMostOnce, BatchOK, WillCount
    <2>11. RawOK'
      <3>1. ASSUME LeftOver' PROVE Settled'
        <4>1. LeftOver /\ Settled
          BY <2>2, <2>3, <2>4, <3>1
          DEF CountAll, CountInv, RawOK, LeftOver, Untouched
        <4> QED
          BY <2>4, <4>1 DEF Settled, Closers
      <3> QED
        BY <2>3, <3>1 DEF RawOK
    <2>12. CloserOK' /\ PendingOK'
      BY <2>4
      DEF CountAll, CountInv, CloserOK, PendingOK, PendingCounted, InPending, NoTwice, Closers
    <2> QED
      BY <2>8, <2>9, <2>10, <2>11, <2>12 DEF CountInv
  <1>2. CASE /\ pc[p] = "reload" /\ Acknowledge(p) /\ Return(p)
             /\ UNCHANGED <<bufferVars, tableVars>>
    BY <1>2, ReturnTame DEF Acknowledge, bufferVars
  <1>3. CASE /\ pc[p] \in {"append", "reload"}
             /\ \/ pc' = [pc EXCEPT ![p] = "reload"] /\ resume' = resume
                \/ /\ pc' = [pc EXCEPT ![p] = "reconRead"]
                   /\ resume' = [resume EXCEPT ![p] = "ack"]
             /\ UNCHANGED <<ans, mem, batch, client, bufferVars, tableVars>>
    <2>1. Alone(p) /\ pc'[p] \in {"reload", "reconRead"}
          /\ (pc'[p] = "reload" => pc'[p] \notin ReconPc /\ resume'[p] = resume[p])
          /\ (pc'[p] = "reconRead" => resume'[p] = "ack" /\ pc'[p] \in ReconPc)
      BY <1>3 DEF Alone, ReconPc
    <2>2. pc[p] \notin ReconPc /\ resume[p] = "idle"
      BY <1>3 DEF CountAll, CountInv, CarriedOK, ReconPc
    <2>3. Tame(p)
      BY <1>3, <2>1, <2>2 DEF Tame, WillAppend, WillCount, bufferVars, tableVars
    <2> QED
      BY <2>3, TameStep
  <1> QED
    BY <1>1, <1>2, <1>3 DEF SubmitStep, SubmitAppend, SubmitReload, Goto

\* get_active_session, the resume half of start_session and the change of
\* settings only set out to reconstruct.
LEMMA LookCounts ==
    ASSUME CountAll, NEW p \in Submitters,
           ViewActive(p) \/ ResumeOnStart(p) \/ RefreshConfig(p)
    PROVE  CountInv'
  <1> USE LocalFacts DEF Procs
  <1>1. /\ pc[p] = "idle" /\ pc' = [pc EXCEPT ![p] = "reconRead"]
        /\ UNCHANGED <<resume, ans, mem, batch, client, bufferVars, tableVars>>
    BY DEF ViewActive, ResumeOnStart, RefreshConfig, Goto
  <1>2. resume[p] = "idle"
    BY <1>1 DEF CountAll, CountInv, CarriedOK, ReconPc
  <1>3. Tame(p)
    BY <1>1, <1>2
    DEF Tame, Alone, WillAppend, WillCount, ReconPc, bufferVars, tableVars
  <1> QED
    BY <1>3, TameStep

\* _reconstruct_state, for a request or inside a flush.
LEMMA ReconstructCounts ==
    ASSUME CountAll, NEW p \in Submitters \cup Flushers, Reconstruct(p)
    PROVE  CountInv'
  <1> USE LocalFacts DEF Procs
  <1>1. pc[p] \in ReconPc /\ UNCHANGED tableVars /\ raw' = raw
    BY DEF Reconstruct, ReconstructRead, ReconstructSave, ReconstructActivate,
           ReconPc, Step, SaveSession, SetActive, bufferVars
  <1>2. p \in Closers => ~LeftOver
    BY <1>1 DEF CountAll, CountInv, RawOK, Settled, Flushing
  <1>3. \A a \in Answers : client'[a] = "new" => client[a] = "new"
    BY DEF Reconstruct, ReconstructRead, ReconstructSave, ReconstructActivate,
           Step, Acknowledge
  <1>4. CASE Return(p)
    <2>1. pc[p] # "delete"
      BY <1>1 DEF ReconPc
    <2> QED
      BY <1>1, <1>3, <1>4, <2>1, ReturnTame
  <1>5. CASE \E to \in ReconPc \cup {"append", "raw", "unlock"} :
                /\ pc' = [pc EXCEPT ![p] = to]
                /\ to \in {"append", "raw"} => resume' = [resume EXCEPT ![p] = "idle"]
                /\ to \notin {"append", "raw"} => resume' = resume
                /\ to = "append" => resume[p] = "check"
                /\ to = "unlock" => p \in Flushers
                /\ UNCHANGED <<ans, batch>>
    <2>1. PICK to \in ReconPc \cup {"append", "raw", "unlock"} :
                /\ pc' = [pc EXCEPT ![p] = to]
                /\ to \in {"append", "raw"} => resume' = [resume EXCEPT ![p] = "idle"]
                /\ to \notin {"append", "raw"} => resume' = resume
                /\ to = "append" => resume[p] = "check"
                /\ to = "unlock" => p \in Flushers
                /\ UNCHANGED <<ans, batch>>
      BY <1>5
    <2>2. Alone(p)
      BY <2>1 DEF Alone
    <2>3. WillAppend(p)' => WillAppend(p) /\ ans'[p] = ans[p]
      BY <1>1, <2>1 DEF WillAppend, ReconPc
    <2>4. ~WillCount(p)'
      BY <2>1 DEF WillCount, ReconPc
    <2>5. p \in Submitters /\ pc'[p] \notin ReconPc => resume'[p] = "idle"
      BY <2>1, ProcessAssumption DEF ReconPc
    <2>6. pc'[p] # "delete" /\ p \notin Sweepers
      BY <2>1 DEF ReconPc
    <2>7. applied' = applied /\ row' = row /\ pending' = pending
      BY <1>1 DEF tableVars
    <2>8. Tame(p)
      BY <1>1, <1>2, <1>3, <2>2, <2>3, <2>4, <2>5, <2>6, <2>7 DEF Tame
    <2> QED
      BY <2>8, TameStep
  <1>6. CASE ReconstructRead(p)
    <2>1. \/ Return(p)
          \/ /\ pc' = [pc EXCEPT ![p] = "reconSave"]
             /\ UNCHANGED <<resume, ans, batch>>
          \/ /\ pc' = [pc EXCEPT ![p] = "unlock"] /\ p \in Flushers
             /\ UNCHANGED <<resume, ans, batch>>
      BY <1>6 DEF ReconstructRead, Goto
    <2> QED
      BY <2>1, <1>4, <1>5 DEF ReconPc
  <1>7. CASE ReconstructSave(p)
    <2>1. /\ pc' = [pc EXCEPT ![p] = "reconActive"]
          /\ UNCHANGED <<resume, ans, batch>>
      BY <1>7 DEF ReconstructSave, Step, Goto
    <2> QED
      BY <2>1, <1>5 DEF ReconPc
  <1>8. CASE ReconstructActivate(p)
    <2>1. \/ Return(p)
          \/ /\ pc' = [pc EXCEPT ![p] = "append"] /\ resume[p] = "check"
             /\ resume' = [resume EXCEPT ![p] = "idle"]
             /\ UNCHANGED <<ans, batch>>
          \/ /\ pc' = [pc EXCEPT ![p] = "raw"]
             /\ resume' = [resume EXCEPT ![p] = "idle"]
             /\ UNCHANGED <<ans, batch>>
      BY <1>8 DEF ReconstructActivate, Goto
    <2> QED
      BY <2>1, <1>4, <1>5
  <1> QED
    BY <1>6, <1>7, <1>8 DEF Reconstruct

-----------------------------------------------------------------------------
\* Steps of a flush or a sweep that only move on.
LEMMA MoveTame ==
    ASSUME CountAll, NEW p \in Closers,
           NEW to \in {"idle", "lock", "row", "load", "raw", "release",
                       "clear", "sweepClear", "mark", "unlock", "reconRead"},
           Goto(p, to), UNCHANGED <<ans, client, applied, row>>,
           pending' # None => pending # None /\ pending'.raw = pending.raw,
           \A q \in Procs \ {p} : resume'[q] = resume[q] /\ batch'[q] = batch[q],
           \/ raw' = raw /\ pc[p] # "delete"
           \/ raw' = <<>> /\ pc[p] = "delete",
           to \in {"load", "raw", "reconRead"} => ~LeftOver,
           to = "lock" /\ p \in Flushers => ~row.ended,
           p \in Sweepers => to # "reconRead" /\ (to \in {"load", "raw"} => ~PendingCounted)
    PROVE  CountInv'
  <1> USE LocalFacts DEF Procs, Closers
  <1>1. Alone(p) /\ pc'[p] = to
    BY DEF Alone, Goto
  <1>2. LeftOver => row.ended
    BY DEF CountAll, CountInv, RawOK, Settled
  <1>3. ~WillCount(p)'
    BY <1>1 DEF WillCount
  <1>4. Tame(p)
    BY <1>1, <1>2, <1>3 DEF Tame, ReconPc, Flushing
  <1> QED
    BY <1>4, TameStep

\* A batch is taken from the buffer or from the checkpoint, and nobody has
\* counted it.
LEMMA BatchCounts ==
    ASSUME CountAll, NEW p \in Closers, NEW b, NEW to \in {"checkpoint", "commit", "recover"},
           pc' = [pc EXCEPT ![p] = to], batch' = [batch EXCEPT ![p] = b],
           UNCHANGED <<resume, ans, client, raw, applied, row, pending>>,
           ~LeftOver, p \in Sweepers => ~PendingCounted,
           NoTwice(b), \A a \in ToSet(b) : applied[a] = 0,
           \A a \in ToSet(b) : a \in ToSet(raw) \/ InPending(a)
    PROVE  CountInv'
  <1> USE LocalFacts DEF Procs, Closers
  <1>4. \A q \in Closers : WillCount(q)' => q = p \/ (WillCount(q) /\ batch'[q] = batch[q])
    BY DEF WillCount
  <1>5. batch'[p] = b
    OBVIOUS
  <1>6. \A a : Untouched(a) => Untouched(a)'
    BY <1>4, <1>5 DEF Untouched, InPending
  <1>7. \A q \in Submitters : (WillAppend(q)' <=> WillAppend(q)) /\ pc'[q] = pc[q]
    BY DEF WillAppend
  <1>8. AppliedAtMostOnce' /\ NewOK'
    BY <1>6, <1>7 DEF CountAll, CountInv, AppliedAtMostOnce, NewOK
  <1>9. CarriedOK'
    BY <1>6, <1>7 DEF CountAll, CountInv, CarriedOK
  <1>10. BatchOK'
    BY <1>4, <1>5 DEF CountAll, CountInv, BatchOK
  <1>11. RawOK'
    BY DEF CountAll, CountInv, RawOK, LeftOver, NoTwice
  <1>12. PendingOK'
    <2>1. PendingCounted' <=> PendingCounted
      BY DEF PendingCounted, InPending
    <2>2. PendingCounted => row.ended /\ \A q \in Sweepers : pc'[q] \notin Flushing
      BY DEF CountAll, CountInv, PendingOK
    <2> QED
      BY <2>1, <2>2 DEF CountAll, CountInv, PendingOK, NoTwice
  <1>13. CloserOK'
    BY DEF CountAll, CountInv, CloserOK, ReconPc
  <1> QED
    BY <1>8, <1>9, <1>10, <1>11, <1>12, <1>13 DEF CountInv

\* What is read from the buffer is counted by nobody, and each answer is in it
\* once.
LEMMA ReadCounts ==
    ASSUME CountAll, NEW p \in Closers,
           (p \in Flushers /\ FlushReadRaw(p)) \/ (p \in Sweepers /\ SweepReadRaw(p))
    PROVE  CountInv'
  <1> USE LocalFacts DEF Procs, Closers
  <1>1. /\ pc[p] = "raw" /\ batch' = [batch EXCEPT ![p] = raw]
        /\ UNCHANGED <<resume, ans, client, raw, applied, row, pending>>
    BY DEF FlushReadRaw, SweepReadRaw, bufferVars, tableVars
  <1>2. PICK to \in {"checkpoint", "commit", "recover"} : pc' = [pc EXCEPT ![p] = to]
    BY DEF FlushReadRaw, SweepReadRaw, Goto
  <1>3. ~LeftOver /\ NoTwice(raw)
    BY <1>1 DEF CountAll, CountInv, RawOK, Settled, Flushing
  <1>4. p \in Sweepers => ~PendingCounted
    BY <1>1 DEF CountAll, CountInv, PendingOK, Flushing
  <1>5. \A a \in ToSet(raw) : applied[a] = 0
    <2>1. \A a \in ToSet(raw) : a \in Answers
      BY LenProperties, ElementOfSeq DEF ToSet
    <2>2. \A a \in ToSet(raw) : applied[a] \in Nat
      BY <2>1 DEF CountAll, TypeInv, TypeOK, TablesTypeOK
    <2> QED
      BY <1>3, <2>2 DEF LeftOver
  <1> QED
    BY <1>1, <1>2, <1>3, <1>4, <1>5, BatchCounts

\* So is what is recovered from the checkpoint.
LEMMA RecoverCounts ==
    ASSUME CountAll, NEW p \in Sweepers, SweepRecover(p)
    PROVE  CountInv'
  <1> USE LocalFacts DEF Procs, Closers
  <1>1. /\ pc[p] = "recover" /\ pc' = [pc EXCEPT ![p] = "commit"]
        /\ UNCHANGED <<resume, ans, client, raw, applied, row, pending>>
    BY DEF SweepRecover, Goto, bufferVars, tableVars
  <1>2. ~LeftOver /\ ~PendingCounted
    BY <1>1 DEF CountAll, CountInv, RawOK, PendingOK, Settled, Flushing
  <1>3. CASE pending # None /\ batch' = [batch EXCEPT ![p] = pending.raw]
    <2>1. NoTwice(pending.raw) /\ \A a \in ToSet(pending.raw) : InPending(a)
      BY <1>3 DEF CountAll, CountInv, PendingOK, InPending
    <2>2. pending.raw \in Seq(Answers) /\ applied \in [Answers -> Nat]
      BY <1>3 DEF CountAll, TypeInv, TypeOK, TablesTypeOK, Pending
    <2>3. \A a \in ToSet(pending.raw) : a \in Answers
      BY <2>2, LenProperties, ElementOfSeq DEF ToSet
    <2>4. \A a \in ToSet(pending.raw) : applied[a] = 0
      BY <1>2, <2>1, <2>2, <2>3 DEF PendingCounted
    <2> QED
      BY <1>1, <1>2, <1>3, <2>1, <2>4, BatchCounts
  <1>4. CASE batch' = [batch EXCEPT ![p] = <<>>]
    <2>1. NoTwice(<<>>) /\ ToSet(<<>>) = {}
      BY DEF NoTwice, ToSet
    <2> QED
      BY <1>1, <1>2, <1>4, <2>1, BatchCounts
  <1> QED
    BY <1>3, <1>4 DEF SweepRecover, HasPending

\* The checkpoint gets a batch that nobody has counted.
LEMMA CheckpointCounts ==
    ASSUME CountAll, NEW p \in Sweepers, SweepCheckpoint(p)
    PROVE  CountInv'
  <1> USE LocalFacts DEF Procs, Closers
  <1>1. /\ pc[p] = "checkpoint" /\ WillCount(p) /\ pc' = [pc EXCEPT ![p] = "commit"]
        /\ UNCHANGED <<resume, ans, batch, client, raw, applied, row>>
        /\ pending' # None => pending'.raw = batch[p]
    BY DEF SweepCheckpoint, Step, Goto, SavePending, WillCount, bufferVars
  <1>2. \A q \in Closers : WillCount(q)' <=> WillCount(q)
    BY <1>1 DEF WillCount
  <1>3. \A a : Untouched(a) => Untouched(a)'
    BY <1>1, <1>2 DEF Untouched, InPending
  <1>4. \A q \in Submitters : (WillAppend(q)' <=> WillAppend(q)) /\ pc'[q] = pc[q]
    BY <1>1 DEF WillAppend
  <1>5. AppliedAtMostOnce' /\ NewOK'
    BY <1>1, <1>3, <1>4 DEF CountAll, CountInv, AppliedAtMostOnce, NewOK
  <1>6. CarriedOK'
    BY <1>1, <1>3, <1>4 DEF CountAll, CountInv, CarriedOK
  <1>7. BatchOK' /\ CloserOK'
    BY <1>1, <1>2 DEF CountAll, CountInv, BatchOK, CloserOK, ReconPc
  <1>8. RawOK'
    <2>1. ~LeftOver
      BY <1>1 DEF CountAll, CountInv, RawOK, Settled, Flushing
    <2> QED
      BY <1>1, <2>1 DEF CountAll, CountInv, RawOK, LeftOver, NoTwice
  <1>9. PendingOK'
    <2>1. NoTwice(batch[p]) /\ \A a \in ToSet(batch[p]) : applied[a] = 0
      BY <1>1 DEF CountAll, CountInv, BatchOK
    <2>2. ~PendingCounted'
      BY <1>1, <2>1 DEF PendingCounted, InPending
    <2> QED
      BY <1>1, <2>1, <2>2 DEF PendingOK
  <1> QED
    BY <1>5, <1>6, <1>7, <1>8, <1>9 DEF CountInv

\* What the transaction counts: answers of its batch, each by one.
LEMMA FinaliseAdds ==
    ASSUME CountAll, NEW p \in Closers, pc[p] = "commit",
           FinaliseBatch(mem[p], batch[p], target[p])
    PROVE  /\ row'.ended
           /\ \A a \in Answers :
                 \/ applied'[a] = applied[a]
                 \/ a \in ToSet(batch[p]) /\ applied'[a] = 1
  <1> DEFINE b == batch[p]
             t == Truncated(mem[p], b)
  <1>1. b \in Seq(Answers) /\ mem[p] \in SessionState
    BY LocalFacts, MemIsState DEF CountAll, Procs, Closers
  <1>2. NoTwice(b) /\ \A a \in ToSet(b) : applied[a] = 0
    BY DEF CountAll, CountInv, BatchOK, WillCount
  <1>3. CASE CloseEmpty(target[p])
    <2>1. row \in Row
      BY DEF CountAll, TypeInv, TypeOK, TablesTypeOK
    <2> QED
      BY <1>3, <2>1 DEF CloseEmpty, Row
  <1>4. CASE CloseWith(t, target[p])
    <2>1. t \in Seq(Answers)
      BY <1>1, TruncatedType
    <2>2. Len(t) <= Len(b) /\ Len(t) \in Nat /\ Len(b) \in Nat
          /\ \A k \in 1..Len(t) : t[k] = b[k]
      <3>1. Len(mem[p].order) \in Nat /\ Len(b) \in Nat
        BY <1>1, LenProperties DEF SessionState
      <3>2. CASE Len(b) > Len(mem[p].order)
        <4> DEFINE n == Len(mem[p].order)
        <4>1. t = SubSeq(b, 1, n) /\ n \in Nat /\ n < Len(b)
          BY <3>1, <3>2 DEF Truncated
        <4>2. \A k \in 1..n : b[k] \in Answers
          BY <1>1, <3>1, <4>1, ElementOfSeq
        <4> HIDE DEF n, t, b
        <4>3. Len(t) = n /\ \A k \in 1..n : t[k] = b[k]
          <5>1. /\ Len(SubSeq(b, 1, n)) = IF 1 <= n THEN n - 1 + 1 ELSE 0
                /\ \A i \in 1..(n - 1 + 1) : SubSeq(b, 1, n)[i] = b[1 + i - 1]
            BY <4>1, <4>2, SubSeqProperties
          <5> QED
            BY <4>1, <5>1
        <4> QED
          BY <3>1, <4>1, <4>3
      <3>3. CASE ~(Len(b) > Len(mem[p].order))
        <4>1. t = b
          BY <3>3 DEF Truncated
        <4> HIDE DEF t, b
        <4> QED
          BY <3>1, <4>1
      <3> QED
        BY <3>2, <3>3
    <2> HIDE DEF t, b
    <2>3. \A j, k \in 1..Len(t) : t[j] = t[k] => j = k
      BY <1>2, <2>2 DEF NoTwice
    <2>4. ToSet(t) \subseteq ToSet(b)
      BY <1>1, <2>1, <2>2, LenProperties DEF ToSet
    <2>5. ASSUME NEW a \in Answers
          PROVE  applied'[a] = applied[a] + IF a \in ToSet(t) THEN 1 ELSE 0
      <3>1. Cardinality({k \in 1..Len(t) : t[k] = a}) = IF a \in ToSet(t) THEN 1 ELSE 0
        BY <2>1, <2>3, CountOnce
      <3>2. applied'[a] = applied[a] + Cardinality({k \in 1..Len(t) : t[k] = a})
        BY <1>4 DEF CloseWith
      <3> QED
        BY <3>1, <3>2
    <2>6. \A a \in Answers : applied[a] \in Nat
      BY DEF CountAll, TypeInv, TypeOK, TablesTypeOK
    <2>7. \A a \in Answers :
             \/ applied'[a] = applied[a]
             \/ a \in ToSet(b) /\ applied'[a] = 1
      BY <1>2, <2>4, <2>5, <2>6
    <2> QED
      BY <1>4, <2>7 DEF CloseWith, b
  <1> QED
    BY <1>3, <1>4 DEF FinaliseBatch

\* The commit closes the session; its answers are left over in the buffer
\* until the DEL, with the lock still held.
LEMMA CommitCounts ==
    ASSUME CountAll, NEW p \in Closers, Commit(p)
    PROVE  CountInv'
  <1> USE LocalFacts DEF Procs, Closers
  <1>1. /\ pc[p] = "commit" /\ WillCount(p) /\ InCritical(p)
        /\ UNCHANGED <<resume, ans, batch, client, raw, pending>>
    BY DEF Commit, WillCount, InCritical, CriticalPc, bufferVars, tableVars,
           FinaliseBatch, CloseEmpty, CloseWith
  <1>2. CASE /\ FinaliseBatch(mem[p], batch[p], target[p])
             /\ pc' = [pc EXCEPT ![p] = "delete"]
    <2>1. row'.ended /\ \A a \in Answers : \/ applied'[a] = applied[a]
                                           \/ a \in ToSet(batch[p]) /\ applied'[a] = 1
      BY <1>1, <1>2, FinaliseAdds
    <2>2. \A q \in Closers \ {p} : pc[q] \notin CriticalPc
      BY <1>1 DEF CountAll, LockInv, OneFlusher, InCritical
    <2>3. pc'[p] = "delete" /\ \A q \in Procs \ {p} : pc'[q] = pc[q]
      BY <1>2
    <2>4. \A q \in Closers : ~WillCount(q)' /\ pc'[q] \notin Flushing
      BY <2>2, <2>3 DEF WillCount, CriticalPc, Flushing, ReconPc
    <2>5. \A a \in Answers : Untouched(a) => Untouched(a)'
      BY <1>1, <2>1, <2>4 DEF Untouched, InPending
    <2>6. \A q \in Submitters : (WillAppend(q)' <=> WillAppend(q)) /\ pc'[q] = pc[q]
      BY <1>1, <2>3 DEF WillAppend
    <2>7. AppliedAtMostOnce'
      BY <2>1 DEF CountAll, CountInv, AppliedAtMostOnce
    <2>8. NewOK'
      BY <1>1, <2>5, <2>6 DEF CountAll, CountInv, NewOK
    <2>9. CarriedOK'
      <3>1. \A q \in Submitters : WillAppend(q) => ans[q] \in Answers
        BY DEF CountAll, TypeInv, LocalOK, WillAppend
      <3> QED
        BY <1>1, <2>5, <2>6, <3>1 DEF CountAll, CountInv, CarriedOK
    <2>10. BatchOK'
      BY <2>4 DEF BatchOK
    <2>11. RawOK'
      BY <1>1, <2>1, <2>3, <2>4 DEF CountAll, CountInv, RawOK, Settled
    <2>12. CloserOK'
      BY <1>1, <2>1, <2>3 DEF CountAll, CountInv, CloserOK, ReconPc
    <2>13. PendingOK'
      BY <1>1, <2>1, <2>4 DEF CountAll, CountInv, PendingOK, NoTwice
    <2> QED
      BY <2>7, <2>8, <2>9, <2>10, <2>11, <2>12, <2>13 DEF CountInv
  <1>3. CASE Goto(p, "unlock") /\ UNCHANGED tableVars
    BY <1>1, <1>3, MoveTame DEF tableVars
  <1> QED
    BY <1>2, <1>3 DEF Commit, Goto, FinaliseFails

\* The lock: whoever has waited for it finds nothing left over.
\* mark_pending_session_recovered leaves the events as they are.
LEMMA MarkKeepsRaw ==
    ASSUME TypeInv, MarkRecovered
    PROVE  pending' # None => pending # None /\ pending'.raw = pending.raw
  BY DEF TypeInv, TypeOK, TablesTypeOK, Pending, MarkRecovered

LEMMA LockCounts ==
    ASSUME CountAll, NEW p \in Closers, NEW next \in {"row", "load"},
           TakeLock(p, next), p \in Sweepers => next = "row",
           p \in Flushers => next = "load"
    PROVE  CountInv'
  <1> USE LocalFacts DEF Procs, Closers
  <1>1. CASE Return(p) /\ UNCHANGED bufferVars
    BY <1>1, ReturnTame DEF TakeLock, bufferVars
  <1>2. CASE AcquireFlushLock /\ Goto(p, next) /\ UNCHANGED <<resume, ans, mem, batch>>
    <2>1. p \in Flushers => ~LeftOver
      <3>1. \A q \in Closers : pc[q] # "delete"
        BY <1>2 DEF AcquireFlushLock, CountAll, LockInv, InCritical, CriticalPc
      <3> QED
        BY <3>1 DEF TakeLock, CountAll, CountInv, RawOK, Settled
    <2>2. UNCHANGED <<client, applied, row, raw, pending>> /\ pc[p] = "lock"
      BY <1>2 DEF TakeLock, AcquireFlushLock, tableVars
    <2> QED
      BY <1>2, <2>1, <2>2, MoveTame
  <1> QED
    BY <1>1, <1>2 DEF TakeLock

LEMMA DropCounts ==
    ASSUME CountAll, CountedIsDropped, NEW p \in Closers,
           NEW next \in {"release", "sweepClear"}, DropBuffer(p, next)
    PROVE  CountInv'
  <1> USE LocalFacts
  <1>1. /\ pc[p] = "delete" /\ Goto(p, next) /\ raw' = <<>>
        /\ UNCHANGED <<resume, ans, batch, client, applied, row, pending>>
    BY DEF DropBuffer, DeleteSession, CountedIsDropped, tableVars
  <1> QED
    BY <1>1, MoveTame

\* finalise and abandon.
LEMMA FlushCounts ==
    ASSUME CountAll, CountedIsDropped, NEW p \in Flushers,
           (\E st \in Closed : FlushRequest(p, st)) \/ FlushStep(p)
    PROVE  CountInv'
  <1> USE LocalFacts DEF Procs, Closers
  <1>1. CASE \E st \in Closed : FlushRequest(p, st)
    <2>1. PICK to \in {"clear", "lock"} : Goto(p, to) /\ (to = "lock" => ~row.ended)
      BY <1>1 DEF FlushRequest
    <2>2. /\ pc[p] = "idle"
          /\ UNCHANGED <<resume, ans, batch, client, raw, applied, row, pending>>
      BY <1>1 DEF FlushRequest, bufferVars, tableVars
    <2> QED
      BY <2>1, <2>2, MoveTame
  <1>2. CASE FlushLock(p)
    BY <1>2, LockCounts DEF FlushLock
  <1>3. CASE FlushLoad(p)
    <2>1. ~LeftOver /\ pc[p] = "load"
      BY <1>3 DEF FlushLoad, CountAll, CountInv, RawOK, Settled, Flushing
    <2>2. /\ UNCHANGED <<ans, batch, client, raw, applied, row, pending>>
          /\ \A q \in Procs \ {p} : resume'[q] = resume[q]
          /\ Goto(p, "raw") \/ Goto(p, "reconRead")
      BY <1>3 DEF FlushLoad, bufferVars, tableVars
    <2> QED
      BY <2>1, <2>2, MoveTame
  <1>4. CASE FlushReadRaw(p)
    BY <1>4, ReadCounts
  <1>5. CASE Commit(p)
    BY <1>5, CommitCounts
  <1>6. CASE FlushDelete(p)
    BY <1>6, DropCounts DEF FlushDelete
  <1>7. CASE FlushRelease(p)
    <2>1. /\ pc[p] = "release" /\ Goto(p, "clear")
          /\ UNCHANGED <<resume, ans, batch, client, raw, applied, row, pending>>
      BY <1>7 DEF FlushRelease, Step, ReleaseFlushLock, tableVars
    <2> QED
      BY <2>1, MoveTame
  <1>8. CASE FlushClear(p)
    BY <1>8, ReturnTame DEF FlushClear, ClearActive
  <1>9. CASE Unlock(p)
    BY <1>9, ReturnTame DEF Unlock, ReleaseFlushLock
  <1> QED
    BY <1>1, <1>2, <1>3, <1>4, <1>5, <1>6, <1>7, <1>8, <1>9 DEF FlushStep

LEMMA SweepCounts ==
    ASSUME CountAll, CountedIsDropped, NEW p \in Sweepers,
           SweepSelect(p) \/ SweepLock(p) \/ SweepStep(p)
    PROVE  CountInv'
  <1> USE LocalFacts DEF Procs, Closers
  <1>1. p \notin Flushers /\ p \notin Submitters
    BY ProcessAssumption
  <1>2. CASE SweepSelect(p)
    <2>1. /\ pc[p] = "idle" /\ Goto(p, "lock")
          /\ UNCHANGED <<resume, ans, batch, client, raw, applied, row, pending>>
      BY <1>2 DEF SweepSelect, Step, bufferVars, tableVars
    <2> QED
      BY <1>1, <2>1, MoveTame
  <1>3. CASE SweepLock(p)
    BY <1>1, <1>3, LockCounts DEF SweepLock
  <1>4. CASE SweepRow(p)
    <2>1. /\ pc[p] = "row" /\ Goto(p, IF row.ended THEN "unlock" ELSE "load")
          /\ UNCHANGED <<resume, ans, batch, client, raw, applied, row, pending>>
      BY <1>4 DEF SweepRow, Step, bufferVars, tableVars
    <2>2. ~row.ended => ~LeftOver /\ ~PendingCounted
      BY DEF CountAll, CountInv, RawOK, PendingOK, Settled
    <2> QED
      BY <2>1, <2>2, MoveTame
  <1>5. CASE SweepLoad(p)
    <2>1. ~LeftOver /\ ~PendingCounted /\ pc[p] = "load"
      BY <1>5 DEF SweepLoad, CountAll, CountInv, RawOK, PendingOK, Settled, Flushing
    <2>2. /\ UNCHANGED <<resume, ans, batch, client, raw, applied, row, pending>>
          /\ Goto(p, "raw")
      BY <1>5 DEF SweepLoad, bufferVars, tableVars
    <2> QED
      BY <2>1, <2>2, MoveTame
  <1>6. CASE SweepReadRaw(p)
    BY <1>6, ReadCounts
  <1>7. CASE SweepCheckpoint(p)
    BY <1>7, CheckpointCounts
  <1>8. CASE SweepRecover(p)
    BY <1>8, RecoverCounts
  <1>9. CASE Commit(p)
    BY <1>9, CommitCounts
  <1>10. CASE SweepDelete(p)
    BY <1>10, DropCounts DEF SweepDelete
  <1>11. CASE SweepClear(p)
    <2>1. /\ pc[p] = "sweepClear" /\ Goto(p, "mark")
          /\ UNCHANGED <<resume, ans, batch, client, raw, applied, row, pending>>
      BY <1>11 DEF SweepClear, Step, ClearActive, tableVars
    <2> QED
      BY <2>1, MoveTame
  <1>12. CASE SweepMark(p)
    <2>1. /\ pc[p] = "mark" /\ Goto(p, "unlock")
          /\ UNCHANGED <<resume, ans, batch, client, raw, applied, row>>
          /\ pending' # None => pending # None /\ pending'.raw = pending.raw
      BY <1>12, MarkKeepsRaw DEF SweepMark, Step, MarkRecovered, bufferVars, CountAll
    <2> QED
      BY <2>1, MoveTame
  <1>13. CASE Unlock(p)
    BY <1>13, ReturnTame DEF Unlock, ReleaseFlushLock
  <1> QED
    BY <1>2, <1>3, <1>4, <1>5, <1>6, <1>7, <1>8, <1>9, <1>10, <1>11, <1>12, <1>13
    DEF SweepStep

\* A state with the same buffer, answers and processes, perhaps closed since.
LEMMA SameCounts ==
    ASSUME CountAll, row.ended => row'.ended,
           UNCHANGED <<pc, resume, ans, batch, client, raw, applied, pending>>
    PROVE  CountInv'
  <1>1. \A p \in Procs : (WillAppend(p)' <=> WillAppend(p)) /\ (WillCount(p)' <=> WillCount(p))
    BY DEF WillAppend, WillCount
  <1>2. \A a : Untouched(a)' <=> Untouched(a)
    BY <1>1 DEF Untouched, InPending, Procs, Closers
  <1>3. AppliedAtMostOnce' /\ NewOK'
    BY <1>1, <1>2 DEF CountAll, CountInv, AppliedAtMostOnce, NewOK, Procs
  <1>4. CarriedOK'
    BY <1>1, <1>2 DEF CountAll, CountInv, CarriedOK, Procs
  <1>5. BatchOK' /\ RawOK' /\ CloserOK'
    BY <1>1 DEF CountAll, CountInv, BatchOK, RawOK, CloserOK, NoTwice, LeftOver,
                Settled, Procs, Closers
  <1>6. PendingOK'
    BY DEF CountAll, CountInv, PendingOK, PendingCounted, InPending, NoTwice
  <1> QED
    BY <1>3, <1>4, <1>5, <1>6 DEF CountInv

\* The list of events is lost.
LEMMA LostCounts ==
    ASSUME CountAll, raw' = <<>>,
           UNCHANGED <<pc, resume, ans, batch, client, applied, row, pending>>
    PROVE  CountInv'
  <1>1. \A p \in Procs : (WillAppend(p)' <=> WillAppend(p)) /\ (WillCount(p)' <=> WillCount(p))
    BY DEF WillAppend, WillCount
  <1>2. ToSet(raw') = {}
    BY DEF ToSet
  <1>3. \A a : Untouched(a) => Untouched(a)'
    BY <1>1, <1>2 DEF Untouched, InPending, Procs, Closers
  <1>4. AppliedAtMostOnce' /\ NewOK'
    BY <1>1, <1>3 DEF CountAll, CountInv, AppliedAtMostOnce, NewOK, Procs
  <1>5. CarriedOK'
    BY <1>1, <1>3 DEF CountAll, CountInv, CarriedOK, Procs
  <1>6. BatchOK' /\ CloserOK'
    BY <1>1 DEF CountAll, CountInv, BatchOK, CloserOK, NoTwice, Procs, Closers
  <1>7. RawOK' /\ PendingOK'
    BY <1>2 DEF CountAll, CountInv, RawOK, LeftOver, PendingOK, PendingCounted, InPending,
                NoTwice
  <1> QED
    BY <1>4, <1>5, <1>6, <1>7 DEF CountInv

LEMMA EventCounts ==
    ASSUME CountAll, CountedIsDropped, Crash \/ LockExpires \/ RedisLoses \/ DeleteSet
    PROVE  CountInv'
  <1>1. CASE Crash
    <2>1. /\ \A p \in Procs : pc'[p] = "idle" /\ resume'[p] = "idle"
          /\ UNCHANGED <<client, raw, applied, row, pending>>
      BY <1>1 DEF Crash, bufferVars, tableVars
    <2>2. \A p \in Procs : ~WillAppend(p)' /\ ~WillCount(p)' /\ pc'[p] \notin Flushing
      BY <2>1 DEF WillAppend, WillCount, Flushing, ReconPc
    <2>3. \A a : Untouched(a) => Untouched(a)'
      BY <2>1, <2>2 DEF Untouched, InPending, Procs, Closers
    <2>4. AppliedAtMostOnce' /\ NewOK' /\ CarriedOK' /\ BatchOK'
      BY <2>1, <2>2, <2>3
      DEF CountAll, CountInv, AppliedAtMostOnce, NewOK, CarriedOK, BatchOK, Procs, Closers
    <2>5. RawOK' /\ CloserOK'
      BY <2>1, <2>2
      DEF CountAll, CountInv, RawOK, CloserOK, NoTwice, LeftOver, Settled, ReconPc,
          Procs, Closers
    <2>6. PendingOK'
      BY <2>1, <2>2
      DEF CountAll, CountInv, PendingOK, PendingCounted, InPending, NoTwice, Procs
    <2> QED
      BY <2>4, <2>5, <2>6 DEF CountInv
  <1>2. CASE LockExpires
    BY <1>2, SameCounts DEF LockExpires, ReleaseFlushLock, tableVars, CountedIsDropped, Fault,
                            Crash
  <1>3. CASE RedisLoses
    <2>1. EvictOne /\ UNCHANGED <<pc, resume, ans, batch, client, applied, row, pending>>
      BY <1>3 DEF RedisLoses, Fault, CountedIsDropped, tableVars
    <2>2. raw' = raw \/ raw' = <<>>
      BY <2>1 DEF EvictOne
    <2> QED
      BY <2>1, <2>2, SameCounts, LostCounts
  <1>4. CASE DeleteSet
    <2>1. row \in Row
      BY DEF CountAll, TypeInv, TypeOK, TablesTypeOK
    <2>2. row.ended => row'.ended
      BY <1>4, <2>1 DEF DeleteSet, DeleteSetTables, Row
    <2> QED
      BY <1>4, <2>2, SameCounts DEF DeleteSet, DeleteSetTables, procVars, bufferVars
  <1> QED
    BY <1>1, <1>2, <1>3, <1>4

LEMMA CountStep ==
    ASSUME CountAll, CountedIsDropped, [Next]_vars
    PROVE  CountInv'
  <1>1. CASE UNCHANGED vars
    BY <1>1, SameCounts DEF vars, procVars, bufferVars, tableVars
  <1>2. ASSUME NEW p \in Submitters, SubmitRequest(p) \/ SubmitStep(p) \/ Reconstruct(p)
        PROVE  CountInv'
    BY <1>2, LoadCounts, LookCounts, AppendCounts, ReconstructCounts DEF SubmitRequest
  <1>3. ASSUME NEW p \in Flushers,
               (\E st \in Closed : FlushRequest(p, st)) \/ FlushStep(p) \/ Reconstruct(p)
        PROVE  CountInv'
    BY <1>3, FlushCounts, ReconstructCounts
  <1>4. ASSUME NEW p \in Sweepers, SweepSelect(p) \/ SweepLock(p) \/ SweepStep(p)
        PROVE  CountInv'
    BY <1>4, SweepCounts
  <1>5. CASE Crash \/ LockExpires \/ RedisLoses \/ DeleteSet
    BY <1>5, EventCounts
  <1> QED
    BY <1>1, <1>2, <1>3, <1>4, <1>5 DEF Next

\* No answer goes through SM-2 and the daily statistics twice, however many
\* finalise calls, sweeps, submits, reconstructions and crashes interleave
\* (finalise_session, _flush_one, finalise_batch).
THEOREM AnswersCountOnce ==
    ASSUME CountedIsDropped
    PROVE  Spec => []AppliedAtMostOnce
  <1>1. Init => CountAll
    BY CountInit, TypeInvInit, LockInvInit DEF CountAll
  <1>2. CountAll /\ [Next]_vars => CountAll'
    <2> SUFFICES ASSUME CountAll, [Next]_vars PROVE CountAll'
      OBVIOUS
    <2>1. LockIsKept
      BY DEF CountedIsDropped, LockIsKept
    <2> QED
      BY <2>1, TypeInvStep, LockInvStep, CountStep DEF CountAll
  <1>3. CountAll => AppliedAtMostOnce
    BY DEF CountAll, CountInv
  <1> QED
    BY <1>1, <1>2, <1>3, PTL DEF Spec

-----------------------------------------------------------------------------
(***************************************************************************)
(* Checkpoints beside flushes by the user.                                 *)
(***************************************************************************)
\* Redis keeps what it holds until its lock's holder deletes it, nothing makes
\* the state anew while the session is open, the set stays, and the raw list
\* has room for a session; without each of these a checkpoint can be lost.
Undisturbed ==
    /\ Events \subseteq {"retry", "settings", "crash", "flushError", "deleteError"}
    /\ \A b \in Batches : Len(b) <= MaxRawEvents

\* An open session has all its answers in the buffer, the checkpoint's too.
OpenKeeps ==
    ~row.ended =>
        /\ sess # None /\ sess.order \in Batches
        /\ sess.idx = Len(raw) /\ Len(raw) <= Len(sess.order)
        /\ pending # None => ToSet(pending.raw) \subseteq ToSet(raw)

\* Who is about to close it has a batch that is not cut, and has in it what a
\* checkpoint has.
CloserKeeps(p) ==
    /\ pc[p] = "delete" => row.ended
    /\ pc[p] \in {"raw", "checkpoint", "commit"} /\ ~row.ended =>
          mem[p] # None /\ mem[p].order = sess.order
    /\ WillCount(p) /\ ~row.ended =>
          /\ Len(batch[p]) <= Len(sess.order)
          /\ ToSet(batch[p]) \subseteq ToSet(raw)
          /\ pending # None => ToSet(pending.raw) \subseteq ToSet(batch[p])

\* A sweeper past the row works on an open session, and finds its state.
SweeperKeeps(p) ==
    /\ pc[p] \in Reading => ~row.ended
    /\ pc[p] = "raw" => mem[p] # None
    /\ pc[p] \notin ReconPc \cup {"recover"}

KeptInv ==
    /\ CheckpointKept /\ OpenKeeps
    /\ \A p \in Procs : pc[p] \in ReconPc => row.ended
    /\ \A p \in Closers : CloserKeeps(p)
    /\ \A p \in Sweepers : SweeperKeeps(p)

KeptAll == TypeInv /\ LockInv /\ KeptInv

LEMMA KeptInit == Init => KeptInv
  <1> SUFFICES ASSUME Init PROVE KeptInv
    OBVIOUS
  <1>1. PICK b \in Batches : sess = [order |-> b, idx |-> 0]
    BY DEF Init
  <1>2. b \in Seq(Items) /\ Len(b) \in Nat
    BY BatchesAssumption, LenProperties
  <1>3. \A p \in Procs : pc[p] = "idle"
    BY DEF Init
  <1>4. CheckpointKept /\ OpenKeeps
    BY <1>1, <1>2, NoneIsNoState DEF Init, CheckpointKept, OpenKeeps, SessionState
  <1> QED
    BY <1>3, <1>4
    DEF KeptInv, CloserKeeps, SweeperKeeps, WillCount, Reading, ReconPc, Procs, Closers

\* A step of p that leaves the row, what is counted, the checkpoint and the
\* buffer of an open session as they are.
Calm(p) ==
    /\ Alone(p) /\ \A q \in Procs \ {p} : mem'[q] = mem[q]
    /\ row'.ended = row.ended /\ applied' = applied
    /\ pending' = pending \/ (pending # None /\ pending' # None
                              /\ pending'.raw = pending.raw)
    /\ row.ended \/ (sess' = sess /\ raw' = raw)

LEMMA CalmStep ==
    ASSUME KeptAll, NEW p \in Procs, Calm(p), pc'[p] \in ReconPc => row.ended,
           p \in Closers => CloserKeeps(p)', p \in Sweepers => SweeperKeeps(p)'
    PROVE  KeptInv'
  <1> USE DEF Procs, Closers
  <1>1. CheckpointKept' /\ OpenKeeps'
    BY DEF KeptAll, KeptInv, CheckpointKept, OpenKeeps, Calm
  <1>2. \A q \in Procs : pc'[q] \in ReconPc => row'.ended
    BY DEF KeptAll, KeptInv, Calm, Alone
  <1>3. ASSUME NEW q \in Closers PROVE CloserKeeps(q)'
    <2>1. CASE q # p
      <3>1. CloserKeeps(q) /\ pc'[q] = pc[q] /\ mem'[q] = mem[q] /\ batch'[q] = batch[q]
        BY <2>1 DEF KeptAll, KeptInv, Calm, Alone
      <3> QED
        BY <3>1 DEF CloserKeeps, WillCount, Calm
    <2> QED
      BY <2>1
  <1>4. ASSUME NEW q \in Sweepers PROVE SweeperKeeps(q)'
    <2>1. CASE q # p
      <3>1. SweeperKeeps(q) /\ pc'[q] = pc[q] /\ mem'[q] = mem[q]
        BY <2>1 DEF KeptAll, KeptInv, Calm, Alone
      <3> QED
        BY <3>1 DEF SweeperKeeps, Calm
    <2> QED
      BY <2>1
  <1> QED
    BY <1>1, <1>2, <1>3, <1>4 DEF KeptInv

LEMMA KeptFacts ==
    ASSUME KeptAll, NEW p \in Procs
    PROVE  /\ pc \in [Procs -> Pcs] /\ resume \in [Procs -> {"idle", "check", "ack", "raw"}]
           /\ ans \in [Procs -> Answers \cup {None}]
           /\ mem \in [Procs -> SessionState \cup {None}]
           /\ batch \in [Procs -> Seq(Answers)]
           /\ target \in [Procs -> Closed]
           /\ raw \in Seq(Answers) /\ sess \in SessionState \cup {None}
           /\ p \in Submitters <=> p \notin Closers
           /\ p \in Sweepers <=> p \notin Submitters /\ p \notin Flushers
  BY ProcessAssumption
  DEF KeptAll, LockInv, TypeInv, TypeOK, ProcTypeOK, BufferTypeOK, Procs, Closers

LEMMA ReturnCalm ==
    ASSUME KeptAll, NEW p \in Procs, Return(p), UNCHANGED tableVars,
           row.ended \/ (sess' = sess /\ raw' = raw)
    PROVE  KeptInv'
  <1> USE KeptFacts
  <1>1. pc'[p] = "idle" /\ Alone(p) /\ \A q \in Procs \ {p} : mem'[q] = mem[q]
    BY DEF Return, Goto, Alone
  <1>2. Calm(p)
    BY <1>1 DEF Calm, tableVars
  <1>3. CloserKeeps(p)' /\ SweeperKeeps(p)' /\ pc'[p] \notin ReconPc
    BY <1>1 DEF CloserKeeps, SweeperKeeps, WillCount, Reading, ReconPc
  <1> QED
    BY <1>2, <1>3, CalmStep

\* Steps that only move on.
LEMMA MoveCalm ==
    ASSUME KeptAll, NEW p \in Procs,
           NEW to \in ReconPc \cup {"append", "reload", "lock", "row", "load", "raw", "release",
                                    "clear", "sweepClear", "mark", "unlock"},
           Goto(p, to),
           \A q \in Procs \ {p} : /\ resume'[q] = resume[q] /\ ans'[q] = ans[q]
                                  /\ mem'[q] = mem[q] /\ batch'[q] = batch[q],
           UNCHANGED <<row, applied>>, pending' = pending \/ MarkRecovered,
           row.ended \/ (sess' = sess /\ raw' = raw),
           to \in ReconPc => row.ended /\ p \notin Sweepers,
           to = "raw" => row.ended \/ (mem'[p] # None /\ mem'[p].order = sess.order),
           p \in Sweepers /\ to \in {"load", "raw"} => ~row.ended
    PROVE  KeptInv'
  <1> USE KeptFacts
  <1>1. pending' = pending \/ (pending # None /\ pending' # None
                               /\ pending'.raw = pending.raw)
    <2>1. CASE pending # None /\ pending' = [pending EXCEPT !.recovered = TRUE]
      <3>1. pending \in Pending
        BY <2>1 DEF KeptAll, TypeInv, TypeOK, TablesTypeOK
      <3>2. pending' \in Pending /\ pending'.raw = pending.raw
        BY <2>1, <3>1 DEF Pending
      <3> QED
        BY <2>1, <3>2, NoneIsNoPending
    <2> QED
      BY <2>1 DEF MarkRecovered
  <1>2. Calm(p) /\ pc'[p] = to
    BY <1>1 DEF Goto, Calm, Alone
  <1>3. p \in Closers => CloserKeeps(p)'
    BY <1>2 DEF CloserKeeps, WillCount, ReconPc
  <1>4. p \in Sweepers => SweeperKeeps(p)'
    BY <1>2 DEF SweeperKeeps, Reading, ReconPc
  <1> QED
    BY <1>2, <1>3, <1>4, CalmStep

LEMMA SameKept ==
    ASSUME KeptAll,
           UNCHANGED <<pc, mem, batch, sess, raw, applied, row, pending>>
    PROVE  KeptInv'
  <1>1. CheckpointKept' /\ OpenKeeps'
    BY DEF KeptAll, KeptInv, CheckpointKept, OpenKeeps
  <1>2. \A p \in Closers : CloserKeeps(p)'
    BY DEF KeptAll, KeptInv, CloserKeeps, WillCount
  <1>3. \A p \in Sweepers : SweeperKeeps(p)'
    BY DEF KeptAll, KeptInv, SweeperKeeps
  <1> QED
    BY <1>1, <1>2, <1>3 DEF KeptAll, KeptInv

LEMMA LoadKeeps ==
    ASSUME KeptAll, NEW p \in Submitters, NEW a \in Answers, SubmitLoad(p, a)
    PROVE  KeptInv'
  <1> USE KeptFacts DEF Procs
  <1>1. /\ UNCHANGED <<mem, batch, sess, raw, applied, row, pending>>
        /\ \/ UNCHANGED <<pc, ans, resume>>
           \/ Goto(p, "append") \/ (Goto(p, "reconRead") /\ sess = None)
        /\ \A q \in Procs \ {p} : resume'[q] = resume[q] /\ ans'[q] = ans[q]
    BY DEF SubmitLoad, bufferVars, tableVars
  <1>2. sess = None => row.ended
    BY DEF KeptAll, KeptInv, OpenKeeps
  <1>3. p \notin Sweepers
    BY ProcessAssumption
  <1>4. CASE UNCHANGED pc
    BY <1>1, <1>4, SameKept
  <1>5. CASE Goto(p, "append") \/ (Goto(p, "reconRead") /\ sess = None)
    BY <1>1, <1>2, <1>3, <1>5, MoveCalm DEF ReconPc
  <1> QED
    BY <1>1, <1>4, <1>5

\* The script cuts nothing from the list of an open session.
LEMMA AppendKeeps ==
    ASSUME KeptAll, Undisturbed, NEW p \in Submitters, SubmitStep(p)
    PROVE  KeptInv'
  <1> USE KeptFacts DEF Procs
  <1>1. p \notin Sweepers /\ p \notin Closers
    BY ProcessAssumption DEF Closers
  <1>2. sess = None => row.ended
    BY DEF KeptAll, KeptInv, OpenKeeps
  <1>3. CASE /\ pc[p] = "append" /\ AppendAccepted(ans[p]) /\ Return(p)
             /\ UNCHANGED tableVars
    <2> DEFINE a == ans[p]
    <2>1. a \in Answers
      BY <1>3 DEF KeptAll, TypeInv, LocalOK
    <2>2. /\ \A q \in Procs \ {p} :
                pc'[q] = pc[q] /\ mem'[q] = mem[q] /\ batch'[q] = batch[q]
          /\ pc'[p] = "idle" /\ UNCHANGED <<applied, row, pending>>
      BY <1>3 DEF Return, Goto, tableVars
    <2>3. CASE row.ended
      <3>1. row'.ended
        BY <2>2, <2>3
      <3>2. CheckpointKept' /\ OpenKeeps'
        BY <2>2, <3>1 DEF KeptAll, KeptInv, CheckpointKept, OpenKeeps
      <3>3. \A q \in Closers : CloserKeeps(q)'
        BY <3>1 DEF CloserKeeps
      <3>4. \A q \in Sweepers : SweeperKeeps(q)'
        BY <1>1, <2>2 DEF KeptAll, KeptInv, SweeperKeeps
      <3> QED
        BY <3>1, <3>2, <3>3, <3>4 DEF KeptInv
    <2>4. CASE ~row.ended
      <3>1. /\ sess \in SessionState /\ sess.order \in Batches /\ sess.idx = Len(raw)
            /\ Len(raw) <= Len(sess.order)
            /\ pending # None => ToSet(pending.raw) \subseteq ToSet(raw)
        BY <1>3, <2>4 DEF KeptAll, KeptInv, OpenKeeps
      <3>2. /\ sess.idx \in Nat /\ Len(sess.order) \in Nat /\ Len(raw) \in Nat
            /\ Len(sess.order) <= MaxRawEvents /\ Len(raw) < Len(sess.order)
        <4>1. ~(sess.idx >= Len(sess.order))
          BY <1>3 DEF AppendAccepted, IsComplete
        <4>2. sess.idx \in Nat /\ Len(sess.order) \in Nat
          BY <3>1, LenProperties DEF SessionState
        <4> QED
          BY <3>1, <4>1, <4>2, LenProperties DEF Undisturbed
      <3>3. sess' \in SessionState /\ sess'.order = sess.order /\ sess'.idx = Len(raw) + 1
        BY <1>3, <3>1, AppendedState DEF KeptAll, TypeInv, TypeOK
      <3> DEFINE u == Append(raw, a)
      <3>4. u \in Seq(Answers) /\ Len(u) = Len(raw) + 1
            /\ \A k \in 1..Len(raw) : u[k] = raw[k]
        BY <2>1, AppendProperties
      <3>5. raw' = Trim(u)
        BY <1>3 DEF AppendAccepted
      <3> HIDE DEF u
      <3>6. raw' = u
        BY <3>2, <3>4, <3>5, BufferAssumption DEF Trim
      <3>7. ToSet(raw) \subseteq ToSet(raw')
        <4>1. DOMAIN raw = 1..Len(raw) /\ DOMAIN u = 1..Len(u)
          BY <3>4, LenProperties
        <4>2. \A k \in 1..Len(raw) : k \in 1..Len(u) /\ u[k] = raw[k]
          BY <3>2, <3>4
        <4>3. ToSet(raw) \subseteq ToSet(u)
          BY <4>1, <4>2 DEF ToSet
        <4> QED
          BY <3>6, <4>3
      <3>8. OpenKeeps'
        BY <2>2, <3>1, <3>2, <3>3, <3>4, <3>6, <3>7, NoneIsNoState DEF OpenKeeps
      <3>9. CheckpointKept'
        BY <2>2, <2>4 DEF CheckpointKept
      <3>10. ASSUME NEW q \in Closers PROVE CloserKeeps(q)'
        <4>1. q \in Procs \ {p}
          BY <1>1 DEF Closers
        <4> QED
          BY <2>2, <3>3, <3>7, <4>1 DEF KeptAll, KeptInv, CloserKeeps, WillCount
      <3>11. \A q \in Sweepers : SweeperKeeps(q)'
        BY <1>1, <2>2 DEF KeptAll, KeptInv, SweeperKeeps
      <3>12. \A q \in Procs : pc'[q] \in ReconPc => row'.ended
        BY <2>2 DEF KeptAll, KeptInv, ReconPc
      <3> QED
        BY <3>8, <3>9, <3>10, <3>11, <3>12 DEF KeptInv
    <2> QED
      BY <2>3, <2>4
  <1>4. CASE Return(p) /\ UNCHANGED <<bufferVars, tableVars>>
    BY <1>4, ReturnCalm DEF bufferVars
  <1>5. CASE /\ Goto(p, "reload") \/ (Goto(p, "reconRead") /\ sess = None)
             /\ \A q \in Procs \ {p} : resume'[q] = resume[q]
             /\ UNCHANGED <<ans, mem, batch, bufferVars, tableVars>>
    BY <1>1, <1>2, <1>5, MoveCalm DEF ReconPc, bufferVars, tableVars
  <1> QED
    BY <1>3, <1>4, <1>5 DEF SubmitStep, SubmitAppend, SubmitReload, AppendMiss

\* Only a closed session is reconstructed.
LEMMA ReconstructKeeps ==
    ASSUME KeptAll, NEW p \in Submitters \cup Flushers, Reconstruct(p)
    PROVE  KeptInv'
  <1> USE KeptFacts DEF Procs
  <1>1. row.ended /\ UNCHANGED tableVars
    <2>1. pc[p] \in ReconPc
      BY DEF Reconstruct, ReconstructRead, ReconstructSave, ReconstructActivate,
             Step, ReconPc
    <2> QED
      BY <2>1 DEF KeptAll, KeptInv, Reconstruct, ReconstructRead, ReconstructSave,
                  ReconstructActivate
  <1>2. p \notin Sweepers
    BY ProcessAssumption
  <1>3. CASE Return(p)
    BY <1>1, <1>3, ReturnCalm
  <1>4. CASE /\ \E to \in {"reconSave", "reconActive", "append", "raw", "unlock"} : Goto(p, to)
             /\ \A q \in Procs \ {p} :
                   /\ resume'[q] = resume[q] /\ ans'[q] = ans[q]
                   /\ mem'[q] = mem[q] /\ batch'[q] = batch[q]
    BY <1>1, <1>2, <1>4, MoveCalm DEF ReconPc, tableVars
  <1>5. CASE ReconstructRead(p)
    BY <1>3, <1>4, <1>5 DEF ReconstructRead
  <1>6. CASE ReconstructSave(p)
    BY <1>4, <1>6 DEF ReconstructSave, Step
  <1>7. CASE ReconstructActivate(p)
    <2>1. \/ Return(p)
          \/ /\ Goto(p, "append") /\ mem' = [mem EXCEPT ![p] = None]
             /\ resume' = [resume EXCEPT ![p] = "idle"] /\ UNCHANGED <<ans, batch>>
          \/ /\ Goto(p, "raw") /\ resume' = [resume EXCEPT ![p] = "idle"]
             /\ UNCHANGED <<ans, mem, batch>>
      BY <1>7 DEF ReconstructActivate
    <2> QED
      BY <1>3, <1>4, <2>1
  <1> QED
    BY <1>5, <1>6, <1>7 DEF Reconstruct

\* Who flushes alone: everybody else is outside while p is inside.
LEMMA OthersOutside ==
    ASSUME KeptAll, NEW p \in Closers, pc[p] \in CriticalPc
    PROVE  \A q \in Closers \ {p} : pc[q] \notin CriticalPc
  BY DEF KeptAll, LockInv, OneFlusher, InCritical, Closers, Procs

\* The batch is the whole list, and with it what was checkpointed.
LEMMA ReadKeeps ==
    ASSUME KeptAll, NEW p \in Closers, FlushReadRaw(p) \/ (p \in Sweepers /\ SweepReadRaw(p))
    PROVE  KeptInv'
  <1> USE KeptFacts DEF Procs, Closers
  <1>1. /\ pc[p] = "raw" /\ batch' = [batch EXCEPT ![p] = raw]
        /\ UNCHANGED <<resume, ans, mem, sess, raw, applied, row, pending>>
    BY DEF FlushReadRaw, SweepReadRaw, bufferVars, tableVars
  <1>2. PICK to \in {"checkpoint", "commit"} : pc' = [pc EXCEPT ![p] = to]
    BY DEF FlushReadRaw, SweepReadRaw, Goto, KeptAll, KeptInv, SweeperKeeps
  <1>3. Calm(p) /\ pc'[p] = to /\ batch'[p] = raw
    BY <1>1, <1>2 DEF Calm, Alone
  <1>4. CloserKeeps(p)'
    BY <1>1, <1>3 DEF KeptAll, KeptInv, CloserKeeps, OpenKeeps, WillCount
  <1>5. p \in Sweepers => SweeperKeeps(p)'
    BY <1>1, <1>3 DEF KeptAll, KeptInv, SweeperKeeps, Reading, ReconPc
  <1>6. pc'[p] \notin ReconPc
    BY <1>3 DEF ReconPc
  <1> QED
    BY <1>3, <1>4, <1>5, <1>6, CalmStep

\* A checkpoint is taken of an open session, from a batch of its buffer.
LEMMA CheckpointKeeps ==
    ASSUME KeptAll, NEW p \in Sweepers, SweepCheckpoint(p)
    PROVE  KeptInv'
  <1> USE KeptFacts DEF Procs, Closers
  <1>1. /\ pc[p] = "checkpoint" /\ pc' = [pc EXCEPT ![p] = "commit"]
        /\ pending'.raw = batch[p]
        /\ UNCHANGED <<resume, ans, mem, batch, sess, raw, applied, row>>
    BY DEF SweepCheckpoint, Step, Goto, SavePending, bufferVars
  <1>2. ~row.ended
    BY <1>1 DEF KeptAll, KeptInv, SweeperKeeps, Reading
  <1>3. /\ mem[p] # None /\ mem[p].order = sess.order
        /\ Len(batch[p]) <= Len(sess.order) /\ ToSet(batch[p]) \subseteq ToSet(raw)
    BY <1>1, <1>2 DEF KeptAll, KeptInv, CloserKeeps, WillCount
  <1>4. \A q \in Closers \ {p} : pc[q] \notin CriticalPc
    BY <1>1, OthersOutside DEF CriticalPc
  <1>5. CheckpointKept' /\ OpenKeeps'
    BY <1>1, <1>2, <1>3 DEF CheckpointKept, OpenKeeps, KeptAll, KeptInv
  <1>6. \A q \in Procs : pc'[q] \in ReconPc => row'.ended
    BY <1>1 DEF KeptAll, KeptInv, ReconPc
  <1>7. ASSUME NEW q \in Closers PROVE CloserKeeps(q)'
    <2>1. CASE q = p
      BY <1>1, <1>3, <2>1 DEF CloserKeeps, WillCount
    <2>2. CASE q # p
      <3>1. pc'[q] = pc[q] /\ pc[q] \notin CriticalPc
        BY <1>1, <1>4, <2>2
      <3> QED
        BY <3>1 DEF CloserKeeps, WillCount, CriticalPc
    <2> QED
      BY <2>1, <2>2
  <1>8. ASSUME NEW q \in Sweepers PROVE SweeperKeeps(q)'
    <2>1. CASE q = p
      BY <1>1, <1>2, <2>1 DEF SweeperKeeps, ReconPc
    <2>2. CASE q # p
      BY <1>1, <2>2 DEF KeptAll, KeptInv, SweeperKeeps
    <2> QED
      BY <2>1, <2>2
  <1> QED
    BY <1>5, <1>6, <1>7, <1>8 DEF KeptInv

\* A batch that is not cut is counted to its last answer.
LEMMA FinaliseCountsAll ==
    ASSUME KeptAll, NEW p \in Closers, pc[p] = "commit",
           FinaliseBatch(mem[p], batch[p], target[p])
    PROVE  /\ row'.ended /\ pending' = pending
           /\ \A a \in Answers : applied'[a] >= applied[a]
           /\ ~row.ended => \A a \in ToSet(batch[p]) : applied'[a] >= 1
  <1> DEFINE b == batch[p]
             t == Truncated(mem[p], b)
             n(a) == Cardinality({k \in 1..Len(t) : t[k] = a})
  <1>1. b \in Seq(Answers) /\ mem[p] \in SessionState
    BY KeptFacts, MemIsState DEF KeptAll, Procs, Closers
  <1>2. \A a \in Answers : applied[a] \in Nat
    BY DEF KeptAll, TypeInv, TypeOK, TablesTypeOK
  <1>3. CASE b = <<>>
    <2>1. CloseEmpty(target[p])
      BY <1>3 DEF FinaliseBatch
    <2>2. row \in Row
      BY DEF KeptAll, TypeInv, TypeOK, TablesTypeOK
    <2>3. row'.ended /\ pending' = pending /\ applied' = applied
      BY <2>1, <2>2 DEF CloseEmpty, Row
    <2>4. ToSet(b) = {}
      BY <1>3 DEF ToSet
    <2> QED
      BY <1>2, <2>3, <2>4
  <1>4. CASE b # <<>>
    <2>1. CloseWith(t, target[p])
      BY <1>4 DEF FinaliseBatch
    <2>2. t \in Seq(Answers)
      BY <1>1, TruncatedType
    <2>3. \A a : n(a) \in Nat
      <3> HIDE DEF t
      <3> QED
        BY <2>2, CountType
    <2>4. \A a \in Answers : applied'[a] = applied[a] + n(a)
      BY <2>1 DEF CloseWith
    <2>5. ASSUME ~row.ended, NEW a \in ToSet(b) PROVE n(a) >= 1
      <3>1. Len(b) <= Len(sess.order) /\ mem[p].order = sess.order
        BY <2>5 DEF KeptAll, KeptInv, CloserKeeps, WillCount
      <3>2. Len(b) \in Nat /\ Len(mem[p].order) \in Nat
        BY <1>1, LenProperties DEF SessionState
      <3>3. t = b
        BY <3>1, <3>2 DEF Truncated
      <3>4. PICK k \in 1..Len(b) : b[k] = a
        BY <1>1, <2>5, LenProperties DEF ToSet
      <3> DEFINE at == {j \in 1..Len(t) : t[j] = a}
      <3>5. IsFiniteSet(at)
        <4>1. IsFiniteSet(1..Len(t))
          BY <3>2, <3>3, FS_Interval
        <4> QED
          BY <4>1, FS_Subset
      <3>6. at # {}
        BY <3>3, <3>4
      <3> HIDE DEF at
      <3>7. Cardinality(at) \in Nat /\ Cardinality(at) # 0
        BY <3>5, <3>6, FS_CardinalityType, FS_EmptySet
      <3>8. Cardinality(at) >= 1
        BY <3>7
      <3> QED
        BY <3>8 DEF at
    <2>6. ToSet(b) \subseteq Answers
      BY <1>1, LenProperties, ElementOfSeq DEF ToSet
    <2> HIDE DEF n
    <2>7. \A a \in Answers : applied'[a] >= applied[a]
      BY <1>2, <2>3, <2>4
    <2>8. ~row.ended => \A a \in ToSet(b) : applied'[a] >= 1
      BY <1>2, <2>3, <2>4, <2>5, <2>6
    <2> QED
      BY <2>1, <2>7, <2>8 DEF CloseWith
  <1> QED
    BY <1>3, <1>4

LEMMA CommitKeeps ==
    ASSUME KeptAll, NEW p \in Closers, Commit(p)
    PROVE  KeptInv'
  <1> USE KeptFacts DEF Procs, Closers
  <1>1. pc[p] = "commit" /\ UNCHANGED <<resume, ans, mem, batch, sess, raw>>
    BY DEF Commit, bufferVars
  <1>2. CASE /\ FinaliseBatch(mem[p], batch[p], target[p])
             /\ pc' = [pc EXCEPT ![p] = "delete"]
    <2>1. /\ row'.ended /\ pending' = pending
          /\ \A a \in Answers : applied'[a] >= applied[a]
          /\ ~row.ended => \A a \in ToSet(batch[p]) : applied'[a] >= 1
      BY <1>1, <1>2, FinaliseCountsAll
    <2>2. \A q \in Closers \ {p} : pc[q] \notin CriticalPc
      BY <1>1, OthersOutside DEF CriticalPc
    <2>3. pc'[p] = "delete" /\ \A q \in Procs \ {p} : pc'[q] = pc[q]
      BY <1>2
    <2>4. CheckpointKept'
      <3> SUFFICES ASSUME pending # None, NEW a \in ToSet(pending.raw)
                   PROVE  applied'[a] >= 1
        BY <2>1 DEF CheckpointKept
      <3>1. CASE row.ended
        <4>1. a \in Answers /\ applied[a] >= 1
          <5>1. pending.raw \in Seq(Answers)
            BY DEF KeptAll, TypeInv, TypeOK, TablesTypeOK, Pending
          <5>2. ToSet(pending.raw) \subseteq Answers
            BY <5>1, LenProperties, ElementOfSeq DEF ToSet
          <5> QED
            BY <3>1, <5>2 DEF KeptAll, KeptInv, CheckpointKept
        <4>2. applied'[a] >= applied[a] /\ applied[a] \in Nat /\ applied'[a] \in Nat
          <5>1. applied' \in [Answers -> Nat]
            BY <1>1, <1>2, FinaliseType, MemIsState
            DEF KeptAll, TypeInv, TypeOK, TablesTypeOK
          <5> QED
            BY <2>1, <4>1, <5>1 DEF KeptAll, TypeInv, TypeOK, TablesTypeOK
        <4> QED
          BY <4>1, <4>2
      <3>2. CASE ~row.ended
        BY <1>1, <2>1, <3>2 DEF KeptAll, KeptInv, CloserKeeps, WillCount
      <3> QED
        BY <3>1, <3>2
    <2>5. OpenKeeps'
      BY <2>1 DEF OpenKeeps
    <2>6. \A q \in Closers : CloserKeeps(q)'
      BY <2>1 DEF CloserKeeps
    <2>7. ASSUME NEW q \in Sweepers PROVE SweeperKeeps(q)'
      <3>1. pc'[q] \notin CriticalPc \ {"delete"}
        BY <2>2, <2>3
      <3> QED
        BY <3>1 DEF SweeperKeeps, Reading, CriticalPc, ReconPc
    <2> QED
      BY <2>1, <2>4, <2>5, <2>6, <2>7 DEF KeptInv
  <1>3. CASE Goto(p, "unlock") /\ UNCHANGED tableVars
    BY <1>1, <1>3, MoveCalm DEF tableVars, ReconPc
  <1> QED
    BY <1>2, <1>3 DEF Commit, Goto

\* finalise and abandon.
LEMMA FlushKeeps ==
    ASSUME KeptAll, NEW p \in Flushers,
           (\E st \in Closed : FlushRequest(p, st)) \/ FlushStep(p)
    PROVE  KeptInv'
  <1> USE KeptFacts DEF Procs, Closers
  <1>1. p \notin Sweepers
    BY ProcessAssumption
  <1>2. CASE \E st \in Closed : FlushRequest(p, st)
    <2>1. PICK to \in {"clear", "lock"} : Goto(p, to)
      BY <1>2 DEF FlushRequest
    <2>2. UNCHANGED <<resume, ans, mem, batch, sess, raw, applied, row, pending>>
      BY <1>2 DEF FlushRequest, bufferVars, tableVars
    <2> QED
      BY <1>1, <2>1, <2>2, MoveCalm DEF ReconPc
  <1>3. CASE FlushLock(p)
    <2>1. CASE Return(p)
      BY <1>3, <2>1, ReturnCalm DEF FlushLock, TakeLock, AcquireFlushLock, bufferVars
    <2>2. CASE AcquireFlushLock /\ Goto(p, "load") /\ UNCHANGED <<resume, ans, mem, batch>>
      BY <1>1, <1>3, <2>2, MoveCalm DEF FlushLock, TakeLock, AcquireFlushLock, tableVars,
                                        ReconPc
    <2> QED
      BY <1>3, <2>1, <2>2 DEF FlushLock, TakeLock
  <1>4. CASE FlushLoad(p)
    <2>1. sess = None => row.ended
      BY DEF KeptAll, KeptInv, OpenKeeps
    <2>2. /\ UNCHANGED <<ans, batch, sess, raw, applied, row, pending>>
          /\ \A q \in Procs \ {p} : mem'[q] = mem[q] /\ resume'[q] = resume[q]
          /\ \/ sess # None /\ mem'[p] = sess /\ Goto(p, "raw")
             \/ sess = None /\ Goto(p, "reconRead")
      BY <1>4 DEF FlushLoad, bufferVars, tableVars
    <2> QED
      BY <1>1, <2>1, <2>2, MoveCalm DEF ReconPc
  <1>5. CASE FlushReadRaw(p)
    BY <1>5, ReadKeeps
  <1>6. CASE Commit(p)
    BY <1>6, CommitKeeps
  <1>7. CASE FlushDelete(p)
    <2>1. row.ended
      BY <1>7 DEF FlushDelete, DropBuffer, KeptAll, KeptInv, CloserKeeps
    <2>2. PICK to \in {"release", "unlock"} : Goto(p, to)
      BY <1>7 DEF FlushDelete, DropBuffer
    <2>3. UNCHANGED <<resume, ans, mem, batch, applied, row, pending>>
      BY <1>7 DEF FlushDelete, DropBuffer, tableVars
    <2> QED
      BY <1>1, <2>1, <2>2, <2>3, MoveCalm DEF ReconPc
  <1>8. CASE FlushRelease(p)
    <2>1. /\ Goto(p, "clear")
          /\ UNCHANGED <<resume, ans, mem, batch, sess, raw, applied, row, pending>>
      BY <1>8 DEF FlushRelease, Step, ReleaseFlushLock, tableVars
    <2> QED
      BY <1>1, <2>1, MoveCalm DEF ReconPc
  <1>9. CASE FlushClear(p) \/ Unlock(p)
    BY <1>9, ReturnCalm DEF FlushClear, Unlock, ClearActive, ReleaseFlushLock
  <1> QED
    BY <1>2, <1>3, <1>4, <1>5, <1>6, <1>7, <1>8, <1>9 DEF FlushStep

LEMMA SweepKeeps ==
    ASSUME KeptAll, NEW p \in Sweepers,
           SweepSelect(p) \/ SweepLock(p) \/ SweepStep(p)
    PROVE  KeptInv'
  <1> USE KeptFacts DEF Procs, Closers
  <1>1. CASE SweepSelect(p) \/ SweepRow(p) \/ SweepClear(p) \/ SweepMark(p)
    <2>1. /\ UNCHANGED <<resume, ans, mem, batch, sess, raw, applied, row>>
          /\ pending' = pending \/ MarkRecovered
      BY <1>1 DEF SweepSelect, SweepRow, SweepClear, SweepMark, Step, ClearActive,
                  MarkRecovered, bufferVars, tableVars
    <2>2. \E to \in {"lock", "mark", "unlock", "load"} :
             Goto(p, to) /\ (to = "load" => ~row.ended)
      BY <1>1 DEF SweepSelect, SweepRow, SweepClear, SweepMark, Step
    <2> QED
      BY <2>1, <2>2, MoveCalm DEF ReconPc
  <1>2. CASE SweepLock(p)
    <2>1. CASE Return(p)
      BY <1>2, <2>1, ReturnCalm DEF SweepLock, TakeLock, AcquireFlushLock, bufferVars
    <2>2. CASE AcquireFlushLock /\ Goto(p, "row") /\ UNCHANGED <<resume, ans, mem, batch>>
      BY <1>2, <2>2, MoveCalm DEF SweepLock, TakeLock, AcquireFlushLock, tableVars, ReconPc
    <2> QED
      BY <1>2, <2>1, <2>2 DEF SweepLock, TakeLock
  <1>3. CASE SweepLoad(p)
    <2>1. ~row.ended /\ sess # None
      BY <1>3 DEF SweepLoad, KeptAll, KeptInv, SweeperKeeps, OpenKeeps, Reading
    <2>2. /\ UNCHANGED <<resume, ans, batch, sess, raw, applied, row, pending>>
          /\ mem' = [mem EXCEPT ![p] = sess] /\ Goto(p, "raw")
      BY <1>3 DEF SweepLoad, bufferVars, tableVars
    <2>3. mem'[p] = sess /\ \A q \in Procs \ {p} : mem'[q] = mem[q]
      BY <2>2
    <2> QED
      BY <2>1, <2>2, <2>3, MoveCalm DEF ReconPc
  <1>4. CASE SweepReadRaw(p)
    BY <1>4, ReadKeeps
  <1>5. CASE SweepCheckpoint(p)
    BY <1>5, CheckpointKeeps
  <1>6. ~SweepRecover(p)
    BY DEF SweepRecover, KeptAll, KeptInv, SweeperKeeps
  <1>7. CASE Commit(p)
    BY <1>7, CommitKeeps
  <1>8. CASE SweepDelete(p)
    <2>1. row.ended
      BY <1>8 DEF SweepDelete, DropBuffer, KeptAll, KeptInv, CloserKeeps
    <2>2. PICK to \in {"sweepClear", "unlock"} : Goto(p, to)
      BY <1>8 DEF SweepDelete, DropBuffer
    <2>3. UNCHANGED <<resume, ans, mem, batch, applied, row, pending>>
      BY <1>8 DEF SweepDelete, DropBuffer, tableVars
    <2> QED
      BY <2>1, <2>2, <2>3, MoveCalm DEF ReconPc
  <1>9. CASE Unlock(p)
    BY <1>9, ReturnCalm DEF Unlock, ReleaseFlushLock
  <1> QED
    BY <1>1, <1>2, <1>3, <1>4, <1>5, <1>6, <1>7, <1>8, <1>9 DEF SweepStep

LEMMA KeptStep ==
    ASSUME KeptAll, Undisturbed, [Next]_vars
    PROVE  KeptInv'
  <1>1. CASE UNCHANGED vars
    BY <1>1, SameKept DEF vars, procVars, bufferVars, tableVars
  <1>2. ASSUME NEW p \in Submitters, SubmitRequest(p) \/ SubmitStep(p) \/ Reconstruct(p)
        PROVE  KeptInv'
    <2>1. ~ViewActive(p) /\ ~ResumeOnStart(p)
      BY DEF Undisturbed, ViewActive, ResumeOnStart
    <2>2. CASE RefreshConfig(p)
      <3>1. /\ Goto(p, "reconRead") /\ row.ended /\ p \notin Sweepers
            /\ UNCHANGED <<resume, ans, mem, batch, sess, raw, applied, row, pending>>
        BY <2>2, ProcessAssumption
        DEF RefreshConfig, KeptAll, KeptInv, OpenKeeps, bufferVars, tableVars
      <3> QED
        BY <3>1, MoveCalm DEF Procs, ReconPc
    <2> QED
      BY <1>2, <2>1, <2>2, LoadKeeps, AppendKeeps, ReconstructKeeps DEF SubmitRequest
  <1>3. ASSUME NEW p \in Flushers,
               (\E st \in Closed : FlushRequest(p, st)) \/ FlushStep(p) \/ Reconstruct(p)
        PROVE  KeptInv'
    BY <1>3, FlushKeeps, ReconstructKeeps
  <1>4. ASSUME NEW p \in Sweepers, SweepSelect(p) \/ SweepLock(p) \/ SweepStep(p)
        PROVE  KeptInv'
    BY <1>4, SweepKeeps
  <1>5. CASE Crash
    <2>1. /\ \A p \in Procs : pc'[p] = "idle"
          /\ UNCHANGED <<sess, raw, applied, row, pending>>
      BY <1>5 DEF Crash, bufferVars, tableVars
    <2>2. CheckpointKept' /\ OpenKeeps'
      BY <2>1 DEF KeptAll, KeptInv, CheckpointKept, OpenKeeps
    <2> QED
      BY <2>1, <2>2 DEF KeptInv, CloserKeeps, SweeperKeeps, WillCount, Reading, ReconPc,
                        Procs, Closers
  <1>6. CASE LockExpires
    BY <1>6, SameKept DEF LockExpires, ReleaseFlushLock, tableVars
  <1>7. ~RedisLoses /\ ~DeleteSet
    BY DEF Undisturbed, RedisLoses, DeleteSet, Fault
  <1> QED
    BY <1>1, <1>2, <1>3, <1>4, <1>5, <1>6, <1>7 DEF Next

\* An answer the sweeper has checkpointed is counted once the session is
\* closed, be it by the sweeper, after a crash, or by the user
\* (save_pending_session, finalise_session, _flush_one).
THEOREM CheckpointsAreCounted ==
    ASSUME Undisturbed
    PROVE  Spec => []CheckpointKept
  <1>1. Init => KeptAll
    BY KeptInit, TypeInvInit, LockInvInit DEF KeptAll
  <1>2. KeptAll /\ [Next]_vars => KeptAll'
    <2> SUFFICES ASSUME KeptAll, [Next]_vars PROVE KeptAll'
      OBVIOUS
    <2>1. LockIsKept
      BY DEF Undisturbed, LockIsKept
    <2> QED
      BY <2>1, TypeInvStep, LockInvStep, KeptStep DEF KeptAll
  <1>3. KeptAll => CheckpointKept
    BY DEF KeptAll, KeptInv
  <1> QED
    BY <1>1, <1>2, <1>3, PTL DEF Spec
=============================================================================
