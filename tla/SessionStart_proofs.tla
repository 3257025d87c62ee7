------------------------- MODULE SessionStart_proofs -------------------------
(***************************************************************************)
(* Theorems about SessionStart, for any sets, items, sessions and requests *)
(* of one user.                                                            *)
(***************************************************************************)
EXTENDS SessionStart, TLAPS

\* The lock's TTL does not run out under a start.
StartLockIsKept == "lockExpiry" \notin Events

\* A request that is under way has the lock, alone.
Alone ==
    /\ \A r \in Requests : ~At(r, "idle") => lock.held
    /\ \A r, q \in Requests : ~At(r, "idle") /\ ~At(q, "idle") => r = q

\* Rows are created in order, and one that is open beside a later one of its
\* context is one that a start failed to resume.
RowsOK ==
    /\ \A s, t \in Sessions :
          row[s].is = "open" /\ row[t].is = "open" /\ row[s].ctx = row[t].ctx
          /\ s < t => s \in gaveUp
    /\ \A s, t \in Sessions : row[s].is = "none" /\ s <= t => row[t].is = "none"

\* The open sessions of r's context, but for the one it tries to resume, are
\* ones that a start failed to resume.
OthersGivenUp(r) ==
    \A t \in Sessions :
        row[t].is = "open" /\ row[t].ctx = req[r].ctx
            => t = req[r].id \/ t \in gaveUp

Resuming == {"read", "save", "point"}
Making == {"saveNew", "pointNew", "commit"}

PlaceOK(r) ==
    /\ req[r].at \notin {"idle", "release"} => req[r].ctx \in Contexts
    /\ req[r].at = "load" => req[r].id \in Sessions
    /\ req[r].at \in Resuming =>
          /\ req[r].id \in Sessions
          /\ row[req[r].id].is \in {"open", "closed"}
          /\ row[req[r].id].ctx = req[r].ctx
          /\ OthersGivenUp(r)
    /\ req[r].at \in {"save", "point"} \cup Making => req[r].state \in State
    /\ req[r].at = "select" => req[r].id = None /\ OthersGivenUp(r)
    /\ req[r].at \in Making =>
          /\ req[r].id \in Sessions
          /\ row[req[r].id].is = "new" /\ row[req[r].id].ctx = req[r].ctx
          /\ req[r].seeds \subseteq row[req[r].id].first
          /\ OthersGivenUp(r)
          /\ \A t \in Sessions : t > req[r].id => row[t].is = "none"

StartInv ==
    /\ StartTypeOK /\ Alone /\ RowsOK /\ NoTraceOfFailedStart
    /\ \A r \in Requests : PlaceOK(r)

LEMMA StartInit == Init => StartInv
  <1> SUFFICES ASSUME Init PROVE StartInv
    OBVIOUS
  <1> USE StartAssumption
  <1>1. StartTypeOK
    <2>1. req \in [Requests -> Local]
      BY DEF Init, Idle, Local, Places
    <2>2. progress \in [Items -> Progress]
      BY DEF Init, Progress
    <2>3. row \in [Sessions -> Row]
      BY DEF Init, NoRow, Row
    <2>4. lock \in [held : BOOLEAN, ttl : BOOLEAN]
      BY DEF Init, Free
    <2> QED
      BY <2>1, <2>2, <2>3, <2>4 DEF Init, StartTypeOK
  <1>2. Alone /\ RowsOK /\ NoTraceOfFailedStart
    BY DEF Init, Alone, RowsOK, NoTraceOfFailedStart, At, Idle, NoRow
  <1>3. \A r \in Requests : PlaceOK(r)
    BY DEF Init, PlaceOK, Idle, Resuming, Making
  <1> QED
    BY <1>1, <1>2, <1>3 DEF StartInv

-----------------------------------------------------------------------------
(***************************************************************************)
(* Frames.                                                                 *)
(***************************************************************************)
\* A request that is under way goes on: it is still the only one.
LEMMA GoesOn ==
    ASSUME StartInv, NEW r \in Requests, ~At(r, "idle"), lock' = lock,
           \A q \in Requests \ {r} : req'[q] = req[q], PlaceOK(r)'
    PROVE  Alone' /\ \A q \in Requests : PlaceOK(q)'
  <1>1. \A q \in Requests \ {r} : req[q].at = "idle" /\ req'[q].at = "idle"
    BY DEF StartInv, Alone, At
  <1>2. \A q \in Requests \ {r} : PlaceOK(q)'
    BY <1>1 DEF PlaceOK, Resuming, Making
  <1>3. Alone'
    BY <1>1 DEF StartInv, Alone, At
  <1> QED
    BY <1>2, <1>3

\* A row may be closed at any time.
Closes ==
    \A s \in Sessions :
        \/ row'[s] = row[s]
        \/ /\ row[s].is = "open" /\ row'[s].is = "closed"
           /\ row'[s].ctx = row[s].ctx /\ row'[s].first = row[s].first

LEMMA RowsKept ==
    ASSUME StartInv, Closes, gaveUp \subseteq gaveUp'
    PROVE  RowsOK'
  BY DEF StartInv, RowsOK, Closes

LEMMA TraceKept ==
    ASSUME StartInv, Closes,
           \A i \in Items : progress'[i] = "seeded" => progress[i] = "seeded"
    PROVE  NoTraceOfFailedStart'
  <1> SUFFICES ASSUME NEW i \in Items, progress'[i] = "seeded"
               PROVE  \E s \in Sessions :
                         row'[s].is \in {"open", "closed"} /\ i \in row'[s].first
    BY DEF NoTraceOfFailedStart
  <1>1. PICK s \in Sessions : row[s].is \in {"open", "closed"} /\ i \in row[s].first
    BY DEF StartInv, NoTraceOfFailedStart
  <1>2. row'[s].is \in {"open", "closed"} /\ i \in row'[s].first
    BY <1>1 DEF Closes
  <1> QED
    BY <1>2

\* What other parts do, no request notices.
LEMMA Elsewhere ==
    ASSUME StartInv, Closes, UNCHANGED <<req, lock, gaveUp>>,
           \A i \in Items : progress'[i] = "seeded" => progress[i] = "seeded",
           StartTypeOK'
    PROVE  StartInv'
  <1>1. Alone'
    BY DEF StartInv, Alone, At
  <1>2. ASSUME NEW r \in Requests PROVE PlaceOK(r)'
    <2>1. PlaceOK(r)
      BY DEF StartInv
    <2>2. OthersGivenUp(r) => OthersGivenUp(r)'
      BY DEF OthersGivenUp, Closes
    <2> QED
      BY <2>1, <2>2 DEF PlaceOK, Closes, Resuming, Making
  <1> QED
    BY <1>1, <1>2, RowsKept, TraceKept DEF StartInv

LEMMA EnvironmentStep ==
    ASSUME StartInv,
           \/ \E s \in Sessions :
                 \/ Checkpoint(s) \/ CloseCommit(s) \/ CloseDelete(s) \/ CloseClear(s)
                 \/ \E i \in Items : Answer(s, i)
           \/ \E c \in Sets : DeleteSet(c)
           \/ \E i \in Items : FallDue(i)
           \/ Evict
    PROVE  StartInv'
  <1> USE StartAssumption DEF redisVars, tableVars
  <1>0. StartTypeOK
    BY DEF StartInv
  <1>1. ASSUME NEW s \in Sessions, Checkpoint(s) PROVE StartInv'
    <2>1. sess[s] \in State
      BY <1>0, <1>1 DEF Checkpoint, StartTypeOK
    <2>2. saved' \in [Sessions -> SUBSET Items]
      BY <1>0, <1>1, <2>1 DEF Checkpoint, StartTypeOK, State
    <2>3. StartTypeOK'
      BY <1>0, <1>1, <2>2 DEF Checkpoint, StartTypeOK
    <2> QED
      BY <1>1, <2>3, Elsewhere DEF Checkpoint, Closes
  <1>2. ASSUME NEW s \in Sessions, CloseCommit(s) PROVE StartInv'
    <2>1. sess[s] \in State /\ row[s] \in Row
      BY <1>0, <1>2 DEF CloseCommit, StartTypeOK
    <2>2. saved' \in [Sessions -> SUBSET Items]
      BY <1>0, <1>2, <2>1 DEF CloseCommit, StartTypeOK, State
    <2>3. row' \in [Sessions -> Row]
      BY <1>0, <1>2, <2>1 DEF CloseCommit, StartTypeOK, Row
    <2>4. progress' \in [Items -> Progress]
      BY <1>0, <1>2 DEF CloseCommit, StartTypeOK, Progress
    <2>5. StartTypeOK'
      BY <1>0, <1>2, <2>2, <2>3, <2>4 DEF CloseCommit, StartTypeOK
    <2>6. Closes
      BY <1>0, <1>2, <2>1 DEF CloseCommit, Closes, StartTypeOK, Row
    <2>7. \A i \in Items : progress'[i] = "seeded" => progress[i] = "seeded"
      BY <1>2 DEF CloseCommit
    <2> QED
      BY <1>2, <2>5, <2>6, <2>7, Elsewhere DEF CloseCommit
  <1>3. ASSUME NEW s \in Sessions, CloseDelete(s) PROVE StartInv'
    <2>1. StartTypeOK'
      BY <1>0, <1>3 DEF CloseDelete, StartTypeOK
    <2> QED
      BY <1>3, <2>1, Elsewhere DEF CloseDelete, Closes
  <1>4. ASSUME NEW s \in Sessions, CloseClear(s) PROVE StartInv'
    <2>1. StartTypeOK'
      BY <1>0, <1>4 DEF CloseClear, ClearActive, StartTypeOK
    <2> QED
      BY <1>4, <2>1, Elsewhere DEF CloseClear, Closes
  <1>5. ASSUME NEW s \in Sessions, NEW i \in Items, Answer(s, i) PROVE StartInv'
    <2>1. sess[s] \in State
      BY <1>0, <1>5 DEF Answer, StartTypeOK
    <2>2. sess' \in [Sessions -> State \union {None}]
      BY <1>0, <1>5, <2>1 DEF Answer, StartTypeOK, State
    <2>3. StartTypeOK'
      BY <1>0, <1>5, <2>2 DEF Answer, StartTypeOK
    <2> QED
      BY <1>5, <2>3, Elsewhere DEF Answer, Closes
  <1>6. ASSUME NEW c \in Sets, DeleteSet(c) PROVE StartInv'
    <2>1. row' \in [Sessions -> Row] /\ Closes
      <3>1. \A s \in Sessions :
               row[s] \in Row /\ [row[s] EXCEPT !.is = "closed"]
                                = [is |-> "closed", ctx |-> row[s].ctx,
                                   first |-> row[s].first]
        BY <1>0 DEF StartTypeOK, Row
      <3>2. \A s \in Sessions :
               row'[s] = IF row[s].is = "open" /\ row[s].ctx = c
                         THEN [is |-> "closed", ctx |-> row[s].ctx,
                               first |-> row[s].first]
                         ELSE row[s]
        BY <1>6, <3>1 DEF DeleteSet
      <3>3. ASSUME NEW s \in Sessions PROVE row'[s] \in Row
        <4>1. row[s] \in Row
          BY <3>1
        <4>2. [is |-> "closed", ctx |-> row[s].ctx, first |-> row[s].first] \in Row
          BY <4>1 DEF Row
        <4> QED
          BY <3>2, <4>1, <4>2
      <3>4. row' \in [Sessions -> Row]
        BY <1>6, <3>3 DEF DeleteSet
      <3> QED
        BY <3>2, <3>4 DEF Closes
    <2>2. StartTypeOK'
      BY <1>0, <1>6, <2>1 DEF DeleteSet, StartTypeOK
    <2> QED
      BY <1>6, <2>1, <2>2, Elsewhere DEF DeleteSet
  <1>7. ASSUME NEW i \in Items, FallDue(i) PROVE StartInv'
    <2>1. progress' \in [Items -> Progress]
      BY <1>0, <1>7 DEF FallDue, StartTypeOK, Progress
    <2>2. StartTypeOK'
      BY <1>0, <1>7, <2>1 DEF FallDue, StartTypeOK
    <2>3. \A j \in Items : progress'[j] = "seeded" => progress[j] = "seeded"
      BY <1>0, <1>7 DEF FallDue, StartTypeOK
    <2> QED
      BY <1>7, <2>2, <2>3, Elsewhere DEF FallDue, Closes
  <1>8. CASE Evict
    <2>1. StartTypeOK'
      BY <1>0, <1>8 DEF Evict, Fault, StartTypeOK
    <2> QED
      BY <1>8, <2>1, Elsewhere DEF Evict, Closes
  <1> QED
    BY <1>1, <1>2, <1>3, <1>4, <1>5, <1>6, <1>7, <1>8

\* A crash ends the requests; a TTL runs out when there is none.
LEMMA EndStep ==
    ASSUME StartInv, StartLockIsKept, Crash \/ LockExpires
    PROVE  StartInv'
  <1> USE StartAssumption DEF redisVars, tableVars
  <1>0. StartTypeOK
    BY DEF StartInv
  <1>1. \A r \in Requests : req'[r].at = "idle"
    BY DEF Crash, LockExpires, At, Idle, StartLockIsKept
  <1>2. Alone' /\ \A r \in Requests : PlaceOK(r)'
    BY <1>1 DEF Alone, At, PlaceOK, Resuming, Making
  <1>3. CASE Crash
    <2>1. req' \in [Requests -> Local]
      BY <1>3 DEF Crash, Idle, Local, Places
    <2>2. row' \in [Sessions -> Row]
      BY <1>0, <1>3 DEF Crash, Lost, NoRow, Row, StartTypeOK
    <2>3. StartTypeOK'
      BY <1>0, <1>3, <2>1, <2>2 DEF Crash, Fault, StartTypeOK
    <2>4. \A s \in Sessions : \/ row'[s] = row[s]
                              \/ row[s].is = "new" /\ row'[s].is = "lost"
      BY <1>3 DEF Crash, Lost, NoRow
    <2>5. RowsOK'
      BY <1>3, <2>4 DEF StartInv, RowsOK, Crash
    <2>6. NoTraceOfFailedStart'
      BY <1>3, <2>4 DEF StartInv, NoTraceOfFailedStart, Crash
    <2> QED
      BY <1>2, <2>3, <2>5, <2>6 DEF StartInv
  <1>4. CASE LockExpires
    <2>1. StartTypeOK'
      BY <1>0, <1>4 DEF LockExpires, Free, StartTypeOK
    <2>2. Closes /\ gaveUp' = gaveUp /\ progress' = progress
      BY <1>4 DEF LockExpires, Closes
    <2> QED
      BY <1>2, <2>1, <2>2, RowsKept, TraceKept DEF StartInv
  <1> QED
    BY <1>3, <1>4

-----------------------------------------------------------------------------
(***************************************************************************)
(* The steps of a request.                                                 *)
(***************************************************************************)
LEMMA Begins ==
    ASSUME StartInv, NEW r \in Requests, NEW c \in Contexts, NEW force \in BOOLEAN,
           StartSession(r, c, force)
    PROVE  StartInv'
  <1> USE StartAssumption DEF redisVars, tableVars
  <1>0. StartTypeOK /\ At(r, "idle") /\ ~lock.held
    BY DEF StartInv, StartSession, AcquireStartLock
  <1>1. /\ req'[r].at = "pointer" /\ req'[r].ctx = c
        /\ \A q \in Requests \ {r} : req'[q] = req[q]
    BY <1>0 DEF StartSession, StartTypeOK, Idle
  <1>2. req' \in [Requests -> Local]
    BY <1>0 DEF StartSession, StartTypeOK, Idle, Local, Places
  <1>3. lock' = [held |-> TRUE, ttl |-> TRUE]
    BY DEF StartSession, AcquireStartLock
  <1>4. StartTypeOK'
    BY <1>0, <1>2, <1>3 DEF StartSession, StartTypeOK
  <1>5. \A q \in Requests \ {r} : req[q].at = "idle"
    BY <1>0 DEF StartInv, Alone, At
  <1>6. Alone' /\ \A q \in Requests : PlaceOK(q)'
    BY <1>1, <1>3, <1>5 DEF Alone, At, PlaceOK, Resuming, Making
  <1>7. Closes /\ gaveUp' = gaveUp /\ progress' = progress
    BY DEF StartSession, Closes
  <1> QED
    BY <1>4, <1>6, <1>7, RowsKept, TraceKept DEF StartInv

\* The lock is released by the request that has it.
LEMMA Releases ==
    ASSUME StartInv, NEW r \in Requests, Release(r)
    PROVE  StartInv'
  <1> USE StartAssumption DEF redisVars, tableVars
  <1>0. StartTypeOK /\ ~At(r, "idle")
    BY DEF StartInv, Release, At
  <1>1. req' \in [Requests -> Local] /\ \A q \in Requests : req'[q].at = "idle"
    BY <1>0 DEF Release, Return, StartTypeOK, Idle, Local, Places, StartInv, Alone, At
  <1>2. StartTypeOK'
    BY <1>0, <1>1 DEF Release, ReleaseStartLock, Free, StartTypeOK
  <1>3. Alone' /\ \A q \in Requests : PlaceOK(q)'
    BY <1>1 DEF Alone, At, PlaceOK, Resuming, Making
  <1>4. Closes /\ gaveUp' = gaveUp /\ progress' = progress
    BY DEF Release, Closes
  <1> QED
    BY <1>2, <1>3, <1>4, RowsKept, TraceKept DEF StartInv

\* A step that changes nothing another part could notice but Redis and gaveUp.
LEMMA MovesOn ==
    ASSUME StartInv, NEW r \in Requests, ~At(r, "idle"),
           UNCHANGED <<lock, row, saved, progress, setLive, closing>>,
           pointer' \in [Contexts -> Sessions \union {None}],
           sess' \in [Sessions -> State \union {None}],
           gaveUp' \in SUBSET Sessions, gaveUp \subseteq gaveUp', faults' \in Nat,
           req' \in [Requests -> Local],
           \A q \in Requests \ {r} : req'[q] = req[q], PlaceOK(r)'
    PROVE  StartInv'
  <1>0. StartTypeOK
    BY DEF StartInv
  <1>1. StartTypeOK'
    BY <1>0 DEF StartTypeOK
  <1>2. Closes /\ progress' = progress
    BY DEF Closes
  <1> QED
    BY <1>1, <1>2, GoesOn, RowsKept, TraceKept DEF StartInv

LEMMA HandFacts ==
    ASSUME StartInv, NEW r \in Requests
    PROVE  /\ StartTypeOK /\ PlaceOK(r)
           /\ req[r] \in Local /\ req \in [Requests -> Local]
           /\ req[r] = [at |-> req[r].at, force |-> req[r].force,
                        ctx |-> req[r].ctx, id |-> req[r].id,
                        state |-> req[r].state, seeds |-> req[r].seeds]
  BY DEF StartInv, StartTypeOK, Local

TakesSession(r, a, s) == req' = [req EXCEPT ![r].at = a, ![r].id = s]
HasState(r, a, state) == req' = [req EXCEPT ![r].at = a, ![r].state = state]

\* A request that goes on with another session, or another state, in hand.
LEMMA TakesId ==
    ASSUME StartInv, NEW r \in Requests, NEW a \in Places,
           NEW s \in Sessions \union {None}, TakesSession(r, a, s)
    PROVE  /\ req' \in [Requests -> Local]
           /\ \A q \in Requests \ {r} : req'[q] = req[q]
           /\ req'[r].at = a /\ req'[r].id = s /\ req'[r].ctx = req[r].ctx
  <1> DEFINE h == [req[r] EXCEPT !.at = a]
             k == [h EXCEPT !.id = s]
  <1>1. h \in Local
    BY HandFacts DEF Local
  <1>2. k \in Local
    BY <1>1 DEF Local
  <1>3. req' = [req EXCEPT ![r] = k]
    BY HandFacts DEF TakesSession
  <1>4. k.at = a /\ k.id = s /\ k.ctx = req[r].ctx
    BY HandFacts, <1>1, <1>2 DEF Local
  <1>5. req \in [Requests -> Local]
    BY HandFacts
  <1> HIDE DEF h, k
  <1>6. req'[r] = k
    BY <1>3, <1>5
  <1> QED
    BY <1>2, <1>3, <1>4, <1>5, <1>6

LEMMA TakesState ==
    ASSUME StartInv, NEW r \in Requests, NEW a \in Places, NEW state \in State,
           HasState(r, a, state)
    PROVE  /\ req' \in [Requests -> Local]
           /\ \A q \in Requests \ {r} : req'[q] = req[q]
           /\ req'[r].at = a /\ req'[r].id = req[r].id
           /\ req'[r].ctx = req[r].ctx /\ req'[r].state = state
  <1> DEFINE h == [req[r] EXCEPT !.at = a]
             k == [h EXCEPT !.state = state]
  <1>1. h \in Local
    BY HandFacts DEF Local
  <1>2. k \in Local
    BY <1>1 DEF Local
  <1>3. req' = [req EXCEPT ![r] = k]
    BY HandFacts DEF HasState
  <1>4. k.at = a /\ k.id = req[r].id /\ k.ctx = req[r].ctx /\ k.state = state
    BY HandFacts, <1>1, <1>2 DEF Local
  <1>5. req \in [Requests -> Local]
    BY HandFacts
  <1> HIDE DEF h, k
  <1>6. req'[r] = k
    BY <1>3, <1>5
  <1> QED
    BY <1>2, <1>3, <1>4, <1>5, <1>6

\* A request that is done, and one that goes on with nothing in hand.
LEMMA Leaves ==
    ASSUME StartInv, NEW r \in Requests, ToRelease(r)
    PROVE  /\ req' \in [Requests -> Local] /\ req'[r].at = "release"
           /\ \A q \in Requests \ {r} : req'[q] = req[q]
  <1> DEFINE k == [Idle EXCEPT !.at = "release"]
  <1>1. k \in Local /\ k.at = "release"
    BY DEF Idle, Local, Places
  <1>2. req \in [Requests -> Local] /\ req' = [req EXCEPT ![r] = k]
    BY DEF StartInv, StartTypeOK, ToRelease
  <1> HIDE DEF k
  <1> QED
    BY <1>1, <1>2

LEMMA Selects ==
    ASSUME StartInv, NEW r \in Requests, ToSelect(r)
    PROVE  /\ req' \in [Requests -> Local]
           /\ \A q \in Requests \ {r} : req'[q] = req[q]
           /\ req'[r].at = "select" /\ req'[r].id = None
           /\ req'[r].ctx = req[r].ctx
  <1> DEFINE h == [req[r] EXCEPT !.at = "select"]
             i == [h EXCEPT !.id = None]
             k == [i EXCEPT !.state = None]
  <1>1. req \in [Requests -> Local] /\ req' = [req EXCEPT ![r] = k]
    BY DEF StartInv, StartTypeOK, ToSelect
  <1>2. req[r] \in Local
    BY <1>1
  <1>3. h \in Local /\ h.at = "select" /\ h.ctx = req[r].ctx
    BY <1>2 DEF Local, Places
  <1>4. i \in Local /\ i.at = "select" /\ i.ctx = req[r].ctx /\ i.id = None
    <2> HIDE DEF h
    <2> QED
      BY <1>3 DEF Local
  <1>5. k \in Local /\ k.at = "select" /\ k.ctx = req[r].ctx /\ k.id = None
    <2> HIDE DEF i
    <2> QED
      BY <1>4 DEF Local
  <1> HIDE DEF k
  <1> QED
    BY <1>1, <1>5

\* The same in another place.
LEMMA OneMoves ==
    ASSUME StartInv, NEW r \in Requests, NEW a \in Places, Goto(r, a)
    PROVE  /\ req' \in [Requests -> Local]
           /\ \A q \in Requests \ {r} : req'[q] = req[q]
           /\ req'[r].at = a /\ req'[r].id = req[r].id
           /\ req'[r].ctx = req[r].ctx /\ req'[r].state = req[r].state
           /\ req'[r].seeds = req[r].seeds
  <1> DEFINE k == [req[r] EXCEPT !.at = a]
  <1>1. req \in [Requests -> Local] /\ req' = [req EXCEPT ![r] = k]
    BY DEF StartInv, StartTypeOK, Goto
  <1>2. req[r] \in Local
    BY <1>1
  <1>3. /\ k \in Local /\ k.at = a /\ k.id = req[r].id /\ k.ctx = req[r].ctx
        /\ k.state = req[r].state /\ k.seeds = req[r].seeds
    BY <1>2 DEF Local
  <1> HIDE DEF k
  <1> QED
    BY <1>1, <1>3

\* The selected items are the context's, so items.
LEMMA SelectItemsType ==
    ASSUME StartInv, NEW c \in Contexts, NEW limits \in Limits,
           NEW exclude \in SUBSET Items, NEW force \in BOOLEAN,
           NEW picked \in SelectItems(c, limits, exclude, force)
    PROVE  picked[1] \in SUBSET Items /\ picked[2] \in SUBSET Items
  <1> USE StartAssumption
  <1>1. Eligible(c) \subseteq Items
    BY DEF Eligible, Contexts
  <1>2. Due(c, force) \subseteq Items /\ New(c) \subseteq Items
    BY <1>1 DEF Due, New
  <1>3. PICK due \in Limited(Due(c, force) \ exclude, limits.batch) :
           \E new \in Limited(New(c) \ exclude, SlotsForNew(limits, due)) :
               picked = <<due, new>>
    <2>1. PICK chosen \in {{<<due, new>> : new \in Limited(New(c) \ exclude,
                                               SlotsForNew(limits, due))} :
                   due \in Limited(Due(c, force) \ exclude, limits.batch)} :
             picked \in chosen
      BY Zenon DEF SelectItems
    <2>2. PICK due \in Limited(Due(c, force) \ exclude, limits.batch) :
             chosen = {<<due, new>> : new \in Limited(New(c) \ exclude,
                                               SlotsForNew(limits, due))}
      BY Zenon
    <2> QED
      BY <2>1, <2>2
  <1>4. PICK new \in Limited(New(c) \ exclude, SlotsForNew(limits, due)) :
               picked = <<due, new>>
    BY <1>3
  <1>5. due \in SUBSET Items /\ new \in SUBSET Items
    BY <1>2 DEF Limited
  <1> QED
    BY <1>4, <1>5

\* Off to the end.
LEMMA ToReleaseStep ==
    ASSUME StartInv, NEW r \in Requests, ~At(r, "idle"), ToRelease(r),
           UNCHANGED <<lock, row, saved, progress, setLive, closing>>,
           pointer' \in [Contexts -> Sessions \union {None}],
           sess' \in [Sessions -> State \union {None}],
           gaveUp' \in SUBSET Sessions, gaveUp \subseteq gaveUp', faults' \in Nat
    PROVE  StartInv'
  <1>1. /\ req' \in [Requests -> Local] /\ req'[r].at = "release"
        /\ \A q \in Requests \ {r} : req'[q] = req[q]
    BY Leaves
  <1>2. PlaceOK(r)'
    BY <1>1 DEF PlaceOK, Resuming, Making
  <1> QED
    BY <1>1, <1>2, MovesOn

\* The session of the pointer, and the row to resume.
LEMMA FindStep ==
    ASSUME StartInv, NEW r \in Requests,
           ReadPointer(r) \/ ResumeFast(r) \/ FindOpen(r)
    PROVE  StartInv'
  <1> USE HandFacts, StartAssumption DEF redisVars, tableVars
  <1>0. /\ req[r].ctx \in Contexts /\ ~At(r, "idle")
        /\ UNCHANGED <<redisVars, tableVars, closing, gaveUp, faults>>
    BY DEF ReadPointer, ResumeFast, FindOpen, At, PlaceOK
  <1>1. CASE ReadPointer(r)
    <2>1. pointer[req[r].ctx] \in Sessions \union {None}
      BY <1>0 DEF StartTypeOK
    <2> DEFINE place == IF pointer[req[r].ctx] = None THEN "find" ELSE "load"
    <2>4. place \in Places
      BY DEF Places
    <2>5. TakesSession(r, place, pointer[req[r].ctx])
      BY <1>1 DEF ReadPointer, TakesSession
    <2>6. /\ req' \in [Requests -> Local]
          /\ \A q \in Requests \ {r} : req'[q] = req[q]
          /\ req'[r].ctx = req[r].ctx
          /\ req'[r].at = place /\ req'[r].id = pointer[req[r].ctx]
      <3> HIDE DEF place
      <3> QED
        BY <2>1, <2>4, <2>5, TakesId
    <2>2. /\ req' \in [Requests -> Local]
          /\ \A q \in Requests \ {r} : req'[q] = req[q]
          /\ req'[r].ctx = req[r].ctx
          /\ \/ req'[r].at = "find"
             \/ req'[r].at = "load" /\ req'[r].id \in Sessions
      BY <2>1, <2>6
    <2>3. PlaceOK(r)'
      BY <1>0, <2>2 DEF PlaceOK, Resuming, Making
    <2> QED
      BY <1>0, <2>2, <2>3, MovesOn DEF StartTypeOK
  <1>2. CASE ResumeFast(r) /\ ToRelease(r)
    BY <1>0, <1>2, ToReleaseStep DEF StartTypeOK
  <1>3. CASE ResumeFast(r) /\ ~ToRelease(r)
    <2>1. /\ req' \in [Requests -> Local]
          /\ \A q \in Requests \ {r} : req'[q] = req[q]
          /\ req'[r].ctx = req[r].ctx /\ req'[r].at = "find"
      <3>1. TakesSession(r, "find", None)
        BY <1>3 DEF ResumeFast, TakesSession
      <3>2. "find" \in Places
        BY DEF Places
      <3> QED
        BY <3>1, <3>2, TakesId
    <2>2. PlaceOK(r)'
      BY <1>0, <2>1 DEF PlaceOK, Resuming, Making
    <2> QED
      BY <1>0, <2>1, <2>2, MovesOn DEF StartTypeOK
  <1>4. CASE FindOpen(r) /\ OpenRows({req[r].ctx}) = {} /\ ToSelect(r)
    <2>1. /\ req' \in [Requests -> Local]
          /\ \A q \in Requests \ {r} : req'[q] = req[q]
          /\ req'[r].ctx = req[r].ctx /\ req'[r].at = "select" /\ req'[r].id = None
      BY <1>4, Selects
    <2>2. OthersGivenUp(r)'
      BY <1>0, <1>4, <2>1 DEF OthersGivenUp, OpenRows
    <2>3. PlaceOK(r)'
      BY <1>0, <2>1, <2>2 DEF PlaceOK, Resuming, Making
    <2> QED
      BY <1>0, <2>1, <2>3, MovesOn DEF StartTypeOK
  <1>5. ASSUME NEW s \in Latest(OpenRows({req[r].ctx})),
               req' = [req EXCEPT ![r].at = "read", ![r].id = s]
        PROVE  StartInv'
    <2>1. /\ s \in Sessions /\ row[s].is = "open" /\ row[s].ctx = req[r].ctx
          /\ \A t \in OpenRows({req[r].ctx}) : t <= s
      BY DEF Latest, OpenRows
    <2>2. /\ req' \in [Requests -> Local]
          /\ \A q \in Requests \ {r} : req'[q] = req[q]
          /\ req'[r].ctx = req[r].ctx /\ req'[r].at = "read" /\ req'[r].id = s
      <3>1. "read" \in Places
        BY DEF Places
      <3>2. s \in Sessions \union {None}
        BY <2>1
      <3>3. TakesSession(r, "read", s)
        BY <1>5 DEF TakesSession
      <3> QED
        BY <3>1, <3>2, <3>3, TakesId
    <2>3. OthersGivenUp(r)'
      <3> SUFFICES ASSUME NEW t \in Sessions, row[t].is = "open",
                          row[t].ctx = req[r].ctx, t # s
                   PROVE  t \in gaveUp
        BY <1>0, <2>2 DEF OthersGivenUp
      <3>1. t < s
        BY <2>1 DEF OpenRows, Sessions
      <3> QED
        BY <2>1, <3>1 DEF StartInv, RowsOK
    <2>4. PlaceOK(r)'
      BY <1>0, <2>1, <2>2, <2>3 DEF PlaceOK, Resuming, Making
    <2> QED
      BY <1>0, <2>2, <2>4, MovesOn DEF StartTypeOK
  <1> QED
    BY <1>1, <1>2, <1>3, <1>4, <1>5 DEF FindOpen

\* A session that could not be resumed is given up, and a new one made.
LEMMA GiveUpStep ==
    ASSUME StartInv, NEW r \in Requests, req[r].at \in Resuming, GiveUp(r),
           UNCHANGED <<lock, row, saved, progress, setLive, closing>>,
           pointer' \in [Contexts -> Sessions \union {None}],
           sess' \in [Sessions -> State \union {None}], faults' \in Nat
    PROVE  StartInv'
  <1> USE HandFacts, StartAssumption
  <1>0. ~At(r, "idle") /\ req[r].ctx \in Contexts /\ req[r].id \in Sessions
        /\ OthersGivenUp(r)
    BY DEF At, PlaceOK, Resuming
  <1>1. /\ req' \in [Requests -> Local]
        /\ \A q \in Requests \ {r} : req'[q] = req[q]
        /\ req'[r].ctx = req[r].ctx /\ req'[r].at = "select" /\ req'[r].id = None
    <2>1. ToSelect(r)
      BY DEF GiveUp
    <2> QED
      BY <2>1, Selects
  <1>2. gaveUp' = gaveUp \union {req[r].id}
    BY DEF GiveUp
  <1>3. OthersGivenUp(r)'
    BY <1>0, <1>1, <1>2 DEF OthersGivenUp
  <1>4. PlaceOK(r)'
    BY <1>0, <1>1, <1>3 DEF PlaceOK, Resuming, Making
  <1> QED
    BY <1>0, <1>1, <1>2, <1>4, MovesOn DEF StartTypeOK

\* Reconstructing the session to resume.
LEMMA ReconstructStep ==
    ASSUME StartInv, NEW r \in Requests,
           ReconstructRead(r) \/ ReconstructSave(r) \/ ReconstructPoint(r)
    PROVE  StartInv'
  <1> USE HandFacts, StartAssumption DEF redisVars, tableVars
  <1>0. /\ req[r].ctx \in Contexts /\ ~At(r, "idle") /\ req[r].at \in Resuming
        /\ req[r].id \in Sessions /\ row[req[r].id].ctx = req[r].ctx
        /\ row[req[r].id].is \in {"open", "closed"} /\ OthersGivenUp(r)
        /\ UNCHANGED <<lock, row, saved, progress, setLive, closing>>
    BY DEF ReconstructRead, ReconstructSave, ReconstructPoint, At, PlaceOK, Resuming
  <1>1. CASE GiveUp(r)
    <2>1. /\ pointer' \in [Contexts -> Sessions \union {None}]
          /\ sess' \in [Sessions -> State \union {None}] /\ faults' \in Nat
      <3>1. faults' \in Nat
        <4>1. faults' = faults \/ faults' = faults + 1
          BY Zenon DEF ReconstructRead, ReconstructSave, ReconstructPoint, Fault
        <4>2. faults \in Nat
          BY DEF StartTypeOK
        <4> QED
          BY <4>1, <4>2
      <3>2. sess' = sess \/ (At(r, "save") /\ SaveSession(req[r].id, req[r].state))
        BY DEF ReconstructRead, ReconstructSave, ReconstructPoint
      <3>3. sess' \in [Sessions -> State \union {None}]
        BY <3>2 DEF SaveSession, StartTypeOK, PlaceOK, At
      <3>4. pointer' = pointer \/ SetActive(row[req[r].id].ctx, req[r].id)
        BY DEF ReconstructRead, ReconstructSave, ReconstructPoint
      <3>5. pointer' \in [Contexts -> Sessions \union {None}]
        BY <1>0, <3>4 DEF SetActive, StartTypeOK
      <3> QED
        BY <3>1, <3>3, <3>5
    <2> QED
      BY <1>0, <1>1, <2>1, GiveUpStep
  <1>2. CASE ReconstructRead(r) /\ ~GiveUp(r)
    <2>1. PICK limits \in Limits :
             \E picked \in SelectItems(row[req[r].id].ctx, limits,
                                       saved[req[r].id], FALSE) :
                req' = [req EXCEPT ![r].at = "save",
                           ![r].state = [answered |-> saved[req[r].id],
                              batch |-> saved[req[r].id] \union picked[1]
                                                         \union picked[2]]]
      BY <1>2 DEF ReconstructRead
    <2>2. PICK picked \in SelectItems(row[req[r].id].ctx, limits,
                                      saved[req[r].id], FALSE) :
             req' = [req EXCEPT ![r].at = "save",
                        ![r].state = [answered |-> saved[req[r].id],
                           batch |-> saved[req[r].id] \union picked[1]
                                                      \union picked[2]]]
      BY <2>1
    <2>3. saved[req[r].id] \in SUBSET Items
      BY <1>0 DEF StartTypeOK
    <2>4. picked[1] \in SUBSET Items /\ picked[2] \in SUBSET Items
      BY <1>0, <2>3, SelectItemsType
    <2>5. [answered |-> saved[req[r].id],
           batch |-> saved[req[r].id] \union picked[1] \union picked[2]] \in State
      BY <2>3, <2>4 DEF State
    <2>6. /\ req' \in [Requests -> Local]
          /\ \A q \in Requests \ {r} : req'[q] = req[q]
          /\ req'[r].ctx = req[r].ctx /\ req'[r].at = "save"
          /\ req'[r].id = req[r].id /\ req'[r].state \in State
      <3>1. "save" \in Places
        BY DEF Places
      <3>2. HasState(r, "save", [answered |-> saved[req[r].id],
                batch |-> saved[req[r].id] \union picked[1] \union picked[2]])
        BY <2>2 DEF HasState
      <3> QED
        BY <2>5, <3>1, <3>2, TakesState
    <2>7. UNCHANGED <<pointer, sess, gaveUp, faults>>
      BY <1>2 DEF ReconstructRead
    <2>8. OthersGivenUp(r)'
      BY <1>0, <2>6, <2>7 DEF OthersGivenUp
    <2>9. PlaceOK(r)'
      BY <1>0, <2>6, <2>8 DEF PlaceOK, Resuming, Making
    <2> QED
      BY <1>0, <2>6, <2>7, <2>9, MovesOn DEF StartTypeOK
  <1>3. CASE ReconstructSave(r) /\ ~GiveUp(r)
    <2>1. /\ req' \in [Requests -> Local]
          /\ \A q \in Requests \ {r} : req'[q] = req[q]
          /\ req'[r].ctx = req[r].ctx /\ req'[r].at = "point"
          /\ req'[r].id = req[r].id /\ req'[r].state = req[r].state
      <3>1. Goto(r, "point") /\ "point" \in Places
        BY <1>3 DEF ReconstructSave, Places
      <3> QED
        BY <3>1, OneMoves
    <2>2. req[r].state \in State /\ UNCHANGED <<pointer, gaveUp, faults>>
          /\ sess' = [sess EXCEPT ![req[r].id] = req[r].state]
      BY <1>3 DEF ReconstructSave, SaveSession, PlaceOK, At
    <2>3. OthersGivenUp(r)'
      BY <1>0, <2>1, <2>2 DEF OthersGivenUp
    <2>4. PlaceOK(r)'
      BY <1>0, <2>1, <2>2, <2>3 DEF PlaceOK, Resuming, Making
    <2>5. sess' \in [Sessions -> State \union {None}]
      BY <2>2 DEF StartTypeOK
    <2> QED
      BY <1>0, <2>1, <2>2, <2>4, <2>5, MovesOn DEF StartTypeOK
  <1>4. CASE ReconstructPoint(r) /\ ~GiveUp(r)
    <2>1. ToRelease(r) /\ UNCHANGED <<sess, gaveUp, faults>>
          /\ pointer' = [pointer EXCEPT ![row[req[r].id].ctx] = req[r].id]
      BY <1>4 DEF ReconstructPoint, SetActive
    <2>2. pointer' \in [Contexts -> Sessions \union {None}]
      BY <1>0, <2>1 DEF StartTypeOK
    <2> QED
      BY <1>0, <2>1, <2>2, ToReleaseStep DEF StartTypeOK
  <1> QED
    BY <1>1, <1>2, <1>3, <1>4

\* Nothing to start: the lock is released.
LEMMA NothingStep ==
    ASSUME StartInv, NEW r \in Requests, NothingToStart(r)
    PROVE  StartInv'
  <1>1. StartTypeOK
    BY DEF StartInv
  <1>2. /\ ~At(r, "idle") /\ ToRelease(r)
        /\ UNCHANGED <<lock, pointer, sess, row, saved, progress, setLive,
                       closing, gaveUp, faults>>
    BY DEF NothingToStart, At, redisVars, tableVars
  <1> QED
    BY <1>1, <1>2, ToReleaseStep DEF StartTypeOK

Hold(r, s, new, batch) ==
    req' = [req EXCEPT ![r].at = "saveNew", ![r].id = s, ![r].seeds = new,
                       ![r].state = [answered |-> {}, batch |-> batch]]

LEMMA HoldsNew ==
    ASSUME StartInv, NEW r \in Requests, NEW s \in Sessions,
           NEW new \in SUBSET Items, NEW batch \in SUBSET Items,
           Hold(r, s, new, batch)
    PROVE  /\ req' \in [Requests -> Local]
           /\ \A q \in Requests \ {r} : req'[q] = req[q]
           /\ req'[r].at = "saveNew" /\ req'[r].id = s
           /\ req'[r].seeds = new /\ req'[r].state \in State
           /\ req'[r].ctx = req[r].ctx
  <1> DEFINE state == [answered |-> {}, batch |-> batch]
             h == [req[r] EXCEPT !.at = "saveNew"]
             i == [h EXCEPT !.id = s]
             j == [i EXCEPT !.seeds = new]
             k == [j EXCEPT !.state = state]
  <1>0. state \in State
    BY DEF State
  <1> HIDE DEF state
  <1>1. h \in Local /\ h.at = "saveNew" /\ h.ctx = req[r].ctx
    BY HandFacts DEF Local, Places
  <1>2. i \in Local /\ i.at = "saveNew" /\ i.ctx = req[r].ctx /\ i.id = s
    <2> HIDE DEF h
    <2> QED
      BY <1>1 DEF Local
  <1>3. /\ j \in Local /\ j.at = "saveNew" /\ j.ctx = req[r].ctx /\ j.id = s
        /\ j.seeds = new
    <2> HIDE DEF i
    <2> QED
      BY <1>2 DEF Local
  <1>4. /\ k \in Local /\ k.at = "saveNew" /\ k.ctx = req[r].ctx /\ k.id = s
        /\ k.seeds = new /\ k.state = state
    <2> HIDE DEF j
    <2> QED
      BY <1>0, <1>3 DEF Local
  <1>5. req' = [req EXCEPT ![r] = k] /\ req \in [Requests -> Local]
    BY HandFacts DEF Hold, state
  <1> HIDE DEF k
  <1>6. req'[r] = k
    BY <1>5
  <1> QED
    BY <1>0, <1>4, <1>5, <1>6

\* A session is created after all the others, none of them open.
LEMMA CreateStep ==
    ASSUME StartInv, NEW r \in Requests, CreateSession(r)
    PROVE  StartInv'
  <1> USE StartAssumption DEF redisVars, tableVars
  <1>0. /\ StartTypeOK /\ PlaceOK(r) /\ ~At(r, "idle")
        /\ req[r].ctx \in Contexts /\ req[r].force \in BOOLEAN
        /\ OthersGivenUp(r) /\ req[r].id = None
        /\ UNCHANGED <<lock, pointer, sess, saved, progress, setLive, closing,
                       gaveUp, faults>>
    BY HandFacts DEF CreateSession, At, PlaceOK, Local
  <1>1. PICK s \in Sessions, limits \in Limits :
           \E picked \in SelectItems(req[r].ctx, limits, {}, req[r].force) :
              /\ \A t \in Sessions : (row[t].is = "none") <=> (s <= t)
              /\ row' = [row EXCEPT ![s] = [is |-> "new", ctx |-> req[r].ctx,
                                            first |-> picked[1] \union picked[2]]]
              /\ Hold(r, s, picked[2], picked[1] \union picked[2])
    BY DEF CreateSession, Hold
  <1>2. PICK picked \in SelectItems(req[r].ctx, limits, {}, req[r].force) :
              /\ \A t \in Sessions : (row[t].is = "none") <=> (s <= t)
              /\ row' = [row EXCEPT ![s] = [is |-> "new", ctx |-> req[r].ctx,
                                            first |-> picked[1] \union picked[2]]]
              /\ Hold(r, s, picked[2], picked[1] \union picked[2])
    BY <1>1
  <1>3. picked[1] \in SUBSET Items /\ picked[2] \in SUBSET Items
    BY <1>0, SelectItemsType
  <1>4. picked[1] \union picked[2] \in SUBSET Items
    BY <1>3
  <1> DEFINE batch == picked[1] \union picked[2]
             made == [is |-> "new", ctx |-> req[r].ctx, first |-> batch]
  <1> HIDE DEF batch
  <1>5. made \in Row /\ made.is = "new" /\ made.ctx = req[r].ctx
        /\ made.first = batch
    BY <1>0, <1>4 DEF Row, batch
  <1>6. row' = [row EXCEPT ![s] = made]
    BY <1>2 DEF batch
  <1> HIDE DEF made
  <1>7. /\ row' \in [Sessions -> Row] /\ row'[s] = made
        /\ \A t \in Sessions \ {s} : row'[t] = row[t]
    BY <1>0, <1>5, <1>6 DEF StartTypeOK
  <1>8. /\ req' \in [Requests -> Local]
        /\ \A q \in Requests \ {r} : req'[q] = req[q]
        /\ req'[r].at = "saveNew" /\ req'[r].id = s
        /\ req'[r].seeds = picked[2] /\ req'[r].state \in State
        /\ req'[r].ctx = req[r].ctx
    <2>1. Hold(r, s, picked[2], batch)
      BY <1>2 DEF batch
    <2>2. batch \in SUBSET Items
      BY <1>4 DEF batch
    <2> QED
      BY <1>3, <2>1, <2>2, HoldsNew
  <1>9. StartTypeOK'
    BY <1>0, <1>7, <1>8 DEF StartTypeOK
  <1>10. \A t \in Sessions : /\ (row[t].is = "none") <=> (s <= t)
                             /\ row[t].is = "open" => t # s
    BY <1>2 DEF Sessions
  <1>11. PlaceOK(r)'
    <2>1. picked[2] \subseteq batch
      BY DEF batch
    <2>2. OthersGivenUp(r)'
      BY <1>0, <1>5, <1>7, <1>8, <1>10 DEF OthersGivenUp
    <2>3. \A t \in Sessions : t > s => row'[t].is = "none"
      BY <1>7, <1>10 DEF Sessions
    <2> QED
      BY <1>0, <1>5, <1>7, <1>8, <2>1, <2>2, <2>3 DEF PlaceOK, Resuming, Making
  <1>12. RowsOK'
    <2>1. \A t, u \in Sessions :
             row'[t].is = "none" /\ t <= u => row'[u].is = "none"
      BY <1>5, <1>7, <1>10 DEF Sessions
    <2> QED
      BY <1>0, <1>5, <1>7, <2>1 DEF StartInv, RowsOK
  <1>13. NoTraceOfFailedStart'
    <2>1. \A t \in Sessions : row[t].is \in {"open", "closed"} => t # s
      BY <1>10 DEF Sessions
    <2> QED
      BY <1>0, <1>7, <2>1 DEF StartInv, NoTraceOfFailedStart
  <1> QED
    BY <1>0, <1>8, <1>9, <1>11, <1>12, <1>13, GoesOn DEF StartInv

MakingFacts(r) ==
    /\ StartTypeOK /\ ~At(r, "idle") /\ req[r].ctx \in Contexts
    /\ req[r].id \in Sessions /\ req[r].state \in State
    /\ row[req[r].id].is = "new" /\ row[req[r].id].ctx = req[r].ctx
    /\ req[r].seeds \subseteq row[req[r].id].first
    /\ OthersGivenUp(r)
    /\ \A t \in Sessions : t > req[r].id => row[t].is = "none"

LEMMA WhileMaking ==
    ASSUME StartInv, NEW r \in Requests, req[r].at \in Making
    PROVE  MakingFacts(r)
  BY HandFacts DEF MakingFacts, PlaceOK, Making, At

\* A start that fails: its row was never there.
LEMMA RollbackStep ==
    ASSUME StartInv, NEW r \in Requests, req[r].at \in Making, Rollback(r),
           UNCHANGED <<lock, saved, progress, setLive, closing, gaveUp>>,
           pointer' \in [Contexts -> Sessions \union {None}],
           sess' \in [Sessions -> State \union {None}], faults' \in Nat
    PROVE  StartInv'
  <1> USE StartAssumption
  <1>0. MakingFacts(r)
    BY WhileMaking
  <1>1. row' = [row EXCEPT ![req[r].id] = Lost] /\ ToRelease(r)
    BY DEF Rollback
  <1>2. Lost \in Row /\ Lost.is = "lost"
    BY DEF Lost, NoRow, Row
  <1>3. /\ row' \in [Sessions -> Row] /\ row'[req[r].id] = Lost
        /\ \A t \in Sessions \ {req[r].id} : row'[t] = row[t]
    BY <1>0, <1>1, <1>2 DEF MakingFacts, StartTypeOK
  <1>4. /\ req' \in [Requests -> Local] /\ req'[r].at = "release"
        /\ \A q \in Requests \ {r} : req'[q] = req[q]
    BY <1>1, Leaves
  <1>5. StartTypeOK'
    BY <1>0, <1>3, <1>4 DEF MakingFacts, StartTypeOK
  <1>6. PlaceOK(r)'
    BY <1>4 DEF PlaceOK, Resuming, Making
  <1>7. RowsOK'
    BY <1>0, <1>2, <1>3 DEF MakingFacts, StartInv, RowsOK
  <1>8. NoTraceOfFailedStart'
    BY <1>0, <1>3 DEF MakingFacts, StartInv, NoTraceOfFailedStart
  <1> QED
    BY <1>0, <1>4, <1>5, <1>6, <1>7, <1>8, GoesOn DEF MakingFacts, StartInv

\* Saving the new session and pointing to it.
LEMMA PublishStep ==
    ASSUME StartInv, NEW r \in Requests, SaveNew(r) \/ PointNew(r)
    PROVE  StartInv'
  <1> USE StartAssumption
  <1>0. req[r].at \in Making /\ MakingFacts(r)
    BY WhileMaking DEF SaveNew, PointNew, At, Making
  <1>1. UNCHANGED <<lock, saved, progress, setLive, closing, gaveUp>>
    BY DEF SaveNew, PointNew
  <1>2. /\ pointer' \in [Contexts -> Sessions \union {None}]
        /\ sess' \in [Sessions -> State \union {None}]
    <2>1. sess' = sess \/ sess' = [sess EXCEPT ![req[r].id] = req[r].state]
      BY DEF SaveNew, PointNew, SaveSession
    <2>2. pointer' = pointer \/ pointer' = [pointer EXCEPT ![req[r].ctx] = req[r].id]
      BY DEF SaveNew, PointNew, SetActive
    <2> QED
      BY <1>0, <2>1, <2>2 DEF MakingFacts, StartTypeOK
  <1>3. faults' \in Nat
    <2>1. faults' = faults \/ faults' = faults + 1
      BY Zenon DEF SaveNew, PointNew, Fault
    <2>2. faults \in Nat
      BY <1>0 DEF MakingFacts, StartTypeOK
    <2> QED
      BY <2>1, <2>2
  <1>4. CASE Rollback(r)
    BY <1>0, <1>1, <1>2, <1>3, <1>4, RollbackStep
  <1>5. ASSUME NEW a \in {"pointNew", "commit"}, Goto(r, a), row' = row
        PROVE  StartInv'
    <2>1. a \in Places
      BY DEF Places
    <2>2. /\ req' \in [Requests -> Local]
          /\ \A q \in Requests \ {r} : req'[q] = req[q]
          /\ req'[r].at = a /\ req'[r].id = req[r].id
          /\ req'[r].ctx = req[r].ctx /\ req'[r].state = req[r].state
          /\ req'[r].seeds = req[r].seeds
      BY <1>5, <2>1, OneMoves
    <2>3. OthersGivenUp(r)'
      BY <1>0, <1>1, <1>5, <2>2 DEF MakingFacts, OthersGivenUp
    <2>4. PlaceOK(r)'
      BY <1>0, <1>5, <2>2, <2>3 DEF MakingFacts, PlaceOK, Resuming, Making
    <2>5. ~At(r, "idle") /\ gaveUp' \in SUBSET Sessions
      BY <1>0, <1>1 DEF MakingFacts, StartTypeOK
    <2> QED
      BY <1>1, <1>2, <1>3, <1>5, <2>2, <2>4, <2>5, MovesOn
  <1>6. Rollback(r) \/ (row' = row /\ (Goto(r, "pointNew") \/ Goto(r, "commit")))
    BY Zenon DEF SaveNew, PointNew
  <1> QED
    BY <1>4, <1>5, <1>6

\* The commit opens the session, seeds its items, or fails.
LEMMA CommitStep ==
    ASSUME StartInv, NEW r \in Requests, CommitNew(r)
    PROVE  StartInv'
  <1> USE StartAssumption DEF redisVars
  <1>0. req[r].at \in Making /\ MakingFacts(r)
    BY WhileMaking DEF CommitNew, At, Making
  <1>1. UNCHANGED <<lock, pointer, sess, saved, setLive, closing, gaveUp>>
    BY DEF CommitNew
  <1>2. CASE Rollback(r) /\ progress' = progress /\ Fault("commitError")
    <2>1. faults' \in Nat
      <3>1. faults \in Nat
        BY <1>0 DEF MakingFacts, StartTypeOK
      <3> QED
        BY <1>2, <3>1 DEF Fault
    <2> QED
      BY <1>0, <1>1, <1>2, <2>1, RollbackStep DEF MakingFacts, StartTypeOK
  <1>3. CASE /\ row' = [row EXCEPT ![req[r].id].is = "open"]
             /\ Seed(req[r].seeds) /\ ToRelease(r) /\ faults' = faults
    <2> DEFINE s == req[r].id
    <2>1. row[s] \in Row /\ row \in [Sessions -> Row]
      BY <1>0 DEF MakingFacts, StartTypeOK
    <2>2. /\ row' \in [Sessions -> Row] /\ row'[s].is = "open"
          /\ row'[s].ctx = row[s].ctx /\ row'[s].first = row[s].first
          /\ \A t \in Sessions \ {s} : row'[t] = row[t]
      BY <1>0, <1>3, <2>1 DEF MakingFacts, Row
    <2>3. /\ req' \in [Requests -> Local] /\ req'[r].at = "release"
          /\ \A q \in Requests \ {r} : req'[q] = req[q]
      BY <1>3, Leaves
    <2>4. /\ progress' \in [Items -> Progress]
          /\ \A i \in Items : progress'[i] = "seeded"
                                => progress[i] = "seeded" \/ i \in req[r].seeds
      BY <1>0, <1>3 DEF MakingFacts, StartTypeOK, Seed, Progress
    <2>5. StartTypeOK'
      BY <1>0, <1>1, <1>3, <2>2, <2>3, <2>4 DEF MakingFacts, StartTypeOK
    <2>6. PlaceOK(r)'
      BY <2>3 DEF PlaceOK, Resuming, Making
    <2>7. RowsOK'
      <3>1. ASSUME NEW t \in Sessions, NEW u \in Sessions, t < u,
                   row'[t].is = "open", row'[u].is = "open",
                   row'[t].ctx = row'[u].ctx
            PROVE  t \in gaveUp'
        <4>1. CASE u = s
          <5>1. t # s /\ row[t].is = "open" /\ row[t].ctx = req[r].ctx
            BY <1>0, <2>2, <3>1, <4>1 DEF MakingFacts, Sessions
          <5> QED
            BY <1>0, <1>1, <5>1 DEF MakingFacts, OthersGivenUp
        <4>2. CASE u # s
          <5>1. row[u].is = "open"
            BY <2>2, <3>1, <4>2
          <5>2. t # s
            BY <1>0, <3>1, <5>1 DEF MakingFacts, Sessions
          <5> QED
            BY <1>1, <2>2, <3>1, <4>2, <5>1, <5>2 DEF StartInv, RowsOK
        <4> QED
          BY <4>1, <4>2
      <3>2. \A t, u \in Sessions :
               row'[t].is = "none" /\ t <= u => row'[u].is = "none"
        <4> SUFFICES ASSUME NEW t \in Sessions, NEW u \in Sessions,
                            row'[t].is = "none", t <= u
                     PROVE  row'[u].is = "none"
          OBVIOUS
        <4>1. t # s /\ row[t].is = "none"
          BY <2>2
        <4>2. row[u].is = "none"
          BY <4>1 DEF StartInv, RowsOK
        <4>3. u # s
          BY <1>0, <4>2 DEF MakingFacts
        <4> QED
          BY <2>2, <4>2, <4>3
      <3> QED
        BY <3>1, <3>2 DEF RowsOK
    <2>8. NoTraceOfFailedStart'
      <3> SUFFICES ASSUME NEW i \in Items, progress'[i] = "seeded"
                   PROVE  \E t \in Sessions : /\ row'[t].is \in {"open", "closed"}
                                              /\ i \in row'[t].first
        BY DEF NoTraceOfFailedStart
      <3>1. CASE i \in req[r].seeds
        BY <1>0, <2>2, <3>1 DEF MakingFacts
      <3>2. CASE progress[i] = "seeded"
        <4>1. PICK t \in Sessions : row[t].is \in {"open", "closed"}
                                    /\ i \in row[t].first
          BY <3>2 DEF StartInv, NoTraceOfFailedStart
        <4>2. t # s
          BY <1>0, <4>1 DEF MakingFacts
        <4> QED
          BY <2>2, <4>1, <4>2
      <3> QED
        BY <2>4, <3>1, <3>2
    <2> QED
      BY <1>0, <1>1, <2>3, <2>5, <2>6, <2>7, <2>8, GoesOn DEF MakingFacts, StartInv
  <1> QED
    BY <1>2, <1>3 DEF CommitNew

-----------------------------------------------------------------------------
LEMMA StartStep ==
    ASSUME StartInv, StartLockIsKept, [Next]_vars
    PROVE  StartInv'
  <1>1. ASSUME NEW r \in Requests, Continue(r) PROVE StartInv'
    BY <1>1, FindStep, ReconstructStep, NothingStep, CreateStep, PublishStep,
       CommitStep, Releases DEF Continue
  <1>2. ASSUME NEW r \in Requests, NEW c \in Contexts, NEW force \in BOOLEAN,
               StartSession(r, c, force)
        PROVE  StartInv'
    BY <1>2, Begins
  <1>3. CASE UNCHANGED vars
    <2>1. Closes /\ StartTypeOK'
      BY <1>3 DEF vars, redisVars, tableVars, Closes, StartTypeOK, StartInv
    <2> QED
      BY <1>3, <2>1, Elsewhere DEF vars, redisVars, tableVars
  <1> QED
    BY <1>1, <1>2, <1>3, EnvironmentStep, EndStep DEF Next

LEMMA StartInvariance ==
    ASSUME StartLockIsKept PROVE Spec => []StartInv
  <1>1. Init => StartInv
    BY StartInit
  <1>2. StartInv /\ [Next]_vars => StartInv'
    BY StartStep
  <1> QED
    BY <1>1, <1>2, PTL DEF Spec

\* For any sets, items and requests: Redis, the tables and what a request
\* holds have their types, while the lock outlasts a start.
THEOREM StartTypeCorrect ==
    ASSUME StartLockIsKept PROVE Spec => []StartTypeOK
  <1>1. StartInv => StartTypeOK
    BY DEF StartInv
  <1> QED
    BY <1>1, StartInvariance, PTL

\* While the start lock outlasts a start (acquire_start_lock), two sessions of
\* a context are open together only if a start failed to resume one of them,
\* whatever crashes, fails or is lost (start_session).
THEOREM OneSessionPerContext ==
    ASSUME StartLockIsKept PROVE Spec => []OneOpenPerContext
  <1>1. StartInv => OneOpenPerContext
    <2> SUFFICES ASSUME StartInv, NEW s \in Sessions, NEW t \in Sessions,
                        row[s].is = "open", row[t].is = "open",
                        row[s].ctx = row[t].ctx, s # t
                 PROVE  s \in gaveUp \/ t \in gaveUp
      BY DEF OneOpenPerContext
    <2>1. s < t \/ t < s
      BY StartAssumption DEF Sessions
    <2> QED
      BY <2>1 DEF StartInv, RowsOK
  <1> QED
    BY <1>1, StartInvariance, PTL

\* While the start lock outlasts a start, an item with progress but no review
\* was given out by a session that was committed: a start that failed left no
\* progress behind (seed_progress_bulk in start_session's transaction).
THEOREM FailedStartLeavesNoTrace ==
    ASSUME StartLockIsKept PROVE Spec => []NoTraceOfFailedStart
  <1>1. StartInv => NoTraceOfFailedStart
    BY DEF StartInv
  <1> QED
    BY <1>1, StartInvariance, PTL
=============================================================================
