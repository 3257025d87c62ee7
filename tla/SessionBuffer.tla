--------------------------- MODULE SessionBuffer ---------------------------
(***************************************************************************)
(* The Redis side of one practice session (services/session_manager.py):   *)
(* the keys practice:session, practice:raw, practice:seen, the user's      *)
(* practice:active pointer and the practice:flushing lock.  Every operator *)
(* below is one Redis command or one Lua script, so it is atomic; the      *)
(* modules that extend this one decide between which of them other         *)
(* requests may run.                                                       *)
(***************************************************************************)
EXTENDS Naturals, Sequences, FiniteSets, SequencesExt

CONSTANTS
    Items,          \* items of the set being practised
    Answers,        \* answer events, each with its own answer_id
    ItemOf,         \* the item an answer event is for (RawAnswerEvent.item_id)
    MaxRawEvents,   \* cap the Lua script puts on the raw list (1000)
    None            \* absent key, absent row

ASSUME BufferAssumption ==
    /\ IsFiniteSet(Items)
    /\ ItemOf \in [Answers -> Items]
    /\ MaxRawEvents \in Nat \ {0}
    /\ None \notin Answers

VARIABLES
    sess,       \* practice:session:{id}  - SessionState or None
    raw,        \* practice:raw:{id}      - list of answer events
    seen,       \* practice:seen:{id}     - answer_ids already buffered
    active,     \* practice:active:{user}:set:{id} points at this session
    flushLock   \* practice:flushing:{id} exists

bufferVars == <<sess, raw, seen, active, flushLock>>

(***************************************************************************)
(* SessionState keeps the item order and the index of the next item.  The  *)
(* config, hints and timestamps it also carries decide nothing here.       *)
(***************************************************************************)
SessionState == [order : Seq(Items), idx : Nat]

ASSUME NoneIsNoState == None \notin SessionState

IsComplete(s) == s.idx >= Len(s.order)
NextItem(s)   == s.order[s.idx + 1]

BufferTypeOK ==
    /\ sess \in SessionState \cup {None}
    /\ raw \in Seq(Answers)
    /\ seen \in SUBSET Answers
    /\ active \in BOOLEAN
    /\ flushLock \in BOOLEAN

-----------------------------------------------------------------------------
(***************************************************************************)
(* _APPEND_RAW_LUA: the duplicate test comes first, then the missing key,  *)
(* then the overflow guard; only then is the event pushed, the list cut to *)
(* its newest MaxRawEvents elements, the id remembered and the index moved.*)
(***************************************************************************)
AppendMiss(a)    == a \notin seen /\ sess = None
AppendRefused(a) == a \in seen \/ (sess # None /\ IsComplete(sess))

Trim(s) == IF Len(s) > MaxRawEvents
             THEN SubSeq(s, Len(s) - MaxRawEvents + 1, Len(s)) ELSE s

\* Mutant: LPUSH in place of RPUSH.
AppendLeft(a) ==
    /\ a \notin seen
    /\ sess # None
    /\ ~IsComplete(sess)
    /\ raw' = Trim(<<a>> \o raw)
    /\ seen' = seen \cup {a}
    /\ sess' = [sess EXCEPT !.idx = @ + 1]
    /\ UNCHANGED <<active, flushLock>>

AppendAccepted(a) ==
    /\ a \notin seen
    /\ sess # None
    /\ ~IsComplete(sess)
    /\ raw' = Trim(Append(raw, a))
    /\ seen' = seen \cup {a}
    /\ sess' = [sess EXCEPT !.idx = @ + 1]
    /\ UNCHANGED <<active, flushLock>>

SaveSession(s) ==
    /\ sess' = s
    /\ UNCHANGED <<raw, seen, active, flushLock>>

SetActive ==
    /\ active' = TRUE
    /\ UNCHANGED <<sess, raw, seen, flushLock>>

ClearActive ==
    /\ active' = FALSE
    /\ UNCHANGED <<sess, raw, seen, flushLock>>

\* Mutant: the raw list and the ids are left to their TTL.
DeleteStateOnly ==
    /\ sess' = None
    /\ UNCHANGED <<raw, seen, active, flushLock>>

\* One DEL of the three session keys.
DeleteSession ==
    /\ sess' = None
    /\ raw' = <<>>
    /\ seen' = {}
    /\ UNCHANGED <<active, flushLock>>

\* Mutant: SET without NX.
AcquireAnyway ==
    /\ flushLock' = TRUE
    /\ UNCHANGED <<sess, raw, seen, active>>

\* SET NX EX 120: the value is "1", the key does not say who holds it.
AcquireFlushLock ==
    /\ ~flushLock
    /\ flushLock' = TRUE
    /\ UNCHANGED <<sess, raw, seen, active>>

\* Plain DEL: whoever calls it, the key is gone afterwards.
ReleaseFlushLock ==
    /\ flushLock' = FALSE
    /\ UNCHANGED <<sess, raw, seen, active>>

(***************************************************************************)
(* What the Redis server may do by itself.  Keys carry TTLs, the server is *)
(* run with allkeys-lru and an RDB snapshot every minute: it may lose one  *)
(* key (eviction) or all of them (restart, 24 h without an answer).        *)
(***************************************************************************)
LoseEverything ==
    /\ sess' = None
    /\ raw' = <<>>
    /\ seen' = {}
    /\ active' = FALSE
    /\ flushLock' = FALSE

EvictOne ==
    \/ sess' = None   /\ UNCHANGED <<raw, seen, active, flushLock>>
    \/ raw' = <<>>    /\ UNCHANGED <<sess, seen, active, flushLock>>
    \/ seen' = {}     /\ UNCHANGED <<sess, raw, active, flushLock>>
    \/ active' = FALSE /\ UNCHANGED <<sess, raw, seen, flushLock>>
=============================================================================
