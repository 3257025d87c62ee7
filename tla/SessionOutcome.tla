--------------------------- MODULE SessionOutcome ---------------------------
(***************************************************************************)
(* What a buffered practice session promises to its user, without Redis,   *)
(* locks, sweeps or crashes: it takes answers one by one while it is open, *)
(* and is closed once; closing counts each of the answers it closes with   *)
(* exactly once, in the order they came, and nothing is counted before or  *)
(* after.  An answer that arrives while the session is being closed may be *)
(* left out.  PracticeSession implements this while Redis keeps its data   *)
(* and only the sweeper closes sessions.                                   *)
(***************************************************************************)
EXTENDS Naturals, Sequences, SequencesExt

CONSTANTS Answers, Items, ItemOf

VARIABLES
    result,     \* how the session stands: its status, the answers reviewed
    waiting,    \* the answers taken and not yet counted, oldest first
    counted     \* how often an answer has moved a schedule

vars == <<result, waiting, counted>>

InProgress == [status |-> "in_progress", reviewed |-> 0]

Init ==
    /\ result = InProgress
    /\ waiting = <<>>
    /\ counted = [a \in Answers |-> 0]

\* Each item is answered once.
Take(a) ==
    /\ result = InProgress
    /\ \A k \in 1..Len(waiting) : ItemOf[waiting[k]] # ItemOf[a]
    /\ waiting' = Append(waiting, a)
    /\ UNCHANGED <<result, counted>>

CloseWith(k) ==
    /\ result = InProgress
    /\ result' \in [status : {"completed", "abandoned"}, reviewed : {k}]
    /\ counted' = [a \in Answers |->
                     IF a \in ToSet(SubSeq(waiting, 1, k)) THEN 1 ELSE 0]
    /\ waiting' = <<>>

Next ==
    \/ \E a \in Answers : Take(a)
    \/ \E k \in 0..Len(waiting) : CloseWith(k)

Spec == Init /\ [][Next]_vars
=============================================================================
