----------------------- MODULE AnswerEvaluator_proofs -----------------------
(***************************************************************************)
(* What AnswerEvaluator computes, for texts of any length.                 *)
(*                                                                         *)
(* A fold of the library is a recursive function over sets of indices: a   *)
(* function that satisfies its equation is shown to exist, one index after *)
(* the other, and what its values for 1..k satisfy is shown from the       *)
(* equation in the same way.                                               *)
(***************************************************************************)
EXTENDS AnswerEvaluator, TLAPS, FiniteSetTheorems, WellFoundedInduction,
        SequenceTheorems

(***************************************************************************)
(* Numbers.                                                                *)
(***************************************************************************)
\* A non-empty set of numbers has a smallest one.
LEMMA LeastNumber ==
    ASSUME NEW S \in SUBSET Nat, S # {}
    PROVE  \E m \in S : \A k \in S : m <= k
  <1> DEFINE Less == {pair \in Nat \X Nat : pair[1] < pair[2]}
  <1>1. IsWellFoundedOn(Less, Nat)
    <2>1. Less = OpToRel(<, Nat)
      BY DEF OpToRel
    <2> QED
      BY <2>1, NatLessThanWellFounded
  <1>2. \A x, y \in Nat : <<x, y>> \in Less <=> x < y
    OBVIOUS
  <1> HIDE DEF Less
  <1>3. PICK m \in S : \A k \in S : ~(<<k, m>> \in Less)
    BY <1>1, WFMin
  <1>4. \A k \in S : k \in Nat /\ m \in Nat /\ ~(k < m)
    BY <1>2, <1>3
  <1>5. \A k \in S : m <= k
    BY <1>4
  <1> QED
    BY <1>5

\* Induction up to N, for the set of the numbers that have the property.
LEMMA CountUp ==
    ASSUME NEW N \in Nat, NEW S, 0 \in S,
           \A n \in 0..N : n \in S /\ n < N => n + 1 \in S
    PROVE  \A n \in 0..N : n \in S
  <1> DEFINE bad == {n \in 0..N : n \notin S}
  <1> SUFFICES ASSUME bad # {} PROVE FALSE
    OBVIOUS
  <1>6. bad \in SUBSET Nat
    OBVIOUS
  <1>1. PICK m \in bad : \A k \in bad : m <= k
    BY <1>6, LeastNumber
  <1>2. m \in 0..N /\ m \notin S /\ m # 0
    BY <1>1
  <1>3. m - 1 \in 0..N /\ m - 1 < N /\ m - 1 \notin bad
    BY <1>1, <1>2
  <1>4. m - 1 \in S
    BY <1>3
  <1>5. (m - 1) + 1 \in S
    BY <1>3, <1>4
  <1> QED
    BY <1>2, <1>5

LEMMA CountAll ==
    ASSUME NEW S, 0 \in S, \A n \in Nat : n \in S => n + 1 \in S
    PROVE  \A n \in Nat : n \in S
  <1> TAKE n \in Nat
  <1>1. \A k \in 0..n : k \in S
    BY CountUp
  <1> QED
    BY <1>1

LEMMA MaxOf ==
    ASSUME NEW n \in Nat, NEW s \in SUBSET (1..n), s # {}
    PROVE  Max(s) \in s /\ \A x \in s : x <= Max(s)
  <1> DEFINE flipped == {n - x : x \in s}
  <1>1. flipped \in SUBSET Nat /\ flipped # {}
    <2>1. \A x \in s : n - x \in Nat
      OBVIOUS
    <2>2. PICK x \in s : TRUE
      OBVIOUS
    <2>3. n - x \in flipped
      OBVIOUS
    <2> QED
      BY <2>1, <2>3
  <1>2. PICK m \in flipped : \A k \in flipped : m <= k
    BY <1>1, LeastNumber
  <1>3. PICK y \in s : m = n - y
    BY <1>2
  <1>4. \A x \in s : n - x \in flipped
    OBVIOUS
  <1>5. ASSUME NEW x \in s
        PROVE  y >= x
    <2>1. n - y <= n - x
      BY <1>2, <1>3, <1>4
    <2>2. x \in 1..n /\ y \in 1..n
      OBVIOUS
    <2> QED
      BY <2>1, <2>2
  <1>6. Max(s) = CHOOSE x \in s : \A z \in s : x >= z
    BY DEF Max
  <1>7. Max(s) \in s /\ \A z \in s : Max(s) >= z
    BY <1>5, <1>6
  <1> QED
    BY <1>7

LEMMA MinOf ==
    ASSUME NEW s \in SUBSET Nat, s # {}
    PROVE  Min(s) \in s /\ \A x \in s : Min(s) <= x
  <1>1. PICK m \in s : \A x \in s : m <= x
    BY LeastNumber
  <1> QED
    BY <1>1 DEF Min

-----------------------------------------------------------------------------
(***************************************************************************)
(* Folds.                                                                  *)
(***************************************************************************)
\* The table of a fold by g over numbers up to n, as the library defines it.
FoldTable(iter, base, g, n) ==
    iter = [s \in SUBSET (1..n) |->
               IF s = {} THEN base ELSE g[<<iter[s \ {Max(s)}], Max(s)>>]]

LEMMA TableExtends ==
    ASSUME NEW T, NEW base \in T, NEW N \in Nat, NEW g \in [T \X (1..N) -> T],
           NEW n \in 0..N, n < N, NEW iter \in [SUBSET (1..n) -> T],
           FoldTable(iter, base, g, n)
    PROVE  \E more \in [SUBSET (1..(n + 1)) -> T] :
               FoldTable(more, base, g, n + 1)
  <1> DEFINE Value(it, s) ==
               IF s = {} THEN base ELSE g[<<it[s \ {Max(s)}], Max(s)>>]
             more == [s \in SUBSET (1..(n + 1)) |-> Value(iter, s)]
  <1>1. ASSUME NEW s \in SUBSET (1..n)
        PROVE  iter[s] = Value(iter, s)
    BY FoldTable(iter, base, g, n), Zenon DEF FoldTable
  <1>2. ASSUME NEW s \in SUBSET (1..(n + 1))
        PROVE  more[s] = Value(iter, s)
    OBVIOUS
  <1> HIDE DEF more
  <1>3. ASSUME NEW s \in SUBSET (1..(n + 1)), s # {}
        PROVE  iter[s \ {Max(s)}] = more[s \ {Max(s)}]
    <2>1. n + 1 \in Nat
      OBVIOUS
    <2>4. Max(s) \in s /\ \A x \in s : x <= Max(s)
      BY <1>3, <2>1, MaxOf
    <2>2. s \ {Max(s)} \in SUBSET (1..n)
      <3>1. ASSUME NEW x \in s \ {Max(s)}
            PROVE  x \in 1..n
        <4>1. x \in 1..(n + 1) /\ Max(s) \in 1..(n + 1) /\ x <= Max(s) /\ x # Max(s)
          BY <2>4
        <4> QED
          BY <4>1
      <3> QED
        BY <3>1
    <2>3. s \ {Max(s)} \in SUBSET (1..(n + 1))
      OBVIOUS
    <2> HIDE DEF Value
    <2> QED
      BY <2>2, <2>3, <1>1, <1>2
  <1>7. ASSUME NEW s \in SUBSET (1..(n + 1))
        PROVE  Value(iter, s) \in T
    <2>1. CASE s = {}
      BY <2>1
    <2>2. CASE s # {}
      <3>1. n + 1 \in Nat
        OBVIOUS
      <3>2. Max(s) \in s /\ \A x \in s : x <= Max(s)
        BY <2>2, <3>1, MaxOf
      <3>3. s \ {Max(s)} \in SUBSET (1..n)
        <4>1. ASSUME NEW x \in s \ {Max(s)}
              PROVE  x \in 1..n
          <5>1. x \in 1..(n + 1) /\ Max(s) \in 1..(n + 1)
                  /\ x <= Max(s) /\ x # Max(s)
            BY <3>2
          <5> QED
            BY <5>1
        <4> QED
          BY <4>1
      <3>4. Max(s) \in 1..N
        <4>1. Max(s) \in 1..(n + 1)
          BY <3>2
        <4>2. n + 1 <= N
          OBVIOUS
        <4> HIDE DEF Value
        <4> QED
          BY <4>1, <4>2
      <3>5. iter[s \ {Max(s)}] \in T
        BY <3>3
      <3>6. g[<<iter[s \ {Max(s)}], Max(s)>>] \in T
        BY <3>4, <3>5
      <3> QED
        BY <2>2, <3>6
    <2> QED
      BY <2>1, <2>2
  <1>4. \A s \in SUBSET (1..(n + 1)) : Value(iter, s) = Value(more, s)
    BY <1>3, Zenon
  <1>5. more = [s \in SUBSET (1..(n + 1)) |-> Value(iter, s)]
    BY DEF more
  <1>6. more = [s \in SUBSET (1..(n + 1)) |-> Value(more, s)]
    <2> HIDE DEF Value
    <2> QED
      BY <1>4, <1>5
  <1>8. more \in [SUBSET (1..(n + 1)) -> T]
    <2> HIDE DEF Value
    <2> QED
      BY <1>5, <1>7
  <1> QED
    BY <1>6, <1>8 DEF FoldTable

LEMMA TableExists ==
    ASSUME NEW T, NEW base \in T, NEW N \in Nat, NEW g \in [T \X (1..N) -> T]
    PROVE  \E iter \in [SUBSET (1..N) -> T] : FoldTable(iter, base, g, N)
  <1> DEFINE S == {n \in 0..N : \E iter \in [SUBSET (1..n) -> T] :
                                   FoldTable(iter, base, g, n)}
  <1>1. 0 \in S
    <2>1. SUBSET (1..0) = {{}}
      <3>1. 1..0 = {}
        OBVIOUS
      <3> QED
        BY <3>1
    <2> DEFINE iter == [s \in {{}} |-> base]
    <2>2. iter = [s \in SUBSET (1..0) |->
                    IF s = {} THEN base ELSE g[<<iter[s \ {Max(s)}], Max(s)>>]]
      BY <2>1
    <2>3. FoldTable(iter, base, g, 0) /\ iter \in [SUBSET (1..0) -> T]
      BY <2>1, <2>2 DEF FoldTable
    <2> HIDE DEF iter
    <2>4. \E it \in [SUBSET (1..0) -> T] : FoldTable(it, base, g, 0)
      BY <2>3
    <2>5. 0 \in 0..N
      OBVIOUS
    <2> QED
      BY <2>4, <2>5, Zenon
  <1>2. ASSUME NEW n \in 0..N, n \in S, n < N
        PROVE  n + 1 \in S
    <2>1. PICK iter \in [SUBSET (1..n) -> T] : FoldTable(iter, base, g, n)
      BY <1>2
    <2>2. \E more \in [SUBSET (1..(n + 1)) -> T] : FoldTable(more, base, g, n + 1)
      BY <1>2, <2>1, TableExtends
    <2> QED
      BY <1>2, <2>2
  <1> HIDE DEF S
  <1>3. \A n \in 0..N : n \in S
    BY <1>1, <1>2, CountUp
  <1>4. N \in S
    BY <1>3
  <1> QED
    BY <1>4 DEF S

LEMMA MaxOfRange ==
    ASSUME NEW k \in Nat, k # 0
    PROVE  /\ 1..k # {} /\ Max(1..k) = k
           /\ (1..k) \ {Max(1..k)} = 1..(k - 1)
  <1>1. 1..k # {} /\ 1..k \in SUBSET (1..k)
    OBVIOUS
  <1>2. Max(1..k) \in 1..k /\ \A x \in 1..k : x <= Max(1..k)
    BY <1>1, MaxOf
  <1>3. Max(1..k) = k
    BY <1>2
  <1> QED
    BY <1>1, <1>3

\* The values that such a table, c, has for the sets 1..k.
LEMMA TableTypes ==
    ASSUME NEW N \in Nat, NEW T, NEW c, c[{}] \in T,
           \A k \in 1..N : c[1..(k - 1)] \in T => c[1..k] \in T
    PROVE  \A k \in 0..N : c[1..k] \in T
  <1> DEFINE S == {k \in 0..N : c[1..k] \in T}
  <1>1. 1..0 = {}
    OBVIOUS
  <1>2. 0 \in S
    BY <1>1
  <1>3. ASSUME NEW n \in 0..N, n \in S, n < N
        PROVE  n + 1 \in S
    <2>1. n + 1 \in 1..N /\ (n + 1) - 1 = n /\ c[1..n] \in T
      BY <1>3
    <2> QED
      BY <2>1
  <1>4. \A k \in 0..N : k \in S
    BY <1>2, <1>3, CountUp
  <1> QED
    BY <1>4

-----------------------------------------------------------------------------
(***************************************************************************)
(* normalise.                                                              *)
(***************************************************************************)
\* What Dropping has kept of the first k elements.
Drops(run, seq, S) ==
    /\ run[0] = <<>> /\ run[Len(seq)] = Dropping(seq, S)
    /\ \A k \in 1..Len(seq) :
          run[k] = IF seq[k] \in S THEN run[k - 1]
                   ELSE Append(run[k - 1], seq[k])

LEMMA DroppingRuns ==
    ASSUME NEW T, NEW seq \in Seq(T), NEW S
    PROVE  \E run \in [0..Len(seq) -> Seq(T \ S)] : Drops(run, seq, S)
  <1> DEFINE N == Len(seq)
             Rest == Seq(T \ S)
             Step(done, k) == IF seq[k] \in S THEN done ELSE Append(done, seq[k])
             g == [pair \in Rest \X (1..N) |-> Step(pair[1], pair[2])]
             Table(c) == c = [s \in SUBSET (1..N) |->
                                IF s = {} THEN <<>> ELSE Step(c[s \ {Max(s)}], Max(s))]
             c == CHOOSE iter : Table(iter)
  <1>1. N \in Nat /\ DOMAIN seq = 1..N /\ \A k \in 1..N : seq[k] \in T
    OBVIOUS
  <1>2. \A done \in Rest, k \in 1..N : Step(done, k) \in Rest
    BY <1>1
  <1>3. g \in [Rest \X (1..N) -> Rest]
    BY <1>2
  <1>4. \A done \in Rest, k \in 1..N : g[<<done, k>>] = Step(done, k)
    OBVIOUS
  <1>5. Dropping(seq, S) = c[1..N]
    BY <1>1, Zenon DEF Dropping, FoldLeft, MapThenFoldSet
  <1> HIDE DEF g, Step, Rest, N
  <1>6. \E iter : Table(iter)
    <2>1. PICK iter \in [SUBSET (1..N) -> Rest] : FoldTable(iter, <<>>, g, N)
      <3>1. <<>> \in Rest
        BY DEF Rest
      <3> QED
        BY <1>1, <1>3, <3>1, TableExists
    <2>2. ASSUME NEW s \in SUBSET (1..N)
          PROVE  (IF s = {} THEN <<>> ELSE g[<<iter[s \ {Max(s)}], Max(s)>>])
                   = (IF s = {} THEN <<>> ELSE Step(iter[s \ {Max(s)}], Max(s)))
      <3>1. CASE s # {}
        <4>1. Max(s) \in 1..N
          BY <1>1, <3>1, MaxOf
        <4>2. iter[s \ {Max(s)}] \in Rest
          OBVIOUS
        <4> QED
          BY <1>4, <4>1, <4>2
      <3> QED
        BY <3>1
    <2>3. iter = [s \in SUBSET (1..N) |->
                    IF s = {} THEN <<>> ELSE g[<<iter[s \ {Max(s)}], Max(s)>>]]
      BY <2>1 DEF FoldTable
    <2>4. Table(iter)
      BY <2>2, <2>3
    <2> QED
      BY <2>4
  <1>7. Table(c)
    BY <1>6, Zenon
  <1>8. \A s \in SUBSET (1..N) :
          c[s] = IF s = {} THEN <<>> ELSE Step(c[s \ {Max(s)}], Max(s))
    BY <1>7, Zenon
  <1> HIDE DEF c
  <1>9. ASSUME NEW k \in 1..N
        PROVE  c[1..k] = Step(c[1..(k - 1)], k)
    <2>1. k \in Nat /\ k # 0 /\ 1..k \in SUBSET (1..N)
      BY <1>1
    <2> QED
      BY <1>8, <2>1, MaxOfRange
  <1>10. c[{}] = <<>> /\ <<>> \in Rest
    <2>1. {} \in SUBSET (1..N)
      OBVIOUS
    <2>2. <<>> \in Rest
      BY DEF Rest
    <2> QED
      BY <1>8, <2>1, <2>2, Zenon
  <1>11. \A k \in 0..N : c[1..k] \in Rest
    <2>1. \A k \in 1..N : c[1..(k - 1)] \in Rest => c[1..k] \in Rest
      BY <1>2, <1>9
    <2>2. c[{}] \in Rest /\ N \in Nat
      BY <1>1, <1>10
    <2> HIDE DEF Table
    <2> QED
      BY <2>1, <2>2, TableTypes
  <1> DEFINE run == [k \in 0..N |-> c[1..k]]
  <1>12. run \in [0..N -> Rest]
    BY <1>11
  <1>13. run[0] = <<>> /\ run[N] = c[1..N]
    <2>1. 1..0 = {} /\ 0 \in 0..N /\ N \in 0..N
      BY <1>1
    <2> QED
      BY <1>10, <2>1
  <1>14. ASSUME NEW k \in 1..N
         PROVE  run[k] = Step(run[k - 1], k)
    <2>1. k - 1 \in 0..N /\ k \in 0..N
      BY <1>1
    <2> QED
      BY <1>9, <2>1
  <1> HIDE DEF run
  <1> QED
    BY <1>5, <1>12, <1>13, <1>14 DEF Step, Rest, N, Drops

\* What is left has only elements that were there and are not in S.
LEMMA DroppingType ==
    ASSUME NEW T, NEW seq \in Seq(T), NEW S
    PROVE  Dropping(seq, S) \in Seq(T \ S)
  <1>1. PICK run \in [0..Len(seq) -> Seq(T \ S)] : Drops(run, seq, S)
    BY DroppingRuns, Zenon
  <1>2. Len(seq) \in 0..Len(seq)
    OBVIOUS
  <1> QED
    BY <1>1, <1>2 DEF Drops

\* Sequences that are built up one element at a time.
LEMMA GrowsTo ==
    ASSUME NEW T, NEW seq \in Seq(T), NEW run \in [0..Len(seq) -> Seq(T)],
           run[0] = <<>>,
           \A k \in 1..Len(seq) : run[k] = Append(run[k - 1], seq[k])
    PROVE  \A k \in 0..Len(seq) : run[k] = SubSeq(seq, 1, k)
  <1> DEFINE S == {k \in 0..Len(seq) : run[k] = SubSeq(seq, 1, k)}
  <1>1. 0 \in S
    <2>1. SubSeq(seq, 1, 0) = <<>>
      BY SubSeqEmpty
    <2>2. 0 \in 0..Len(seq)
      OBVIOUS
    <2> QED
      BY <2>1, <2>2, Zenon
  <1>2. ASSUME NEW n \in 0..Len(seq), n \in S, n < Len(seq)
        PROVE  n + 1 \in S
    <2>1. /\ n + 1 \in 1..Len(seq) /\ n + 1 \in 0..Len(seq)
          /\ (n + 1) - 1 = n /\ Len(seq) \in Nat
          /\ 1 \in 1..Len(seq)
      BY <1>2
    <2>2. run[n + 1] = Append(SubSeq(seq, 1, n), seq[n + 1])
      BY <1>2, <2>1
    <2>3. SubSeq(seq, 1, n + 1) = SubSeq(seq, 1, (n + 1) - 1) \o <<seq[n + 1]>>
      BY <2>1, SubSeqRecursiveSecond
    <2>4. SubSeq(seq, 1, n) \in Seq(T)
      BY <1>2
    <2>5. Append(SubSeq(seq, 1, n), seq[n + 1]) = SubSeq(seq, 1, n) \o <<seq[n + 1]>>
      BY <2>1, <2>4
    <2>6. run[n + 1] = SubSeq(seq, 1, n + 1)
      BY <2>1, <2>2, <2>3, <2>5, Zenon
    <2> QED
      BY <2>1, <2>6, Zenon
  <1> HIDE DEF S
  <1>3. \A k \in 0..Len(seq) : k \in S
    <2>1. Len(seq) \in Nat
      OBVIOUS
    <2> QED
      BY <1>1, <1>2, <2>1, CountUp
  <1> QED
    BY <1>3 DEF S

LEMMA GrowsToAll ==
    ASSUME NEW T, NEW seq \in Seq(T), NEW run \in [0..Len(seq) -> Seq(T)],
           run[0] = <<>>,
           \A k \in 1..Len(seq) : run[k] = Append(run[k - 1], seq[k])
    PROVE  run[Len(seq)] = seq
  <1>1. Len(seq) \in 0..Len(seq)
    OBVIOUS
  <1> QED
    <2>1. run[Len(seq)] = SubSeq(seq, 1, Len(seq))
      BY <1>1, GrowsTo, Zenon
    <2> QED
      BY <2>1, SubSeqFull, Zenon

LEMMA DroppingNone ==
    ASSUME NEW T, NEW seq \in Seq(T), NEW S,
           \A k \in 1..Len(seq) : seq[k] \notin S
    PROVE  Dropping(seq, S) = seq
  <1>1. PICK run \in [0..Len(seq) -> Seq(T \ S)] : Drops(run, seq, S)
    BY DroppingRuns, Zenon
  <1>2. /\ \A k \in 1..Len(seq) : run[k] = Append(run[k - 1], seq[k])
        /\ run[0] = <<>> /\ run[Len(seq)] = Dropping(seq, S)
    BY <1>1 DEF Drops
  <1>3. run \in [0..Len(seq) -> Seq(T)]
    BY SeqMonotonic
  <1> QED
    BY <1>2, <1>3, GrowsToAll

LEMMA CollapseRuns ==
    ASSUME NEW T, NEW seq \in Seq(T)
    PROVE  \E run \in [0..Len(seq) -> Seq(T)] :
               /\ run[0] = <<>> /\ run[Len(seq)] = Collapse(seq)
               /\ \A k \in 1..Len(seq) :
                     run[k] = IF seq[k] = Space
                                   /\ (run[k - 1] = <<>> \/ Last(run[k - 1]) = Space)
                                THEN run[k - 1] ELSE Append(run[k - 1], seq[k])
  <1> DEFINE N == Len(seq)
             Rest == Seq(T)
             Step(done, k) ==
               IF seq[k] = Space /\ (done = <<>> \/ Last(done) = Space)
                 THEN done ELSE Append(done, seq[k])
             g == [pair \in Rest \X (1..N) |-> Step(pair[1], pair[2])]
             Table(c) == c = [s \in SUBSET (1..N) |->
                                IF s = {} THEN <<>> ELSE Step(c[s \ {Max(s)}], Max(s))]
             c == CHOOSE iter : Table(iter)
  <1>1. N \in Nat /\ DOMAIN seq = 1..N /\ \A k \in 1..N : seq[k] \in T
    OBVIOUS
  <1>2. \A done \in Rest, k \in 1..N : Step(done, k) \in Rest
    BY <1>1
  <1>3. g \in [Rest \X (1..N) -> Rest]
    BY <1>2
  <1>4. \A done \in Rest, k \in 1..N : g[<<done, k>>] = Step(done, k)
    OBVIOUS
  <1>5. Collapse(seq) = c[1..N]
    BY <1>1, Zenon DEF Collapse, FoldLeft, MapThenFoldSet
  <1> HIDE DEF g, Step, Rest, N
  <1>6. \E iter : Table(iter)
    <2>1. PICK iter \in [SUBSET (1..N) -> Rest] : FoldTable(iter, <<>>, g, N)
      <3>1. <<>> \in Rest
        BY DEF Rest
      <3> QED
        BY <1>1, <1>3, <3>1, TableExists
    <2>2. ASSUME NEW s \in SUBSET (1..N)
          PROVE  (IF s = {} THEN <<>> ELSE g[<<iter[s \ {Max(s)}], Max(s)>>])
                   = (IF s = {} THEN <<>> ELSE Step(iter[s \ {Max(s)}], Max(s)))
      <3>1. CASE s # {}
        <4>1. Max(s) \in 1..N
          BY <1>1, <3>1, MaxOf
        <4>2. iter[s \ {Max(s)}] \in Rest
          OBVIOUS
        <4> QED
          BY <1>4, <4>1, <4>2
      <3> QED
        BY <3>1
    <2>3. iter = [s \in SUBSET (1..N) |->
                    IF s = {} THEN <<>> ELSE g[<<iter[s \ {Max(s)}], Max(s)>>]]
      BY <2>1 DEF FoldTable
    <2>4. Table(iter)
      BY <2>2, <2>3
    <2> QED
      BY <2>4
  <1>7. Table(c)
    BY <1>6, Zenon
  <1>8. \A s \in SUBSET (1..N) :
          c[s] = IF s = {} THEN <<>> ELSE Step(c[s \ {Max(s)}], Max(s))
    BY <1>7, Zenon
  <1> HIDE DEF c
  <1>9. ASSUME NEW k \in 1..N
        PROVE  c[1..k] = Step(c[1..(k - 1)], k)
    <2>1. k \in Nat /\ k # 0 /\ 1..k \in SUBSET (1..N)
      BY <1>1
    <2> QED
      BY <1>8, <2>1, MaxOfRange
  <1>10. c[{}] = <<>> /\ <<>> \in Rest
    <2>1. {} \in SUBSET (1..N)
      OBVIOUS
    <2>2. <<>> \in Rest
      BY DEF Rest
    <2> QED
      BY <1>8, <2>1, <2>2, Zenon
  <1>11. \A k \in 0..N : c[1..k] \in Rest
    <2>1. \A k \in 1..N : c[1..(k - 1)] \in Rest => c[1..k] \in Rest
      BY <1>2, <1>9
    <2>2. c[{}] \in Rest /\ N \in Nat
      BY <1>1, <1>10
    <2> HIDE DEF Table
    <2> QED
      BY <2>1, <2>2, TableTypes
  <1> DEFINE run == [k \in 0..N |-> c[1..k]]
  <1>12. run \in [0..N -> Rest]
    BY <1>11
  <1>13. run[0] = <<>> /\ run[N] = c[1..N]
    <2>1. 1..0 = {} /\ 0 \in 0..N /\ N \in 0..N
      BY <1>1
    <2> QED
      BY <1>10, <2>1
  <1>14. ASSUME NEW k \in 1..N
         PROVE  run[k] = Step(run[k - 1], k)
    <2>1. k - 1 \in 0..N /\ k \in 0..N
      BY <1>1
    <2> QED
      BY <1>9, <2>1
  <1> HIDE DEF run
  <1> QED
    BY <1>5, <1>12, <1>13, <1>14 DEF Step, Rest, N

LEMMA CollapseType ==
    ASSUME NEW T, NEW seq \in Seq(T)
    PROVE  Collapse(seq) \in Seq(T)
  <1>1. PICK run \in [0..Len(seq) -> Seq(T)] : run[Len(seq)] = Collapse(seq)
    BY CollapseRuns
  <1>2. Len(seq) \in 0..Len(seq)
    OBVIOUS
  <1> QED
    BY <1>1, <1>2

LEMMA CollapseNone ==
    ASSUME NEW T, NEW seq \in Seq(T), \A k \in 1..Len(seq) : seq[k] # Space
    PROVE  Collapse(seq) = seq
  <1>1. PICK run \in [0..Len(seq) -> Seq(T)] :
            /\ run[0] = <<>> /\ run[Len(seq)] = Collapse(seq)
            /\ \A k \in 1..Len(seq) :
                  run[k] = IF seq[k] = Space
                                /\ (run[k - 1] = <<>> \/ Last(run[k - 1]) = Space)
                             THEN run[k - 1] ELSE Append(run[k - 1], seq[k])
    BY CollapseRuns, Zenon
  <1>2. \A k \in 1..Len(seq) : run[k] = Append(run[k - 1], seq[k])
    BY <1>1
  <1> QED
    BY <1>1, <1>2, GrowsToAll

LEMMA StripType ==
    ASSUME NEW T, NEW text \in Seq(T)
    PROVE  Strip(text) \in Seq(T)
  <1> DEFINE inked == {n \in DOMAIN text : text[n] # Space}
  <1>1. CASE inked = {}
    BY <1>1 DEF Strip
  <1>2. CASE inked # {}
    <2>1. Len(text) \in Nat /\ DOMAIN text = 1..Len(text)
      OBVIOUS
    <2>2. inked \in SUBSET (1..Len(text)) /\ inked \in SUBSET Nat
      BY <2>1
    <2>3. Max(inked) \in inked
      BY <1>2, <2>1, <2>2, MaxOf
    <2>4. Min(inked) \in inked
      BY <1>2, <2>2, MinOf
    <2>5. Min(inked) \in 1..Len(text) /\ Max(inked) \in 1..Len(text)
      BY <2>2, <2>3, <2>4
    <2> HIDE DEF inked
    <2>6. SubSeq(text, Min(inked), Max(inked)) \in Seq(T)
      BY <2>1, <2>5, SubSeqProperties
    <2> QED
      BY <1>2, <2>6 DEF Strip, inked
  <1> QED
    BY <1>1, <1>2

LEMMA StripNone ==
    ASSUME NEW T, NEW text \in Seq(T), \A k \in 1..Len(text) : text[k] # Space
    PROVE  Strip(text) = text
  <1> DEFINE inked == {n \in DOMAIN text : text[n] # Space}
  <1>1. Len(text) \in Nat /\ inked = 1..Len(text)
    OBVIOUS
  <1>2. CASE Len(text) = 0
    <2>1. inked = {} /\ text = <<>>
      BY <1>1, <1>2
    <2> QED
      BY <2>1 DEF Strip
  <1>3. CASE Len(text) # 0
    <2>1. Max(inked) = Len(text)
      BY <1>1, <1>3, MaxOfRange
    <2>2. inked \in SUBSET Nat /\ inked # {} /\ 1 \in inked
      BY <1>1, <1>3
    <2>3. Min(inked) \in inked /\ Min(inked) <= 1
      BY <2>2, MinOf
    <2>4. Min(inked) = 1
      BY <1>1, <2>3
    <2> HIDE DEF inked
    <2>5. Strip(text) = SubSeq(text, 1, Len(text))
      BY <2>1, <2>2, <2>4 DEF Strip, inked
    <2> QED
      BY <2>5, SubSeqFull
  <1> QED
    BY <1>2, <1>3

LEMMA NormaliseType ==
    ASSUME NEW T, NEW text \in Seq(T)
    PROVE  Normalise(text) \in Seq({Plain(c) : c \in T})
  <1> DEFINE kept == Dropping(Collapse(Strip(text)), Punctuation)
             X == {Plain(c) : c \in T}
             plain == [n \in DOMAIN kept |-> Plain(kept[n])]
  <1>1. kept \in Seq(T \ Punctuation)
    BY StripType, CollapseType, DroppingType
  <1>2. Normalise(text) = Strip(plain)
    BY Zenon DEF Normalise
  <1> HIDE DEF kept
  <1>3. DOMAIN kept = 1..Len(kept) /\ Len(kept) \in Nat
    BY <1>1
  <1>4. \A n \in DOMAIN kept : kept[n] \in T
    BY <1>1, <1>3
  <1>5. plain \in Seq(X)
    BY <1>3, <1>4
  <1> HIDE DEF plain, X
  <1>6. Strip(plain) \in Seq(X)
    BY <1>5, StripType
  <1> QED
    BY <1>2, <1>6 DEF X

-----------------------------------------------------------------------------
(***************************************************************************)
(* Edit distance.                                                          *)
(***************************************************************************)
\* D has the distances of the prefixes of a from those of b.
Cells(a, b) == (0..Len(a)) \X (0..Len(b))

EditTable(D, a, b) ==
    /\ D \in [Cells(a, b) -> Nat]
    /\ \A i \in 0..Len(a) : D[<<i, 0>>] = i
    /\ \A j \in 0..Len(b) : D[<<0, j>>] = j
    /\ \A i \in 1..Len(a), j \in 1..Len(b) :
          D[<<i, j>>] = IF a[i] = b[j] THEN D[<<i - 1, j - 1>>]
                        ELSE 1 + Min({D[<<i - 1, j>>], D[<<i - 1, j - 1>>],
                                      D[<<i, j - 1>>]})

LEMMA MinOfThree ==
    ASSUME NEW x \in Nat, NEW y \in Nat, NEW z \in Nat
    PROVE  /\ Min({x, y, z}) \in Nat
           /\ Min({x, y, z}) <= x /\ Min({x, y, z}) <= y /\ Min({x, y, z}) <= z
           /\ Min({x, y, z}) = x \/ Min({x, y, z}) = y \/ Min({x, y, z}) = z
  <1>1. {x, y, z} \in SUBSET Nat /\ {x, y, z} # {}
    OBVIOUS
  <1>2. Min({x, y, z}) \in {x, y, z} /\ \A k \in {x, y, z} : Min({x, y, z}) <= k
    BY <1>1, MinOf
  <1> QED
    BY <1>2

\* The same edits backwards.
LEMMA TableSwaps ==
    ASSUME NEW T, NEW a \in Seq(T), NEW b \in Seq(T), NEW D, EditTable(D, a, b)
    PROVE  \E S : EditTable(S, b, a) /\ S[<<Len(b), Len(a)>>] = D[<<Len(a), Len(b)>>]
  <1> DEFINE S == [c \in Cells(b, a) |-> D[<<c[2], c[1]>>]]
  <1>1. Len(a) \in Nat /\ Len(b) \in Nat
    OBVIOUS
  <1>2. ASSUME NEW i \in 0..Len(b), NEW j \in 0..Len(a)
        PROVE  S[<<i, j>>] = D[<<j, i>>]
    <2>1. <<i, j>> \in Cells(b, a)
      BY DEF Cells
    <2> QED
      BY <2>1
  <1>3. S \in [Cells(b, a) -> Nat]
    <2>1. ASSUME NEW c \in Cells(b, a)
          PROVE  D[<<c[2], c[1]>>] \in Nat
      <3>1. <<c[2], c[1]>> \in Cells(a, b)
        BY DEF Cells
      <3>2. D \in [Cells(a, b) -> Nat]
        BY DEF EditTable
      <3> QED
        BY <3>1, <3>2
    <2> QED
      BY <2>1
  <1> HIDE DEF S
  <1>4. \A i \in 0..Len(b) : S[<<i, 0>>] = i
    <2>1. 0 \in 0..Len(a)
      BY <1>1
    <2>2. \A i \in 0..Len(b) : D[<<0, i>>] = i
      BY DEF EditTable
    <2> QED
      BY <1>2, <2>1, <2>2
  <1>5. \A j \in 0..Len(a) : S[<<0, j>>] = j
    <2>1. 0 \in 0..Len(b)
      BY <1>1
    <2>2. \A j \in 0..Len(a) : D[<<j, 0>>] = j
      BY DEF EditTable
    <2> QED
      BY <1>2, <2>1, <2>2
  <1>6. ASSUME NEW i \in 1..Len(b), NEW j \in 1..Len(a)
        PROVE  S[<<i, j>>] = IF b[i] = a[j] THEN S[<<i - 1, j - 1>>]
                             ELSE 1 + Min({S[<<i - 1, j>>], S[<<i - 1, j - 1>>],
                                           S[<<i, j - 1>>]})
    <2>1. /\ i \in 0..Len(b) /\ i - 1 \in 0..Len(b)
          /\ j \in 0..Len(a) /\ j - 1 \in 0..Len(a)
      BY <1>1
    <2>2. /\ S[<<i, j>>] = D[<<j, i>>] /\ S[<<i - 1, j>>] = D[<<j, i - 1>>]
          /\ S[<<i - 1, j - 1>>] = D[<<j - 1, i - 1>>]
          /\ S[<<i, j - 1>>] = D[<<j - 1, i>>]
      BY <1>2, <2>1
    <2>3. D[<<j, i>>] = IF a[j] = b[i] THEN D[<<j - 1, i - 1>>]
                        ELSE 1 + Min({D[<<j - 1, i>>], D[<<j - 1, i - 1>>],
                                      D[<<j, i - 1>>]})
      BY DEF EditTable
    <2>4. {D[<<j - 1, i>>], D[<<j - 1, i - 1>>], D[<<j, i - 1>>]}
            = {D[<<j, i - 1>>], D[<<j - 1, i - 1>>], D[<<j - 1, i>>]}
      OBVIOUS
    <2> QED
      BY <2>2, <2>3, <2>4, Zenon
  <1>7. EditTable(S, b, a)
    BY <1>3, <1>4, <1>5, <1>6 DEF EditTable
  <1>8. S[<<Len(b), Len(a)>>] = D[<<Len(a), Len(b)>>]
    <2>1. Len(b) \in 0..Len(b) /\ Len(a) \in 0..Len(a)
      BY <1>1
    <2> QED
      BY <1>2, <2>1
  <1> QED
    BY <1>7, <1>8

\* Neighbours differ by at most one.
Near(x, y) == x <= y + 1 /\ y <= x + 1

LEMMA NeighboursAreNear ==
    ASSUME NEW T, NEW a \in Seq(T), NEW b \in Seq(T), NEW D, EditTable(D, a, b)
    PROVE  /\ \A i \in 0..Len(a), j \in 1..Len(b) :
                 Near(D[<<i, j>>], D[<<i, j - 1>>])
           /\ \A i \in 1..Len(a), j \in 0..Len(b) :
                 Near(D[<<i, j>>], D[<<i - 1, j>>])
  <1> DEFINE n == Len(a)
             m == Len(b)
             Fine(i, j) == /\ j > 0 => Near(D[<<i, j>>], D[<<i, j - 1>>])
                           /\ i > 0 => Near(D[<<i, j>>], D[<<i - 1, j>>])
             S == {k \in 0..(n + m) :
                     \A i \in 0..n, j \in 0..m : i + j = k => Fine(i, j)}
  <1>1. n \in Nat /\ m \in Nat
    OBVIOUS
  <1> HIDE DEF n, m
  <1>2. \A i \in 0..n, j \in 0..m : D[<<i, j>>] \in Nat
    BY DEF EditTable, Cells, n, m
  <1>3. 0 \in S
    BY <1>1
  <1>4. ASSUME NEW k \in 0..(n + m), k \in S, k < n + m
        PROVE  k + 1 \in S
    <2> SUFFICES ASSUME NEW i \in 0..n, NEW j \in 0..m, i + j = k + 1
                 PROVE  Fine(i, j)
      BY <1>1, <1>4
    <2>1. CASE i = 0
      <3>1. j # 0 /\ j - 1 \in 0..m /\ j \in Nat
        BY <1>1, <1>4, <2>1
      <3>2. D[<<i, j>>] = j /\ D[<<i, j - 1>>] = j - 1
        BY <2>1, <3>1 DEF EditTable, m
      <3>3. Near(D[<<i, j>>], D[<<i, j - 1>>])
        BY <3>1, <3>2 DEF Near
      <3> QED
        BY <2>1, <3>3
    <2>2. CASE j = 0
      <3>1. i # 0 /\ i - 1 \in 0..n /\ i \in Nat
        BY <1>1, <1>4, <2>2
      <3>2. D[<<i, j>>] = i /\ D[<<i - 1, j>>] = i - 1
        BY <2>2, <3>1 DEF EditTable, n
      <3>3. Near(D[<<i, j>>], D[<<i - 1, j>>])
        BY <3>1, <3>2 DEF Near
      <3> QED
        BY <2>2, <3>3
    <2>3. CASE i # 0 /\ j # 0
      <3> DEFINE here == D[<<i, j>>]
                 up == D[<<i - 1, j>>]
                 left == D[<<i, j - 1>>]
                 corner == D[<<i - 1, j - 1>>]
      <3>1. /\ i \in 1..n /\ j \in 1..m /\ i - 1 \in 0..n /\ j - 1 \in 0..m
            /\ (i - 1) + j = k /\ i + (j - 1) = k
        BY <1>1, <1>4, <2>3
      <3>2. here = IF a[i] = b[j] THEN corner ELSE 1 + Min({up, corner, left})
        BY <3>1, Zenon DEF EditTable, n, m
      <3>3. Fine(i - 1, j) /\ Fine(i, j - 1)
        BY <1>4, <3>1
      <3>4. Near(up, corner) /\ Near(left, corner)
        <4>1. i > 0 /\ j > 0
          BY <2>3
        <4> QED
          BY <3>3, <4>1
      <3>5. here \in Nat /\ up \in Nat /\ left \in Nat /\ corner \in Nat
        BY <1>2, <3>1
      <3> HIDE DEF here, up, left, corner
      <3>6. Near(here, left) /\ Near(here, up)
        <4>1. CASE a[i] = b[j]
          <5>1. here = corner
            BY <3>2, <4>1
          <5> QED
            BY <3>4, <3>5, <5>1 DEF Near
        <4>2. CASE a[i] # b[j]
          <5>1. here = 1 + Min({up, corner, left})
            BY <3>2, <4>2
          <5> DEFINE least == Min({up, corner, left})
          <5>2. /\ least \in Nat
                /\ least <= up /\ least <= corner /\ least <= left
                /\ least = up \/ least = corner \/ least = left
            BY <3>5, MinOfThree
          <5> HIDE DEF least
          <5>3. here = 1 + least
            BY <5>1 DEF least
          <5> QED
            BY <3>4, <3>5, <5>2, <5>3 DEF Near
        <4> QED
          BY <4>1, <4>2
      <3> QED
        BY <3>6 DEF here, up, left
    <2> QED
      BY <2>1, <2>2, <2>3
  <1> HIDE DEF S
  <1>5. \A k \in 0..(n + m) : k \in S
    <2>1. n + m \in Nat
      BY <1>1
    <2> QED
      BY <1>3, <1>4, <2>1, CountUp
  <1>6. \A i \in 0..n, j \in 0..m : Fine(i, j)
    <2> TAKE i \in 0..n, j \in 0..m
    <2>1. i + j \in 0..(n + m)
      BY <1>1
    <2> QED
      BY <1>5, <2>1 DEF S
  <1>7. ASSUME NEW i \in 0..n, NEW j \in 1..m
        PROVE  Near(D[<<i, j>>], D[<<i, j - 1>>])
    <2>1. j \in 0..m /\ j > 0
      BY <1>1
    <2> QED
      BY <1>6, <2>1
  <1>8. ASSUME NEW i \in 1..n, NEW j \in 0..m
        PROVE  Near(D[<<i, j>>], D[<<i - 1, j>>])
    <2>1. i \in 0..n /\ i > 0
      BY <1>1
    <2> QED
      BY <1>6, <2>1
  <1> QED
    BY <1>7, <1>8 DEF n, m

Triples(k, a, b) == (0..k) \X (0..Len(a)) \X (0..Len(b))

\* What the reference makes of its value for shorter prefixes and fewer edits.
Reachable(W, a, b, e, i, j) ==
    \/ i = 0 /\ j <= e
    \/ j = 0 /\ i <= e
    \/ i > 0 /\ j > 0 /\ a[i] = b[j] /\ W[<<e, i - 1, j - 1>>]
    \/ e > 0 /\ i > 0 /\ j > 0 /\ \/ W[<<e - 1, i - 1, j>>]
                                  \/ W[<<e - 1, i, j - 1>>]
                                  \/ W[<<e - 1, i - 1, j - 1>>]

Reaches(W, k, a, b) ==
    W = [c \in Triples(k, a, b) |-> Reachable(W, a, b, c[1], c[2], c[3])]

LEMMA ReachUnfolds ==
    ASSUME NEW k, NEW a, NEW b
    PROVE  WithinEdits(k, a, b)
             <=> (CHOOSE W : Reaches(W, k, a, b))[<<k, Len(a), Len(b)>>]
  BY Zenon DEF WithinEdits, Reaches, Reachable, Triples

LEMMA ReachValues ==
    ASSUME NEW k, NEW a, NEW b, NEW W, Reaches(W, k, a, b),
           NEW c \in Triples(k, a, b)
    PROVE  W[c] <=> Reachable(W, a, b, c[1], c[2], c[3])
  BY Zenon DEF Reaches

LEMMA CellValues ==
    ASSUME NEW k, NEW a, NEW b, NEW W, Reaches(W, k, a, b),
           NEW e \in 0..k, NEW i \in 0..Len(a), NEW j \in 0..Len(b)
    PROVE  W[<<e, i, j>>] <=> Reachable(W, a, b, e, i, j)
  <1> DEFINE c == <<e, i, j>>
  <1>1. c \in Triples(k, a, b) /\ c[1] = e /\ c[2] = i /\ c[3] = j
    BY DEF Triples
  <1> HIDE DEF c
  <1>2. W[c] <=> Reachable(W, a, b, c[1], c[2], c[3])
    BY <1>1, ReachValues
  <1>3. W[c] <=> Reachable(W, a, b, e, i, j)
    BY <1>1, <1>2, Zenon
  <1> QED
    BY <1>3, Zenon DEF c

LEMMA CellReaches ==
    ASSUME NEW T, NEW a \in Seq(T), NEW b \in Seq(T), NEW D, EditTable(D, a, b),
           NEW k \in Nat, NEW W,
           NEW e \in 0..k, NEW i \in 0..Len(a), NEW j \in 0..Len(b),
           \A f \in 0..k, p \in 0..Len(a), q \in 0..Len(b) :
               p + q < i + j => (W[<<f, p, q>>] <=> D[<<p, q>>] <= f)
    PROVE  Reachable(W, a, b, e, i, j) <=> D[<<i, j>>] <= e
  <1>1. Len(a) \in Nat /\ Len(b) \in Nat
    OBVIOUS
  <1>2. CASE i = 0
    <2>1. D[<<i, j>>] = j
      BY <1>2 DEF EditTable
    <2>2. Reachable(W, a, b, e, i, j) <=> j <= e
      BY <1>2 DEF Reachable
    <2> QED
      BY <2>1, <2>2
  <1>3. CASE i # 0 /\ j = 0
    <2>1. D[<<i, j>>] = i
      BY <1>3 DEF EditTable
    <2>2. Reachable(W, a, b, e, i, j) <=> i <= e
      BY <1>3 DEF Reachable
    <2> QED
      BY <2>1, <2>2
  <1>4. CASE i # 0 /\ j # 0
    <2> DEFINE here == D[<<i, j>>]
               up == D[<<i - 1, j>>]
               left == D[<<i, j - 1>>]
               corner == D[<<i - 1, j - 1>>]
               fewer == \/ W[<<e - 1, i - 1, j>>]
                        \/ W[<<e - 1, i, j - 1>>]
                        \/ W[<<e - 1, i - 1, j - 1>>]
    <2>1. /\ i \in 1..Len(a) /\ j \in 1..Len(b)
          /\ i - 1 \in 0..Len(a) /\ j - 1 \in 0..Len(b)
          /\ (i - 1) + j < i + j /\ i + (j - 1) < i + j
          /\ (i - 1) + (j - 1) < i + j
      BY <1>1, <1>4
    <2>2. here = IF a[i] = b[j] THEN corner ELSE 1 + Min({up, corner, left})
      BY <2>1, Zenon DEF EditTable
    <2>3. /\ here \in Nat /\ up \in Nat /\ left \in Nat /\ corner \in Nat
      <3>1. D \in [Cells(a, b) -> Nat]
        BY DEF EditTable
      <3> QED
        BY <2>1, <3>1 DEF Cells
    <2>4. Near(up, corner) /\ Near(left, corner)
      BY <2>1, NeighboursAreNear
    <2>5. W[<<e, i - 1, j - 1>>] <=> corner <= e
      BY <2>1
    <2>6. ASSUME e > 0
          PROVE  fewer <=> up <= e - 1 \/ left <= e - 1 \/ corner <= e - 1
      <3>1. e - 1 \in 0..k
        BY <2>6
      <3>2. W[<<e - 1, i - 1, j>>] <=> up <= e - 1
        BY <2>1, <3>1
      <3>3. W[<<e - 1, i, j - 1>>] <=> left <= e - 1
        BY <2>1, <3>1
      <3>4. W[<<e - 1, i - 1, j - 1>>] <=> corner <= e - 1
        BY <2>1, <3>1
      <3> QED
        BY <3>2, <3>3, <3>4, Zenon
    <2>7. Reachable(W, a, b, e, i, j)
            <=> (a[i] = b[j] /\ W[<<e, i - 1, j - 1>>]) \/ (e > 0 /\ fewer)
      <3>1. i > 0 /\ j > 0 /\ i # 0 /\ j # 0
        BY <2>1
      <3> QED
        BY <3>1, Zenon DEF Reachable
    <2>8. Reachable(W, a, b, e, i, j)
            <=> \/ a[i] = b[j] /\ corner <= e
                \/ e > 0 /\ (up <= e - 1 \/ left <= e - 1 \/ corner <= e - 1)
      BY <2>5, <2>6, <2>7, Zenon
    <2> HIDE DEF here, up, left, corner, fewer
    <2>9. here <= e
            <=> \/ a[i] = b[j] /\ corner <= e
                \/ e > 0 /\ (up <= e - 1 \/ left <= e - 1 \/ corner <= e - 1)
      <3>1. CASE a[i] = b[j]
        BY <2>2, <2>3, <2>4, <3>1 DEF Near
      <3>2. CASE a[i] # b[j]
        <4> DEFINE least == Min({up, corner, left})
        <4>1. /\ least \in Nat
              /\ least <= up /\ least <= corner /\ least <= left
              /\ least = up \/ least = corner \/ least = left
          BY <2>3, MinOfThree
        <4> HIDE DEF least
        <4>2. here = 1 + least
          BY <2>2, <3>2 DEF least
        <4> QED
          BY <2>3, <3>2, <4>1, <4>2
      <3> QED
        BY <3>1, <3>2
    <2> QED
      BY <2>8, <2>9, Zenon DEF here
  <1> QED
    BY <1>2, <1>3, <1>4

LEMMA ReachExists ==
    ASSUME NEW T, NEW a \in Seq(T), NEW b \in Seq(T), NEW D, EditTable(D, a, b),
           NEW k \in Nat
    PROVE  \E W : Reaches(W, k, a, b)
  <1> DEFINE W == [c \in Triples(k, a, b) |-> D[<<c[2], c[3]>>] <= c[1]]
  <1>1. ASSUME NEW e \in 0..k, NEW i \in 0..Len(a), NEW j \in 0..Len(b)
        PROVE  W[<<e, i, j>>] <=> D[<<i, j>>] <= e
    <2> DEFINE c == <<e, i, j>>
    <2>1. c \in Triples(k, a, b) /\ c[1] = e /\ c[2] = i /\ c[3] = j
      BY DEF Triples
    <2> HIDE DEF c
    <2>2. W[c] <=> D[<<c[2], c[3]>>] <= c[1]
      BY <2>1, Zenon
    <2>3. W[c] <=> D[<<i, j>>] <= e
      BY <2>1, <2>2, Zenon
    <2> QED
      BY <2>3, Zenon DEF c
  <1> HIDE DEF W
  <1>2. ASSUME NEW e \in 0..k, NEW i \in 0..Len(a), NEW j \in 0..Len(b)
        PROVE  Reachable(W, a, b, e, i, j) <=> D[<<i, j>>] <= e
    <2>1. \A f \in 0..k, p \in 0..Len(a), q \in 0..Len(b) :
              p + q < i + j => (W[<<f, p, q>>] <=> D[<<p, q>>] <= f)
      BY <1>1, Zenon
    <2>2. e \in 0..k /\ i \in 0..Len(a) /\ j \in 0..Len(b)
      OBVIOUS
    <2> QED
      BY <2>1, <2>2, CellReaches, ZenonT(30)
  <1>3. ASSUME NEW c \in Triples(k, a, b)
        PROVE  D[<<c[2], c[3]>>] <= c[1] <=> Reachable(W, a, b, c[1], c[2], c[3])
    <2>1. c[1] \in 0..k /\ c[2] \in 0..Len(a) /\ c[3] \in 0..Len(b)
      BY DEF Triples
    <2> QED
      BY <2>1, <1>2, Zenon
  <1>4. ASSUME NEW c \in Triples(k, a, b)
        PROVE  (D[<<c[2], c[3]>>] <= c[1]) = Reachable(W, a, b, c[1], c[2], c[3])
    <2> DEFINE near == D[<<c[2], c[3]>>] <= c[1]
               reach == Reachable(W, a, b, c[1], c[2], c[3])
    <2>1. near <=> reach
      BY <1>3
    <2>2. reach => reach = TRUE
      BY Zenon DEF Reachable
    <2>3. ~reach => reach = FALSE
      BY Zenon DEF Reachable
    <2>4. near => near = TRUE
      BY Zenon
    <2>5. ~near => near = FALSE
      <3>1. c[1] \in 0..k /\ <<c[2], c[3]>> \in Cells(a, b)
        BY DEF Triples, Cells
      <3>2. D[<<c[2], c[3]>>] \in Nat /\ c[1] \in Nat
        BY <3>1 DEF EditTable
      <3> QED
        BY <3>2
    <2> HIDE DEF near, reach
    <2>6. near = reach
      BY <2>1, <2>2, <2>3, <2>4, <2>5, Zenon
    <2> QED
      BY <2>6, Zenon DEF near, reach
  <1>5. W = [c \in Triples(k, a, b) |-> Reachable(W, a, b, c[1], c[2], c[3])]
    BY <1>4, Zenon DEF W
  <1>6. Reaches(W, k, a, b)
    BY <1>5, Zenon DEF Reaches
  <1> QED
    BY <1>6, Zenon

LEMMA ReachIsLeast ==
    ASSUME NEW T, NEW a \in Seq(T), NEW b \in Seq(T), NEW D, EditTable(D, a, b),
           NEW k \in Nat, NEW W, Reaches(W, k, a, b)
    PROVE  \A e \in 0..k, i \in 0..Len(a), j \in 0..Len(b) :
               W[<<e, i, j>>] <=> D[<<i, j>>] <= e
  <1> DEFINE N == Len(a) + Len(b)
             Right(i, j) == \A e \in 0..k : W[<<e, i, j>>] <=> D[<<i, j>>] <= e
             S == {n \in 0..N : \A i \in 0..Len(a), j \in 0..Len(b) :
                                    i + j <= n => Right(i, j)}
  <1>1. Len(a) \in Nat /\ Len(b) \in Nat /\ N \in Nat
    OBVIOUS
  <1>2. ASSUME NEW i \in 0..Len(a), NEW j \in 0..Len(b),
               \A p \in 0..Len(a), q \in 0..Len(b) :
                   p + q < i + j => Right(p, q)
        PROVE  Right(i, j)
    <2> TAKE e \in 0..k
    <2>1. \A f \in 0..k, p \in 0..Len(a), q \in 0..Len(b) :
              p + q < i + j => (W[<<f, p, q>>] <=> D[<<p, q>>] <= f)
      BY <1>2, Zenon
    <2>2. Reachable(W, a, b, e, i, j) <=> D[<<i, j>>] <= e
      BY <2>1, CellReaches
    <2> QED
      BY <2>2, CellValues, Zenon
  <1> HIDE DEF Right, N
  <1>3. 0 \in S
    <2> SUFFICES ASSUME NEW i \in 0..Len(a), NEW j \in 0..Len(b), i + j <= 0
                 PROVE  Right(i, j)
      BY <1>1
    <2>1. \A p \in 0..Len(a), q \in 0..Len(b) : ~(p + q < i + j)
      BY <1>1
    <2> QED
      BY <1>2, <2>1
  <1>4. ASSUME NEW n \in 0..N, n \in S, n < N
        PROVE  n + 1 \in S
    <2> SUFFICES ASSUME NEW i \in 0..Len(a), NEW j \in 0..Len(b), i + j <= n + 1
                 PROVE  Right(i, j)
      BY <1>1, <1>4
    <2>1. \A p \in 0..Len(a), q \in 0..Len(b) : p + q < i + j => Right(p, q)
      <3> TAKE p \in 0..Len(a), q \in 0..Len(b)
      <3>1. p + q < i + j => p + q <= n
        BY <1>1
      <3> QED
        BY <1>4, <3>1
    <2> QED
      BY <1>2, <2>1
  <1> HIDE DEF S
  <1>5. N \in S
    <2>1. \A n \in 0..N : n \in S
      BY <1>1, <1>3, <1>4, CountUp
    <2> QED
      BY <1>1, <2>1
  <1>6. ASSUME NEW i \in 0..Len(a), NEW j \in 0..Len(b)
        PROVE  Right(i, j)
    <2>1. i + j <= N
      BY <1>1 DEF N
    <2> QED
      BY <1>5, <2>1 DEF S
  <1> QED
    BY <1>6 DEF Right

\* The least number of edits is the last cell of the table.
LEMMA LeastEdits ==
    ASSUME NEW T, NEW a \in Seq(T), NEW b \in Seq(T), NEW D, EditTable(D, a, b),
           NEW k \in Nat
    PROVE  WithinEdits(k, a, b) <=> D[<<Len(a), Len(b)>>] <= k
  <1> DEFINE W == CHOOSE w : Reaches(w, k, a, b)
  <1>1. Reaches(W, k, a, b)
    BY ReachExists, Zenon
  <1>2. WithinEdits(k, a, b) <=> W[<<k, Len(a), Len(b)>>]
    BY ReachUnfolds, Zenon
  <1> HIDE DEF W
  <1>3. k \in 0..k /\ Len(a) \in 0..Len(a) /\ Len(b) \in 0..Len(b)
    OBVIOUS
  <1>4. W[<<k, Len(a), Len(b)>>] <=> D[<<Len(a), Len(b)>>] <= k
    BY <1>1, <1>3, ReachIsLeast
  <1> QED
    BY <1>2, <1>4, Zenon

\* The cell that NextRow puts before the others of its row, the first of which
\* is left.
Cell(a, b, i, prev, left, j) ==
    IF a[i] = b[j] THEN prev[Len(b) + 2 - j]
    ELSE 1 + Min({prev[Len(b) + 1 - j], prev[Len(b) + 2 - j], left})

Put(a, b, i, prev, row, j) == <<Cell(a, b, i, prev, Head(row), j)>> \o row

RowRun(run, a, b, i, prev) ==
    /\ run[0] = <<i>> /\ run[Len(b)] = NextRow(a, b, i, prev)
    /\ \A k \in 1..Len(b) : run[k] = Put(a, b, i, prev, run[k - 1], k)

NonEmpty == Seq(Nat) \ {<<>>}

LEMMA PutType ==
    ASSUME NEW T, NEW a, NEW b \in Seq(T), NEW i,
           NEW prev \in [1..(Len(b) + 1) -> Nat],
           NEW row \in NonEmpty, NEW j \in 1..Len(b)
    PROVE  /\ Put(a, b, i, prev, row, j) \in NonEmpty
           /\ Len(Put(a, b, i, prev, row, j)) = Len(row) + 1
           /\ Put(a, b, i, prev, row, j)[1] = Cell(a, b, i, prev, row[1], j)
           /\ \A p \in 1..Len(row) : Put(a, b, i, prev, row, j)[p + 1] = row[p]
  <1> DEFINE above == prev[Len(b) + 1 - j]
             diagonal == prev[Len(b) + 2 - j]
             cell == IF a[i] = b[j] THEN diagonal
                     ELSE 1 + Min({above, diagonal, row[1]})
             put == <<cell>> \o row
  <1>1. row \in Seq(Nat) /\ Len(row) \in Nat /\ Len(row) >= 1 /\ Head(row) = row[1]
    BY DEF NonEmpty
  <1>2. above \in Nat /\ diagonal \in Nat /\ row[1] \in Nat
    <2>1. Len(b) + 1 - j \in 1..(Len(b) + 1) /\ Len(b) + 2 - j \in 1..(Len(b) + 1)
      OBVIOUS
    <2>2. above \in Nat /\ diagonal \in Nat
      BY <2>1
    <2>3. row[1] \in Nat
      BY <1>1
    <2> QED
      BY <2>2, <2>3
  <1>3. cell \in Nat
    <2> HIDE DEF above, diagonal
    <2> DEFINE first == row[1]
    <2>1. first \in Nat
      BY <1>2
    <2> HIDE DEF first
    <2>2. Min({above, diagonal, first}) \in Nat
      BY <1>2, <2>1, MinOfThree
    <2> QED
      BY <1>2, <2>2 DEF first
  <1>4. Put(a, b, i, prev, row, j) = put
    BY <1>1, Zenon DEF Put, Cell
  <1> HIDE DEF cell
  <1>5. /\ put \in Seq(Nat) /\ put # <<>> /\ Len(put) = Len(row) + 1
        /\ put[1] = cell /\ \A p \in 1..Len(row) : put[p + 1] = row[p]
    BY <1>1, <1>3
  <1> HIDE DEF put
  <1> QED
    BY <1>4, <1>5, Zenon DEF cell, NonEmpty, Cell

LEMMA RowRuns ==
    ASSUME NEW T, NEW a, NEW b \in Seq(T), NEW i \in Nat,
           NEW prev \in [1..(Len(b) + 1) -> Nat]
    PROVE  \E run \in [0..Len(b) -> NonEmpty] : RowRun(run, a, b, i, prev)
  <1> DEFINE N == Len(b)
             index == [j \in DOMAIN b |-> j]
             Step(row, k) == Put(a, b, i, prev, row, index[k])
             g == [pair \in NonEmpty \X (1..N) |-> Step(pair[1], pair[2])]
             Table(c) == c = [s \in SUBSET (1..N) |->
                                IF s = {} THEN <<i>> ELSE Step(c[s \ {Max(s)}], Max(s))]
             c == CHOOSE iter : Table(iter)
  <1>1. N \in Nat /\ DOMAIN b = 1..N /\ DOMAIN index = 1..N
        /\ \A k \in 1..N : index[k] = k
    OBVIOUS
  <1>5. NextRow(a, b, i, prev) = c[1..N]
    BY <1>1, Zenon DEF NextRow, FoldLeft, MapThenFoldSet, Put, Cell
  <1> HIDE DEF index
  <1>15. \A row \in NonEmpty, k \in 1..N : Step(row, k) = Put(a, b, i, prev, row, k)
    BY <1>1, Zenon
  <1>16. \A row \in NonEmpty, k \in 1..N : Put(a, b, i, prev, row, k) \in NonEmpty
    BY PutType, Zenon
  <1>2. \A row \in NonEmpty, k \in 1..N : Step(row, k) \in NonEmpty
    BY <1>15, <1>16, Zenon
  <1> HIDE DEF Step
  <1>3. g \in [NonEmpty \X (1..N) -> NonEmpty]
    BY <1>2
  <1>4. \A row \in NonEmpty, k \in 1..N : g[<<row, k>>] = Step(row, k)
    OBVIOUS
  <1> HIDE DEF g, N
  <1>0. <<i>> \in NonEmpty
    BY DEF NonEmpty
  <1>6. \E iter : Table(iter)
    <2>1. PICK iter \in [SUBSET (1..N) -> NonEmpty] : FoldTable(iter, <<i>>, g, N)
      BY <1>0, <1>1, <1>3, TableExists
    <2>2. ASSUME NEW s \in SUBSET (1..N)
          PROVE  (IF s = {} THEN <<i>> ELSE g[<<iter[s \ {Max(s)}], Max(s)>>])
                   = (IF s = {} THEN <<i>> ELSE Step(iter[s \ {Max(s)}], Max(s)))
      <3>1. CASE s # {}
        <4>1. Max(s) \in 1..N
          BY <1>1, <3>1, MaxOf
        <4>2. iter[s \ {Max(s)}] \in NonEmpty
          OBVIOUS
        <4> QED
          BY <1>4, <4>1, <4>2
      <3> QED
        BY <3>1
    <2>3. iter = [s \in SUBSET (1..N) |->
                    IF s = {} THEN <<i>> ELSE g[<<iter[s \ {Max(s)}], Max(s)>>]]
      BY <2>1 DEF FoldTable
    <2>4. Table(iter)
      BY <2>2, <2>3
    <2> QED
      BY <2>4
  <1>7. Table(c)
    BY <1>6, Zenon
  <1>8. \A s \in SUBSET (1..N) :
          c[s] = IF s = {} THEN <<i>> ELSE Step(c[s \ {Max(s)}], Max(s))
    BY <1>7, Zenon
  <1> HIDE DEF c
  <1>9. ASSUME NEW k \in 1..N
        PROVE  c[1..k] = Step(c[1..(k - 1)], k)
    <2>1. k \in Nat /\ k # 0 /\ 1..k \in SUBSET (1..N)
      BY <1>1
    <2> QED
      BY <1>8, <2>1, MaxOfRange
  <1>10. c[{}] = <<i>>
    <2>1. {} \in SUBSET (1..N)
      OBVIOUS
    <2> QED
      BY <1>8, <2>1, Zenon
  <1>11. \A k \in 0..N : c[1..k] \in NonEmpty
    <2>1. \A k \in 1..N : c[1..(k - 1)] \in NonEmpty => c[1..k] \in NonEmpty
      BY <1>2, <1>9
    <2>2. c[{}] \in NonEmpty /\ N \in Nat
      BY <1>0, <1>1, <1>10
    <2> HIDE DEF Table
    <2> QED
      BY <2>1, <2>2, TableTypes
  <1> DEFINE run == [k \in 0..N |-> c[1..k]]
  <1>12. run \in [0..N -> NonEmpty]
    BY <1>11
  <1>13. run[0] = <<i>> /\ run[N] = c[1..N]
    <2>1. 1..0 = {} /\ 0 \in 0..N /\ N \in 0..N
      BY <1>1
    <2> QED
      BY <1>10, <2>1
  <1>14. ASSUME NEW k \in 1..N
         PROVE  run[k] = Put(a, b, i, prev, run[k - 1], k)
    <2>1. k - 1 \in 0..N /\ k \in 0..N
      BY <1>1
    <2>2. run[k] = Step(run[k - 1], k) /\ run[k - 1] \in NonEmpty
      BY <1>9, <1>11, <2>1
    <2> QED
      BY <1>15, <2>2
  <1> HIDE DEF run
  <1> QED
    BY <1>5, <1>12, <1>13, <1>14 DEF N, RowRun

\* A row of the table: the number of its prefix, and each cell from the row
\* above and the cell to its left, which is the next one.
IsNextRow(row, a, b, i, prev) ==
    /\ row[Len(b) + 1] = i
    /\ \A j \in 1..Len(b) :
          row[Len(b) + 1 - j] = Cell(a, b, i, prev, row[Len(b) + 2 - j], j)

LEMMA NextRowFacts ==
    ASSUME NEW T, NEW a, NEW b \in Seq(T), NEW i \in Nat,
           NEW prev \in [1..(Len(b) + 1) -> Nat]
    PROVE  /\ NextRow(a, b, i, prev) \in [1..(Len(b) + 1) -> Nat]
           /\ IsNextRow(NextRow(a, b, i, prev), a, b, i, prev)
  <1>1. PICK run \in [0..Len(b) -> NonEmpty] : RowRun(run, a, b, i, prev)
    BY RowRuns, Zenon
  <1>2. Len(b) \in Nat
    OBVIOUS
  <1> DEFINE m == Len(b)
             C(left, j) == Cell(a, b, i, prev, left, j)
             Good(k, row) ==
               /\ Len(row) = k + 1 /\ row[k + 1] = i
               /\ \A j \in 1..k : row[k + 1 - j] = C(row[k + 2 - j], j)
             S == {k \in 0..m : Good(k, run[k])}
  <1>3. ASSUME NEW k \in 1..m
        PROVE  /\ run[k - 1] \in NonEmpty /\ run[k] \in NonEmpty
               /\ Len(run[k]) = Len(run[k - 1]) + 1
               /\ run[k][1] = C(run[k - 1][1], k)
               /\ \A p \in 1..Len(run[k - 1]) : run[k][p + 1] = run[k - 1][p]
    <2> DEFINE row == run[k - 1]
    <2>1. row \in NonEmpty /\ run[k] \in NonEmpty
      BY <1>2
    <2>2. run[k] = Put(a, b, i, prev, row, k)
      BY <1>1 DEF RowRun
    <2> HIDE DEF row
    <2>3. /\ Len(Put(a, b, i, prev, row, k)) = Len(row) + 1
          /\ Put(a, b, i, prev, row, k)[1] = C(row[1], k)
          /\ \A p \in 1..Len(row) : Put(a, b, i, prev, row, k)[p + 1] = row[p]
      BY <2>1, PutType
    <2> QED
      BY <2>1, <2>2, <2>3, Zenon DEF row
  <1> HIDE DEF C
  <1>4. 0 \in S
    <2>1. run[0] = <<i>>
      BY <1>1 DEF RowRun
    <2>2. Len(run[0]) = 0 + 1 /\ run[0][0 + 1] = i
      BY <2>1
    <2>3. 1..0 = {}
      OBVIOUS
    <2>4. Good(0, run[0])
      BY <2>2, <2>3, Zenon
    <2>5. 0 \in 0..m
      BY <1>2
    <2> QED
      BY <2>4, <2>5, Zenon
  <1>5. ASSUME NEW k \in 0..m, k \in S, k < m
        PROVE  k + 1 \in S
    <2> DEFINE row == run[k]
               more == run[k + 1]
    <2>1. k + 1 \in 1..m /\ k + 1 \in 0..m /\ k = (k + 1) - 1 /\ k \in Nat
      BY <1>2, <1>5
    <2>2. /\ Len(more) = Len(row) + 1 /\ more[1] = C(row[1], k + 1)
          /\ \A p \in 1..Len(row) : more[p + 1] = row[p]
      BY <1>3, <2>1
    <2>3. Good(k, row)
      BY <1>5
    <2> HIDE DEF row, more
    <2>4. Len(more) = (k + 1) + 1 /\ more[(k + 1) + 1] = i
      BY <2>1, <2>2, <2>3
    <2>5. ASSUME NEW j \in 1..(k + 1)
          PROVE  more[(k + 1) + 1 - j] = C(more[(k + 1) + 2 - j], j)
      <3>1. CASE j = k + 1
        <4>1. more[2] = row[1]
          BY <2>1, <2>2, <2>3
        <4>2. (k + 1) + 1 - j = 1 /\ (k + 1) + 2 - j = 2
          BY <2>1, <3>1
        <4> QED
          BY <2>2, <3>1, <4>1, <4>2
      <3>2. CASE j # k + 1
        <4>1. j \in 1..k /\ k + 1 - j \in 1..Len(row) /\ k + 2 - j \in 1..Len(row)
          BY <2>1, <2>3, <3>2
        <4>2. /\ more[(k + 1 - j) + 1] = row[k + 1 - j]
              /\ more[(k + 2 - j) + 1] = row[k + 2 - j]
          BY <2>2, <4>1
        <4>3. /\ (k + 1 - j) + 1 = (k + 1) + 1 - j
              /\ (k + 2 - j) + 1 = (k + 1) + 2 - j
          BY <2>1
        <4>4. row[k + 1 - j] = C(row[k + 2 - j], j)
          BY <2>3, <4>1
        <4> QED
          BY <4>2, <4>3, <4>4
      <3> QED
        BY <3>1, <3>2
    <2>6. Good(k + 1, more)
      BY <2>4, <2>5
    <2> QED
      BY <2>1, <2>6 DEF more
  <1> HIDE DEF S
  <1>6. m \in S
    <2>1. \A k \in 0..m : k \in S
      BY <1>2, <1>4, <1>5, CountUp
    <2> QED
      BY <1>2, <2>1
  <1>7. Good(m, run[m]) /\ run[m] \in NonEmpty
    <2>1. m \in 0..m
      BY <1>2
    <2> QED
      BY <1>6, <2>1 DEF S
  <1>8. run[m] = NextRow(a, b, i, prev)
    BY <1>1 DEF RowRun
  <1>9. run[m] \in [1..(m + 1) -> Nat]
    BY <1>7 DEF NonEmpty
  <1> QED
    BY <1>7, <1>8, <1>9 DEF C, IsNextRow

-----------------------------------------------------------------------------
(***************************************************************************)
(* levenshtein_similarity computes the table, row by row.                  *)
(***************************************************************************)
Rows(b) == [1..(Len(b) + 1) -> Nat]
FirstRow(b) == [j \in 1..(Len(b) + 1) |-> Len(b) + 1 - j]

DistanceRun(run, a, b) ==
    /\ run[0] = FirstRow(b) /\ Distance(a, b) = Head(run[Len(a)])
    /\ \A k \in 1..Len(a) : run[k] = NextRow(a, b, k, run[k - 1])

LEMMA DistanceRuns ==
    ASSUME NEW T, NEW a \in Seq(T), NEW b \in Seq(T)
    PROVE  \E run \in [0..Len(a) -> Rows(b)] : DistanceRun(run, a, b)
  <1> DEFINE N == Len(a)
             index == [i \in DOMAIN a |-> i]
             Step(row, k) == NextRow(a, b, index[k], row)
             g == [pair \in Rows(b) \X (1..N) |-> Step(pair[1], pair[2])]
             Table(c) == c = [s \in SUBSET (1..N) |->
                                IF s = {} THEN FirstRow(b)
                                ELSE Step(c[s \ {Max(s)}], Max(s))]
             c == CHOOSE iter : Table(iter)
  <1>1. N \in Nat /\ DOMAIN a = 1..N /\ DOMAIN index = 1..N
        /\ \A k \in 1..N : index[k] = k
    OBVIOUS
  <1>5. Distance(a, b) = Head(c[1..N])
    BY <1>1, Zenon DEF Distance, FoldLeft, MapThenFoldSet, FirstRow
  <1> HIDE DEF index
  <1>15. \A row \in Rows(b), k \in 1..N : Step(row, k) = NextRow(a, b, k, row)
    BY <1>1, Zenon
  <1>16. \A row \in Rows(b), k \in 1..N : NextRow(a, b, k, row) \in Rows(b)
    <2> TAKE row \in Rows(b), k \in 1..N
    <2>1. k \in Nat
      BY <1>1
    <2> QED
      BY <2>1, NextRowFacts, Zenon DEF Rows
  <1>2. \A row \in Rows(b), k \in 1..N : Step(row, k) \in Rows(b)
    BY <1>15, <1>16, Zenon
  <1> HIDE DEF Step
  <1>3. g \in [Rows(b) \X (1..N) -> Rows(b)]
    BY <1>2
  <1>4. \A row \in Rows(b), k \in 1..N : g[<<row, k>>] = Step(row, k)
    OBVIOUS
  <1> HIDE DEF g, N
  <1>0. FirstRow(b) \in Rows(b)
    BY DEF FirstRow, Rows
  <1>6. \E iter : Table(iter)
    <2>1. PICK iter \in [SUBSET (1..N) -> Rows(b)] : FoldTable(iter, FirstRow(b), g, N)
      BY <1>0, <1>1, <1>3, TableExists
    <2>2. ASSUME NEW s \in SUBSET (1..N)
          PROVE  (IF s = {} THEN FirstRow(b) ELSE g[<<iter[s \ {Max(s)}], Max(s)>>])
                   = (IF s = {} THEN FirstRow(b)
                      ELSE Step(iter[s \ {Max(s)}], Max(s)))
      <3>1. CASE s # {}
        <4>1. Max(s) \in 1..N
          BY <1>1, <3>1, MaxOf
        <4>2. iter[s \ {Max(s)}] \in Rows(b)
          OBVIOUS
        <4> QED
          BY <1>4, <4>1, <4>2
      <3> QED
        BY <3>1
    <2>3. iter = [s \in SUBSET (1..N) |->
                    IF s = {} THEN FirstRow(b)
                    ELSE g[<<iter[s \ {Max(s)}], Max(s)>>]]
      BY <2>1 DEF FoldTable
    <2>4. Table(iter)
      BY <2>2, <2>3
    <2> QED
      BY <2>4
  <1>7. Table(c)
    BY <1>6, Zenon
  <1>8. \A s \in SUBSET (1..N) :
          c[s] = IF s = {} THEN FirstRow(b) ELSE Step(c[s \ {Max(s)}], Max(s))
    BY <1>7, Zenon
  <1> HIDE DEF c
  <1>9. ASSUME NEW k \in 1..N
        PROVE  c[1..k] = Step(c[1..(k - 1)], k)
    <2>1. k \in Nat /\ k # 0 /\ 1..k \in SUBSET (1..N)
      BY <1>1
    <2> QED
      BY <1>8, <2>1, MaxOfRange
  <1>10. c[{}] = FirstRow(b)
    <2>1. {} \in SUBSET (1..N)
      OBVIOUS
    <2> QED
      BY <1>8, <2>1, Zenon
  <1>11. \A k \in 0..N : c[1..k] \in Rows(b)
    <2>1. \A k \in 1..N : c[1..(k - 1)] \in Rows(b) => c[1..k] \in Rows(b)
      BY <1>2, <1>9
    <2>2. c[{}] \in Rows(b) /\ N \in Nat
      BY <1>0, <1>1, <1>10
    <2> HIDE DEF Table
    <2> QED
      BY <2>1, <2>2, TableTypes
  <1> DEFINE run == [k \in 0..N |-> c[1..k]]
  <1>12. run \in [0..N -> Rows(b)]
    BY <1>11
  <1>13. run[0] = FirstRow(b) /\ run[N] = c[1..N]
    <2>1. 1..0 = {} /\ 0 \in 0..N /\ N \in 0..N
      BY <1>1
    <2> QED
      BY <1>10, <2>1
  <1>14. ASSUME NEW k \in 1..N
         PROVE  run[k] = NextRow(a, b, k, run[k - 1])
    <2>1. k - 1 \in 0..N /\ k \in 0..N
      BY <1>1
    <2>2. run[k] = Step(run[k - 1], k) /\ run[k - 1] \in Rows(b)
      BY <1>9, <1>11, <2>1
    <2> QED
      BY <1>15, <2>2
  <1> HIDE DEF run
  <1> QED
    BY <1>5, <1>12, <1>13, <1>14 DEF N, DistanceRun

LEMMA DistanceTable ==
    ASSUME NEW T, NEW a \in Seq(T), NEW b \in Seq(T)
    PROVE  \E D : EditTable(D, a, b) /\ Distance(a, b) = D[<<Len(a), Len(b)>>]
  <1>1. PICK run \in [0..Len(a) -> Rows(b)] : DistanceRun(run, a, b)
    BY DistanceRuns, Zenon
  <1> DEFINE n == Len(a)
             m == Len(b)
             D == [c \in Cells(a, b) |-> run[c[1]][m + 1 - c[2]]]
  <1>2. n \in Nat /\ m \in Nat
    OBVIOUS
  <1> HIDE DEF n, m
  <1>3. ASSUME NEW i \in 0..n, NEW j \in 0..m
        PROVE  D[<<i, j>>] = run[i][m + 1 - j] /\ run[i][m + 1 - j] \in Nat
    <2>1. <<i, j>> \in Cells(a, b)
      BY DEF Cells, n, m
    <2>2. run[i] \in [1..(m + 1) -> Nat] /\ m + 1 - j \in 1..(m + 1)
      BY <1>2 DEF Rows, n, m
    <2> QED
      BY <2>1, <2>2
  <1>4. D \in [Cells(a, b) -> Nat]
    <2>1. ASSUME NEW c \in Cells(a, b)
          PROVE  run[c[1]][m + 1 - c[2]] \in Nat
      <3>1. c[1] \in 0..n /\ c[2] \in 0..m
        BY DEF Cells, n, m
      <3> QED
        BY <1>3, <3>1
    <2> QED
      BY <2>1
  <1> HIDE DEF D
  <1>5. \A j \in 0..m : D[<<0, j>>] = j
    <2> TAKE j \in 0..m
    <2>1. 0 \in 0..n /\ m + 1 - j \in 1..(m + 1)
      BY <1>2
    <2>2. run[0] = [p \in 1..(m + 1) |-> m + 1 - p]
      BY <1>1 DEF DistanceRun, FirstRow, m
    <2> QED
      BY <1>2, <1>3, <2>1, <2>2
  <1>6. ASSUME NEW i \in 1..n
        PROVE  IsNextRow(run[i], a, b, i, run[i - 1])
    <2>1. i \in Nat /\ i - 1 \in 0..n
      BY <1>2
    <2>2. run[i - 1] \in [1..(Len(b) + 1) -> Nat]
      BY <2>1 DEF Rows, n
    <2>3. run[i] = NextRow(a, b, i, run[i - 1])
      BY <1>1 DEF DistanceRun, n
    <2>4. IsNextRow(NextRow(a, b, i, run[i - 1]), a, b, i, run[i - 1])
      BY <2>1, <2>2, NextRowFacts, Zenon
    <2> QED
      BY <2>3, <2>4, Zenon
  <1>7. \A i \in 0..n : D[<<i, 0>>] = i
    <2> TAKE i \in 0..n
    <2>1. 0 \in 0..m /\ m + 1 - 0 = m + 1
      BY <1>2
    <2>2. CASE i = 0
      BY <1>5, <2>1, <2>2
    <2>3. CASE i # 0
      <3>1. i \in 1..n
        BY <1>2, <2>3
      <3>2. run[i][m + 1] = i
        BY <1>6, <3>1 DEF IsNextRow, m
      <3> QED
        BY <1>3, <2>1, <3>2
    <2> QED
      BY <2>2, <2>3
  <1>8. ASSUME NEW i \in 1..n, NEW j \in 1..m
        PROVE  D[<<i, j>>] = IF a[i] = b[j] THEN D[<<i - 1, j - 1>>]
                             ELSE 1 + Min({D[<<i - 1, j>>], D[<<i - 1, j - 1>>],
                                           D[<<i, j - 1>>]})
    <2>1. /\ i \in 0..n /\ i - 1 \in 0..n /\ j \in 0..m /\ j - 1 \in 0..m
          /\ m + 1 - (j - 1) = m + 2 - j
      BY <1>2
    <2>2. run[i][m + 1 - j] = Cell(a, b, i, run[i - 1], run[i][m + 2 - j], j)
      BY <1>6 DEF IsNextRow, m
    <2>3. /\ D[<<i, j>>] = run[i][m + 1 - j]
          /\ D[<<i, j - 1>>] = run[i][m + 2 - j]
          /\ D[<<i - 1, j>>] = run[i - 1][m + 1 - j]
          /\ D[<<i - 1, j - 1>>] = run[i - 1][m + 2 - j]
      BY <1>3, <2>1
    <2> QED
      BY <2>2, <2>3, Zenon DEF Cell, m
  <1>9. EditTable(D, a, b)
    BY <1>4, <1>5, <1>7, <1>8 DEF EditTable, n, m
  <1>10. Distance(a, b) = D[<<n, m>>]
    <2>1. n \in 0..n /\ m \in 0..m /\ m + 1 - m = 1
      BY <1>2
    <2>2. D[<<n, m>>] = run[n][1]
      BY <1>3, <2>1
    <2>3. run[n] \in Seq(Nat) /\ run[n] # <<>>
      <3> DEFINE row == run[n]
      <3>1. row \in [1..(m + 1) -> Nat]
        BY <2>1 DEF Rows, n, m
      <3>2. m + 1 \in Nat /\ 1 \in 1..(m + 1)
        BY <1>2
      <3> HIDE DEF row
      <3>3. row \in Seq(Nat) /\ Len(row) = m + 1
        BY <3>1, <3>2
      <3> QED
        BY <3>2, <3>3 DEF row
    <2>4. Distance(a, b) = Head(run[n])
      BY <1>1 DEF DistanceRun, n
    <2> QED
      BY <2>2, <2>3, <2>4
  <1> QED
    BY <1>9, <1>10 DEF n, m

-----------------------------------------------------------------------------
(***************************************************************************)
(* evaluate.                                                               *)
(***************************************************************************)
\* Equal texts are no edit apart.
LEMMA SameTextsNoEdits ==
    ASSUME NEW T, NEW a \in Seq(T), NEW D, EditTable(D, a, a)
    PROVE  D[<<Len(a), Len(a)>>] = 0
  <1> DEFINE n == Len(a)
             S == {k \in 0..n : D[<<k, k>>] = 0}
  <1>1. n \in Nat
    OBVIOUS
  <1>2. 0 \in S
    BY <1>1 DEF EditTable
  <1>3. ASSUME NEW k \in 0..n, k \in S, k < n
        PROVE  k + 1 \in S
    <2>1. k + 1 \in 1..n /\ k + 1 \in 0..n /\ (k + 1) - 1 = k
      BY <1>1, <1>3
    <2>2. D[<<k + 1, k + 1>>] = D[<<(k + 1) - 1, (k + 1) - 1>>]
      BY <2>1 DEF EditTable
    <2> QED
      BY <1>3, <2>1, <2>2
  <1> HIDE DEF S
  <1>4. \A k \in 0..n : k \in S
    BY <1>1, <1>2, <1>3, CountUp
  <1>5. n \in 0..n
    BY <1>1
  <1> QED
    BY <1>4, <1>5 DEF S

\* The distance, whichever text goes downwards, is the least number of edits.
LEMMA DistanceIsLeast ==
    ASSUME NEW T, NEW s \in Seq(T), NEW t \in Seq(T), NEW k \in Nat
    PROVE  /\ Distance(s, t) \in Nat
           /\ WithinEdits(k, s, t) <=> Distance(s, t) <= k
           /\ WithinEdits(k, s, t) <=> Distance(t, s) <= k
           /\ s = t => Distance(s, t) = 0
           /\ t = <<>> => Distance(s, t) = Len(s)
  <1>1. PICK D : EditTable(D, s, t) /\ Distance(s, t) = D[<<Len(s), Len(t)>>]
    BY DistanceTable, Zenon
  <1>2. PICK E : EditTable(E, t, s) /\ Distance(t, s) = E[<<Len(t), Len(s)>>]
    BY DistanceTable, Zenon
  <1>3. PICK F : EditTable(F, s, t) /\ F[<<Len(s), Len(t)>>] = E[<<Len(t), Len(s)>>]
    BY <1>2, TableSwaps, Zenon
  <1>4. WithinEdits(k, s, t) <=> Distance(s, t) <= k
    <2>1. WithinEdits(k, s, t) <=> D[<<Len(s), Len(t)>>] <= k
      BY <1>1, LeastEdits, Zenon
    <2> QED
      BY <1>1, <2>1, Zenon
  <1>5. WithinEdits(k, s, t) <=> Distance(t, s) <= k
    <2>1. WithinEdits(k, s, t) <=> F[<<Len(s), Len(t)>>] <= k
      BY <1>3, LeastEdits, Zenon
    <2> QED
      BY <1>2, <1>3, <2>1, Zenon
  <1>6. Len(s) \in 0..Len(s) /\ Len(t) \in 0..Len(t)
    OBVIOUS
  <1>7. Distance(s, t) \in Nat
    BY <1>1, <1>6 DEF EditTable, Cells
  <1>8. s = t => Distance(s, t) = 0
    BY <1>1, SameTextsNoEdits, Zenon
  <1>9. t = <<>> => Distance(s, t) = Len(s)
    <2>1. t = <<>> => Len(t) = 0
      OBVIOUS
    <2> QED
      BY <1>1, <1>6, <2>1 DEF EditTable
  <1> QED
    BY <1>4, <1>5, <1>7, <1>8, <1>9, Zenon

LEMMA WithinIsBoolean ==
    ASSUME NEW T, NEW a \in Seq(T), NEW b \in Seq(T), NEW k \in Nat
    PROVE  WithinEdits(k, a, b) \in BOOLEAN
  <1> DEFINE W == CHOOSE w : Reaches(w, k, a, b)
             c == <<k, Len(a), Len(b)>>
  <1>1. PICK D : EditTable(D, a, b)
    BY DistanceTable, Zenon
  <1>2. Reaches(W, k, a, b)
    BY <1>1, ReachExists, Zenon
  <1>3. WithinEdits(k, a, b) = W[c]
    BY Zenon DEF WithinEdits, Reaches, Reachable, Triples
  <1>4. c \in Triples(k, a, b)
    BY DEF Triples
  <1> HIDE DEF W, c
  <1>5. W[c] = Reachable(W, a, b, c[1], c[2], c[3])
    BY <1>2, <1>4, Zenon DEF Reaches
  <1>6. Reachable(W, a, b, c[1], c[2], c[3]) \in BOOLEAN
    BY Zenon DEF Reachable
  <1> QED
    BY <1>3, <1>5, <1>6, Zenon

\* The share that is kept reaches the threshold when the edits are as few as
\* the mode allows.
LEMMA ShareIsEnough ==
    ASSUME NEW L \in Nat, NEW d \in Nat, NEW mode \in DOMAIN Threshold
    PROVE  /\ Threshold[mode] \in 1..99
           /\ 100 * (L - d) >= Threshold[mode] * L
                <=> d <= ((100 - Threshold[mode]) * L) \div 100
           /\ ((100 - Threshold[mode]) * L) \div 100 \in Nat
           /\ L > 0 => ~(L <= ((100 - Threshold[mode]) * L) \div 100)
  <1>1. Threshold[mode] \in {95, 90, 80}
    BY DEF Threshold
  <1>2. CASE Threshold[mode] = 95
    <2>1. 100 * (L - d) >= 95 * L <=> d <= (5 * L) \div 100
      OBVIOUS
    <2>2. (5 * L) \div 100 \in Nat /\ (L > 0 => ~(L <= (5 * L) \div 100))
      OBVIOUS
    <2> QED
      BY <1>2, <2>1, <2>2
  <1>3. CASE Threshold[mode] = 90
    <2>1. 100 * (L - d) >= 90 * L <=> d <= (10 * L) \div 100
      OBVIOUS
    <2>2. (10 * L) \div 100 \in Nat /\ (L > 0 => ~(L <= (10 * L) \div 100))
      OBVIOUS
    <2> QED
      BY <1>3, <2>1, <2>2
  <1>4. CASE Threshold[mode] = 80
    <2>1. 100 * (L - d) >= 80 * L <=> d <= (20 * L) \div 100
      OBVIOUS
    <2>2. (20 * L) \div 100 \in Nat /\ (L > 0 => ~(L <= (20 * L) \div 100))
      OBVIOUS
    <2> QED
      BY <1>4, <2>1, <2>2
  <1> QED
    BY <1>1, <1>2, <1>3, <1>4

LEMMA SimilarityIsEnough ==
    ASSUME NEW T, NEW s \in Seq(T), NEW t \in Seq(T),
           NEW mode \in DOMAIN Threshold, t # <<>>
    PROVE  100 * Similarity(s, t)[1] >= Threshold[mode] * Similarity(s, t)[2]
             <=> WithinEdits(((100 - Threshold[mode]) * Max2(Len(s), Len(t)))
                               \div 100, s, t)
  <1> DEFINE a == IF Len(s) < Len(t) THEN t ELSE s
             b == IF Len(s) < Len(t) THEN s ELSE t
             L == Max2(Len(s), Len(t))
             k == ((100 - Threshold[mode]) * L) \div 100
             share == Similarity(s, t)
  <1>1. /\ Len(s) \in Nat /\ Len(t) \in Nat /\ Len(t) > 0
        /\ L = Len(a) /\ L \in Nat /\ L > 0 /\ a \in Seq(T) /\ b \in Seq(T)
    BY DEF Max2
  <1>2. share = IF a = b THEN <<1, 1>>
                ELSE IF b = <<>> THEN <<0, 1>>
                ELSE <<Len(a) - Distance(a, b), Len(a)>>
    BY Zenon DEF Similarity
  <1>3. (a = s /\ b = t) \/ (a = t /\ b = s)
    OBVIOUS
  <1> HIDE DEF a, b, L, share
  <1>4. /\ Threshold[mode] \in 1..99 /\ k \in Nat /\ ~(L <= k)
        /\ \A d \in Nat : 100 * (L - d) >= Threshold[mode] * L <=> d <= k
    <2>1. L \in Nat /\ L > 0
      BY <1>1
    <2>2. /\ Threshold[mode] \in 1..99 /\ k \in Nat /\ (L > 0 => ~(L <= k))
      BY <2>1, ShareIsEnough, ZenonT(30)
    <2>3. \A d \in Nat : 100 * (L - d) >= Threshold[mode] * L <=> d <= k
      BY <2>1, ShareIsEnough, ZenonT(30)
    <2> QED
      BY <2>1, <2>2, <2>3, Zenon
  <1> HIDE DEF k
  <1>5. /\ Distance(a, b) \in Nat
        /\ WithinEdits(k, s, t) <=> Distance(a, b) <= k
        /\ a = b => Distance(a, b) = 0
        /\ b = <<>> => Distance(a, b) = L
    <2>1. /\ WithinEdits(k, s, t) <=> Distance(s, t) <= k
          /\ WithinEdits(k, s, t) <=> Distance(t, s) <= k
      BY <1>4, DistanceIsLeast, Zenon
    <2>2. WithinEdits(k, s, t) <=> Distance(a, b) <= k
      BY <1>3, <2>1, Zenon
    <2>3. /\ Distance(a, b) \in Nat
          /\ a = b => Distance(a, b) = 0
          /\ b = <<>> => Distance(a, b) = Len(a)
      <3>1. a \in Seq(T) /\ b \in Seq(T) /\ k \in Nat
        BY <1>1, <1>4
      <3> QED
        BY <3>1, DistanceIsLeast
    <2> QED
      BY <1>1, <2>2, <2>3, Zenon
  <1> DEFINE th == Threshold[mode]
             d == Distance(a, b)
  <1>7. /\ th \in 1..99 /\ k \in Nat /\ ~(L <= k) /\ d \in Nat
        /\ 100 * (L - d) >= th * L <=> d <= k
    BY <1>4, <1>5
  <1> HIDE DEF th
  <1>6. 100 * share[1] >= th * share[2] <=> d <= k
    <2>1. CASE a = b
      <3>1. share[1] = 1 /\ share[2] = 1 /\ Distance(a, b) = 0
        BY <1>2, <1>5, <2>1
      <3> HIDE DEF d
      <3>2. 100 * 1 >= th * 1 /\ 0 <= k
        BY <1>7
      <3> QED
        BY <3>1, <3>2 DEF d
    <2>2. CASE a # b /\ b = <<>>
      <3>1. share[1] = 0 /\ share[2] = 1 /\ Distance(a, b) = L
        BY <1>2, <1>5, <2>2
      <3> HIDE DEF d
      <3>2. ~(100 * 0 >= th * 1)
        BY <1>7
      <3> QED
        BY <1>7, <3>1, <3>2 DEF d
    <2>3. CASE a # b /\ b # <<>>
      <3>1. share[1] = L - d /\ share[2] = L
        BY <1>1, <1>2, <2>3
      <3> QED
        BY <1>7, <3>1
    <2> QED
      BY <2>1, <2>2, <2>3
  <1> QED
    BY <1>5, <1>6, Zenon DEF share, k, L, th

\* evaluate: of what the user typed and what was wanted, both normalised, a
\* short word has to match, and a long one may be missed by as many edits as
\* the mode allows for its length.
THEOREM AnswersAreJudgedByEdits ==
    ASSUME NEW T, NEW given \in Seq(T), NEW wanted \in Seq(T),
           NEW mode \in DOMAIN Threshold
    PROVE  Correct(given, wanted, mode)
             <=> IF Len(Normalise(wanted)) <= ShortWordMaxLen
                   THEN Normalise(given) = Normalise(wanted)
                   ELSE WithinEdits(((100 - Threshold[mode])
                                       * Max2(Len(Normalise(given)),
                                              Len(Normalise(wanted)))) \div 100,
                                    Normalise(given), Normalise(wanted))
  <1> DEFINE X == {Plain(c) : c \in T}
             user == Normalise(given)
             correct == Normalise(wanted)
             share == Similarity(user, correct)
             k == ((100 - Threshold[mode]) * Max2(Len(user), Len(correct))) \div 100
  <1>1. user \in Seq(X) /\ correct \in Seq(X)
    BY NormaliseType
  <1>2. Correct(given, wanted, mode)
          <=> IF Len(correct) <= ShortWordMaxLen THEN user = correct
              ELSE 100 * share[1] >= Threshold[mode] * share[2]
    BY Zenon DEF Correct
  <1> HIDE DEF X, user, correct
  <1>3. CASE Len(correct) <= ShortWordMaxLen
    BY <1>2, <1>3, Zenon DEF user, correct
  <1>4. CASE ~(Len(correct) <= ShortWordMaxLen)
    <2>1. correct # <<>>
      BY <1>4 DEF ShortWordMaxLen
    <2>2. 100 * share[1] >= Threshold[mode] * share[2] <=> WithinEdits(k, user, correct)
      BY <1>1, <2>1, SimilarityIsEnough, Zenon
    <2> QED
      BY <1>2, <1>4, <2>2, Zenon DEF user, correct
  <1> QED
    BY <1>3, <1>4, Zenon
=============================================================================
