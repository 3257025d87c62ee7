------------------------ MODULE ContentImport_proofs ------------------------
(***************************************************************************)
(* Theorems about ContentImport, for any decks, bundles, requests and      *)
(* rows: what is imported is complete, and a bundle becomes one set.       *)
(***************************************************************************)
EXTENDS ContentImport, AnswerEvaluator_proofs, FiniteSetTheorems, TLAPS

(***************************************************************************)
(* Sequences.                                                              *)
(***************************************************************************)
\* What is taken off the cards to come.
LEMMA TailFacts ==
    ASSUME NEW S, NEW s \in Seq(S), s # <<>>
    PROVE  /\ Len(s) \in Nat /\ Len(s) > 0
           /\ Head(s) = s[1] /\ Head(s) \in S
           /\ Tail(s) \in Seq(S) /\ Len(Tail(s)) = Len(s) - 1
           /\ \A n \in 1..Len(s) - 1 : Tail(s)[n] = s[n + 1]
           /\ ToSet(s) = {Head(s)} \union ToSet(Tail(s))
  <1>1. /\ Len(s) \in Nat /\ Len(s) > 0
        /\ Head(s) = s[1] /\ Head(s) \in S
        /\ Tail(s) \in Seq(S) /\ Len(Tail(s)) = Len(s) - 1
        /\ \A n \in 1..Len(s) - 1 : Tail(s)[n] = s[n + 1]
    OBVIOUS
  <1>2. DOMAIN s = 1..Len(s) /\ DOMAIN Tail(s) = 1..Len(Tail(s))
    BY <1>1
  <1>3. ASSUME NEW x \in ToSet(s)
        PROVE  x \in {Head(s)} \union ToSet(Tail(s))
    <2>1. PICK n \in 1..Len(s) : x = s[n]
      BY <1>2 DEF ToSet
    <2>2. CASE n = 1
      BY <1>1, <2>1, <2>2
    <2>3. CASE n # 1
      <3>1. n - 1 \in 1..Len(s) - 1 /\ (n - 1) + 1 = n
        BY <1>1, <2>1, <2>3
      <3>2. Tail(s)[n - 1] = x /\ n - 1 \in DOMAIN Tail(s)
        BY <1>1, <1>2, <2>1, <3>1
      <3> QED
        BY <3>2 DEF ToSet
    <2> QED
      BY <2>2, <2>3
  <1>4. ASSUME NEW x \in {Head(s)} \union ToSet(Tail(s))
        PROVE  x \in ToSet(s)
    <2>1. CASE x = Head(s)
      <3>1. 1 \in DOMAIN s /\ s[1] = x
        BY <1>1, <1>2, <2>1
      <3> QED
        BY <3>1 DEF ToSet
    <2>2. CASE x \in ToSet(Tail(s))
      <3>1. PICK n \in DOMAIN Tail(s) : x = Tail(s)[n]
        BY <2>2 DEF ToSet
      <3>2. n \in 1..Len(s) - 1 /\ n + 1 \in 1..Len(s)
        BY <1>1, <1>2, <3>1
      <3>3. n + 1 \in DOMAIN s /\ s[n + 1] = x
        BY <1>1, <1>2, <3>1, <3>2
      <3> QED
        BY <3>3 DEF ToSet
    <2> QED
      BY <2>1, <2>2, <1>4
  <1> QED
    BY <1>1, <1>3, <1>4

\* What is linked.
LEMMA AppendFacts ==
    ASSUME NEW S, NEW s \in Seq(S), NEW x \in S
    PROVE  /\ Append(s, x) \in Seq(S)
           /\ Len(s) \in Nat /\ Len(Append(s, x)) = Len(s) + 1
           /\ \A n \in 1..Len(s) : Append(s, x)[n] = s[n]
           /\ Append(s, x)[Len(s) + 1] = x
           /\ ToSet(Append(s, x)) = ToSet(s) \union {x}
  <1>1. /\ Append(s, x) \in Seq(S)
        /\ Len(s) \in Nat /\ Len(Append(s, x)) = Len(s) + 1
        /\ \A n \in 1..Len(s) : Append(s, x)[n] = s[n]
        /\ Append(s, x)[Len(s) + 1] = x
    OBVIOUS
  <1>2. DOMAIN s = 1..Len(s) /\ DOMAIN Append(s, x) = 1..Len(s) + 1
    BY <1>1
  <1>3. ASSUME NEW y \in ToSet(Append(s, x))
        PROVE  y \in ToSet(s) \union {x}
    <2>1. PICK n \in 1..Len(s) + 1 : y = Append(s, x)[n]
      BY <1>2 DEF ToSet
    <2>2. CASE n = Len(s) + 1
      BY <1>1, <2>1, <2>2
    <2>3. CASE n # Len(s) + 1
      <3>1. n \in 1..Len(s)
        BY <1>1, <2>1, <2>3
      <3> QED
        BY <1>1, <1>2, <2>1, <3>1 DEF ToSet
    <2> QED
      BY <2>2, <2>3
  <1>4. ASSUME NEW y \in ToSet(s) \union {x}
        PROVE  y \in ToSet(Append(s, x))
    <2>1. CASE y = x
      <3>1. Len(s) + 1 \in DOMAIN Append(s, x) /\ Append(s, x)[Len(s) + 1] = y
        BY <1>1, <1>2, <2>1
      <3> QED
        BY <3>1 DEF ToSet
    <2>2. CASE y \in ToSet(s)
      <3>1. PICK n \in 1..Len(s) : y = s[n]
        BY <1>2, <2>2 DEF ToSet
      <3>2. n \in DOMAIN Append(s, x) /\ Append(s, x)[n] = y
        BY <1>1, <1>2, <3>1
      <3> QED
        BY <3>2 DEF ToSet
    <2> QED
      BY <2>1, <2>2, <1>4
  <1> QED
    BY <1>1, <1>3, <1>4

\* Nothing is linked and everything is to come.
LEMMA EmptyFacts ==
    /\ Len(<<>>) = 0
    /\ ToSet(<<>>) = {}
  BY DEF ToSet

-----------------------------------------------------------------------------
Committed(i) == items[i].is \in {"live", "deleted"}

\* The items that r may link.
Usable(r) == {i \in Items : Committed(i) \/ i \in req[r].made}

\* r is filling a set.
Filling(r) ==
    /\ req[r].at \in {"card", "insert", "translate", "add", "commit"}
    /\ req[r].restore = None

\* rows have the cards c, in order; the items of rows are in the database.
InOrder(rows, c) ==
    /\ Len(rows) = Len(c)
    /\ \A n \in 1..Len(c) : Committed(rows[n]) /\ items[rows[n]].hash = c[n]

\* Rows that are there were committed; a bundle's set is as it was imported.
SetsOK ==
    \A s \in Sets :
        /\ sets[s].is = "none" => sets[s] = NoSet
        /\ sets[s].bundle =>
              /\ sets[s].title \in Bundles
              /\ InOrder(sets[s].rows, DeckHashes[sets[s].title])

\* What is not committed has one owner.
MadeOK ==
    \A r \in Requests :
        /\ \A i \in req[r].made : items[i].is = "new"
        /\ \A q \in Requests \ {r} : req[q].made \intersect req[r].made = {}

\* What a request is up to, by its place.
PlaceOK(r) ==
    LET l == req[r] IN
    /\ l.at \in {"idle", "forget"} => ~l.bundle /\ l.made = {} /\ l.restore = None
    /\ l.bundle => l.deck \in Bundles
    /\ l.at # "idle" => l.deck \in Decks
    /\ l.restore # None => /\ l.at = "commit" /\ l.made = {}
                           /\ sets[l.restore].is # "none"
    /\ l.at \in {"insert", "translate", "add"} => l.left # <<>>
    /\ l.at = "commit" => l.left = <<>>
    /\ l.at \in {"translate", "add"} =>
          /\ l.item \in Usable(r)
          /\ items[l.item].hash = Head(l.left)

\* What it found by its hash has that hash.
FoundOK(r) ==
    \A h \in Hashes : req[r].existing[h] # None =>
        /\ req[r].existing[h] \in Usable(r)
        /\ items[req[r].existing[h]].hash = h

\* What it has linked, and what is still to come, are the cards of the deck.
LinkedOK(r) ==
    LET rows == req[r].rows
        left == req[r].left
    IN  /\ \A n \in 1..Len(rows) :
              /\ rows[n] \in Usable(r)
              /\ rows[n] \in req[r].made => rows[n] \in translated \union req[r].added
        /\ \A m, n \in 1..Len(rows) : rows[m] = rows[n] => m = n
        /\ {items[i].hash : i \in ToSet(rows)} \union ToSet(left)
              = ToSet(DeckHashes[req[r].deck])

\* A bundle's are linked one by one.
Counted(r) ==
    LET rows  == req[r].rows
        left  == req[r].left
        cards == DeckHashes[req[r].deck]
    IN  /\ Len(rows) + Len(left) = Len(cards)
        /\ \A n \in 1..Len(rows) : items[rows[n]].hash = cards[n]
        /\ \A n \in 1..Len(left) : left[n] = cards[Len(rows) + n]

OwnOK(r) ==
    /\ PlaceOK(r)
    /\ Filling(r) => FoundOK(r) /\ LinkedOK(r)
    /\ Filling(r) /\ req[r].bundle => Counted(r)
FillOK == \A r \in Requests : OwnOK(r)

\* Two imports of a bundle at a time are recorded; otherwise whoever imports
\* it looked when there was no set of it, and there is none yet.
AloneOK ==
    \A r \in Requests :
        /\ \A q \in Requests \ {r} :
              req[q].bundle /\ req[r].bundle /\ req[q].deck = req[r].deck
                 => req[r].deck \in overlapped
        /\ Filling(r) /\ req[r].bundle /\ req[r].deck \notin overlapped =>
              \A s \in Sets : sets[s].bundle => sets[s].title # req[r].deck

ImportInv ==
    ImportTypeOK /\ SetsOK /\ MadeOK /\ FillOK /\ AloneOK /\ OneSetPerBundle

-----------------------------------------------------------------------------
(***************************************************************************)
(* What the steps of others leave to a request.                            *)
(***************************************************************************)
\* Committed rows, and those in own, keep their hash; what is translated in own
\* stays so; rows of sets stay.
ContentKept(own) ==
    /\ \A i \in Items : Committed(i) \/ i \in own => items'[i].hash = items[i].hash
    /\ \A i \in Items : Committed(i) => Committed(i)'
    /\ \A i \in own : i \in translated => i \in translated'
    /\ \A s \in Sets : sets[s].is # "none" => sets'[s].is # "none"

\* Hashes of items that keep theirs.
LEMMA SameHashes ==
    ASSUME NEW rows,
           \A i \in ToSet(rows) : items'[i].hash = items[i].hash
    PROVE  {items'[i].hash : i \in ToSet(rows)} = {items[i].hash : i \in ToSet(rows)}
  OBVIOUS

LEMMA OwnKept ==
    ASSUME ImportTypeOK, NEW r \in Requests, OwnOK(r),
           req'[r] = req[r], ContentKept(req[r].made)
    PROVE  OwnOK(r)'
  <1> DEFINE l == req[r]
  <1>1. l \in Local
    BY DEF ImportTypeOK
  <1>2. \A i \in Usable(r) : i \in Usable(r)' /\ items'[i].hash = items[i].hash
    BY DEF Usable, ContentKept
  <1>3. PlaceOK(r)'
    <2>1. l.at \in {"translate", "add"} =>
            /\ l.item \in Usable(r)'
            /\ items'[l.item].hash = Head(l.left)
      BY <1>2 DEF OwnOK, PlaceOK
    <2>2. l.restore # None => /\ l.at = "commit" /\ l.made = {}
                              /\ sets'[l.restore].is # "none"
      BY <1>1 DEF OwnOK, PlaceOK, ContentKept, Local
    <2> QED
      BY <2>1, <2>2 DEF OwnOK, PlaceOK
  <1>4. Filling(r)' <=> Filling(r)
    BY DEF Filling
  <1>5. ASSUME Filling(r)
        PROVE  FoundOK(r)' /\ LinkedOK(r)'
    <2>1. FoundOK(r) /\ LinkedOK(r)
      BY <1>5 DEF OwnOK
    <2>2. FoundOK(r)'
      BY <1>2, <2>1 DEF FoundOK
    <2>3. l.rows \in Seq(Items) /\ DOMAIN l.rows = 1..Len(l.rows)
      BY <1>1 DEF Local
    <2>4. \A n \in 1..Len(l.rows) :
             /\ l.rows[n] \in Usable(r)'
             /\ l.rows[n] \in l.made => l.rows[n] \in translated' \union l.added
      BY <1>2, <2>1 DEF LinkedOK, ContentKept
    <2>5. \A i \in ToSet(l.rows) : items'[i].hash = items[i].hash
      BY <1>2, <2>1, <2>3 DEF LinkedOK, ToSet
    <2>6. {items'[i].hash : i \in ToSet(l.rows)} = {items[i].hash : i \in ToSet(l.rows)}
      BY <2>5, SameHashes
    <2>7. /\ \A m, n \in 1..Len(l.rows) : l.rows[m] = l.rows[n] => m = n
          /\ {items'[i].hash : i \in ToSet(l.rows)} \union ToSet(l.left)
                = ToSet(DeckHashes[l.deck])
      BY <2>1, <2>6 DEF LinkedOK
    <2>8. LinkedOK(r)'
      BY <2>4, <2>7 DEF LinkedOK
    <2> QED
      BY <2>2, <2>8
  <1>6. ASSUME Filling(r), l.bundle
        PROVE  Counted(r)'
    <2>1. LinkedOK(r) /\ Counted(r)
      BY <1>6 DEF OwnOK
    <2>2. \A n \in 1..Len(l.rows) : items'[l.rows[n]].hash = items[l.rows[n]].hash
      BY <1>2, <2>1 DEF LinkedOK
    <2> QED
      BY <2>1, <2>2 DEF Counted
  <1> QED
    BY <1>3, <1>4, <1>5, <1>6 DEF OwnOK

\* Cards stay in order as long as the rows linked and the hashes stay.
LEMMA CountedKept ==
    ASSUME NEW r \in Requests, Counted(r),
           req'[r].rows = req[r].rows, req'[r].left = req[r].left,
           req'[r].deck = req[r].deck,
           \A n \in 1..Len(req[r].rows) :
              items'[req[r].rows[n]].hash = items[req[r].rows[n]].hash
    PROVE  Counted(r)'
  <1> DEFINE rows == req[r].rows
             left == req[r].left
             cards == DeckHashes[req[r].deck]
  <1>1. /\ Len(rows) + Len(left) = Len(cards)
        /\ \A n \in 1..Len(rows) : items[rows[n]].hash = cards[n]
        /\ \A n \in 1..Len(left) : left[n] = cards[Len(rows) + n]
    BY DEF Counted
  <1>2. \A n \in 1..Len(rows) : items'[rows[n]].hash = cards[n]
    BY <1>1
  <1> QED
    BY <1>1, <1>2, Zenon DEF Counted

\* Of r, the only one that may have moved: it imports what it imported before.
Follows(r) ==
    /\ req'[r].bundle => req[r].bundle /\ req'[r].deck = req[r].deck
    /\ Filling(r)' => Filling(r)

\* What each step shows of the request that takes it.
Stepped(r) ==
    /\ ImportTypeOK'
    /\ \A q \in Requests \ {r} : req'[q] = req[q] /\ ContentKept(req[q].made)
    /\ ContentKept({})
    /\ MadeOK'
    /\ OwnOK(r)'

LEMMA FillKept ==
    ASSUME ImportInv, NEW r \in Requests, Stepped(r)
    PROVE  FillOK'
  BY OwnKept DEF ImportInv, FillOK, Stepped

\* A step that makes no set keeps the rest.
LEMMA NoNewSet ==
    ASSUME ImportInv, ImportTypeOK', MadeOK', FillOK', ContentKept({}),
           \A r \in Requests : Follows(r),
           overlapped' = overlapped,
           \A s \in Sets : \/ sets'[s] = sets[s]
                           \/ /\ sets[s].is # "none" /\ sets'[s].is # "none"
                              /\ sets'[s].bundle = sets[s].bundle
                              /\ sets'[s].title = sets[s].title
                              /\ sets'[s].rows = sets[s].rows
    PROVE  ImportInv'
  <1> USE DEF ImportInv
  <1>1. \A s \in Sets : /\ sets'[s].bundle = sets[s].bundle
                        /\ sets'[s].title = sets[s].title
                        /\ sets'[s].rows = sets[s].rows
                        /\ sets'[s].is = "none" => sets'[s] = sets[s]
    OBVIOUS
  <1>2. SetsOK'
    <2>1. ASSUME NEW s \in Sets, sets'[s].is = "none"
          PROVE  sets'[s] = NoSet
      BY <1>1, <2>1 DEF SetsOK
    <2>2. ASSUME NEW s \in Sets, sets'[s].bundle
          PROVE  sets'[s].title \in Bundles
                 /\ InOrder(sets[s].rows, DeckHashes[sets[s].title])'
      <3>1. /\ sets[s].title \in Bundles
            /\ InOrder(sets[s].rows, DeckHashes[sets[s].title])
        BY <1>1, <2>2 DEF SetsOK
      <3> DEFINE rows == sets[s].rows
                 cards == DeckHashes[sets[s].title]
      <3>2. rows \in Seq(Items) /\ DOMAIN rows = 1..Len(rows)
        BY DEF ImportTypeOK, SetRow
      <3>3. \A n \in 1..Len(cards) :
               /\ items'[rows[n]].is \in {"live", "deleted"}
               /\ items'[rows[n]].hash = cards[n]
        BY <3>1, <3>2 DEF ContentKept, InOrder, Committed
      <3> QED
        BY <1>1, <3>1, <3>3 DEF InOrder, Committed
    <2> QED
      BY <2>1, <2>2 DEF SetsOK
  <1>3. AloneOK'
    BY <1>1 DEF AloneOK, Follows
  <1>4. OneSetPerBundle'
    BY <1>1 DEF OneSetPerBundle
  <1> QED
    BY <1>2, <1>3, <1>4

LEMMA RequestStep ==
    ASSUME ImportInv, NEW r \in Requests, Stepped(r), Follows(r),
           overlapped' = overlapped, sets' = sets
    PROVE  ImportInv'
  <1>1. \A q \in Requests : Follows(q)
    BY DEF Stepped, Follows, Filling
  <1> QED
    BY <1>1, NoNewSet, FillKept DEF Stepped

-----------------------------------------------------------------------------
(***************************************************************************)
(* A transaction that ends without a trace.                                *)
(***************************************************************************)
LEMMA IdleFacts ==
    /\ Idle \in Local
    /\ Idle.at = "idle" /\ ~Idle.bundle /\ Idle.made = {} /\ Idle.restore = None
    /\ Idle.left = <<>> /\ Idle.rows = <<>>
  BY DEF Idle, Local, Places

LEMMA RollbackStep ==
    ASSUME ImportInv, NEW r \in Requests, Rollback(r),
           UNCHANGED <<translated, sets, preview, overlapped, edits>>,
           faults' \in 0..MaxFaults
    PROVE  ImportInv'
  <1> USE DEF ImportInv
  <1>1. /\ req' = [req EXCEPT ![r] = Idle]
        /\ items' = [i \in Items |-> IF i \in req[r].made THEN NoItem ELSE items[i]]
    BY DEF Rollback
  <1>2. req'[r] = Idle /\ \A q \in Requests \ {r} : req'[q] = req[q]
    BY <1>1 DEF ImportTypeOK
  <1>3. ImportTypeOK'
    BY <1>1, IdleFacts DEF ImportTypeOK, ItemRow, NoItem
  <1>4. \A i \in Items \ req[r].made : items'[i] = items[i]
    BY <1>1
  <1>5. \A i \in Items : Committed(i) => i \notin req[r].made
    BY DEF MadeOK, Committed
  <1>6. ASSUME NEW own, own \intersect req[r].made = {}
        PROVE  ContentKept(own)
    BY <1>4, <1>5, <1>6 DEF ContentKept, Committed
  <1>7. MadeOK'
    <2>1. \A q \in Requests : req'[q].made \subseteq Items
      BY <1>3 DEF ImportTypeOK, Local
    <2>2. \A q \in Requests : req'[q].made \intersect req[r].made = {}
      BY <1>2, IdleFacts DEF MadeOK
    <2> QED
      BY <1>2, <1>4, <2>1, <2>2, IdleFacts DEF MadeOK
  <1>8. OwnOK(r)' /\ Follows(r)
    <2>1. OwnOK(r)' /\ ~Filling(r)'
      BY <1>2, IdleFacts DEF OwnOK, PlaceOK, Filling
    <2> QED
      BY <1>2, <2>1, IdleFacts DEF Follows
  <1>9. Stepped(r)
    BY <1>2, <1>3, <1>6, <1>7, <1>8 DEF Stepped, MadeOK
  <1> QED
    BY <1>8, <1>9, RequestStep

-----------------------------------------------------------------------------
(***************************************************************************)
(* Card by card: what a request may build on, when only it moves and       *)
(* nothing but its own variables changes.                                  *)
(***************************************************************************)
LEMMA Unmoved ==
    ASSUME items' = items, translated' = translated, sets' = sets, NEW own
    PROVE  ContentKept(own)
  BY DEF ContentKept, Committed

\* r goes from l to m, and does no more.
LEMMA LocalStep ==
    ASSUME ImportInv, NEW r \in Requests, NEW m \in Local,
           req' = [req EXCEPT ![r] = m], OnlyReq,
           m.made = req[r].made,
           m.bundle = req[r].bundle, m.deck = req[r].deck,
           Filling(r), OwnOK(r)'
    PROVE  ImportInv'
  <1> USE DEF ImportInv, OnlyReq, OnlyItems, bounds
  <1>1. req'[r] = m /\ \A q \in Requests \ {r} : req'[q] = req[q]
    BY DEF ImportTypeOK
  <1>2. ImportTypeOK'
    BY DEF ImportTypeOK
  <1>3. MadeOK'
    BY <1>1 DEF MadeOK
  <1>4. Stepped(r)
    BY <1>1, <1>2, <1>3, Unmoved DEF Stepped
  <1>5. Follows(r)
    BY <1>1 DEF Follows
  <1> QED
    BY <1>4, <1>5, RequestStep

\* The fields of a request that turns to an item, or to the next card.
LEMMA UseFacts ==
    ASSUME NEW l \in Local, NEW i \in Items
    PROVE  /\ Use(l, i) \in Local
           /\ Use(l, i).at = "translate" /\ Use(l, i).item = i
           /\ Use(l, i).deck = l.deck /\ Use(l, i).bundle = l.bundle
           /\ Use(l, i).owner = l.owner /\ Use(l, i).left = l.left
           /\ Use(l, i).existing = l.existing /\ Use(l, i).made = l.made
           /\ Use(l, i).added = l.added /\ Use(l, i).rows = l.rows
           /\ Use(l, i).restore = l.restore
  BY DEF Use, Local, Places

LEMMA NextCardFacts ==
    ASSUME NEW l \in Local, l.left # <<>>
    PROVE  /\ NextCard(l) \in Local
           /\ NextCard(l).at = "card" /\ NextCard(l).left = Tail(l.left)
           /\ NextCard(l).deck = l.deck /\ NextCard(l).bundle = l.bundle
           /\ NextCard(l).existing = l.existing /\ NextCard(l).made = l.made
           /\ NextCard(l).owner = l.owner
           /\ NextCard(l).added = l.added /\ NextCard(l).rows = l.rows
           /\ NextCard(l).restore = l.restore
  <1>1. l.left \in Seq(Hashes)
    BY DEF Local
  <1>2. Tail(l.left) \in Seq(Hashes)
    BY <1>1, TailFacts
  <1> QED
    BY <1>2 DEF NextCard, Local, Places

\* What a request that fills a set knows.
LEMMA FillingFacts ==
    ASSUME ImportInv, NEW r \in Requests, Filling(r)
    PROVE  /\ req[r] \in Local /\ req[r].restore = None
           /\ PlaceOK(r) /\ FoundOK(r) /\ LinkedOK(r)
           /\ req[r].bundle => Counted(r)
           /\ req[r].left \in Seq(Hashes)
           /\ req[r].rows \in Seq(Items)
           /\ Usable(r) \subseteq Items /\ req[r].made \subseteq Items
  BY DEF ImportInv, ImportTypeOK, FillOK, OwnOK, Filling, Local, Usable

\* The place changes, or the item in hand, and what is linked stays.
LEMMA TurnStep ==
    ASSUME ImportInv, NEW r \in Requests, Filling(r), NEW m \in Local,
           req' = [req EXCEPT ![r] = m], OnlyReq,
           m.made = req[r].made, m.added = req[r].added, m.rows = req[r].rows,
           m.bundle = req[r].bundle, m.deck = req[r].deck,
           m.left = req[r].left, m.restore = None,
           m.existing = req[r].existing,
           \/ m.at = "insert" /\ m.left # <<>>
           \/ m.at = "commit" /\ m.left = <<>>
           \/ /\ m.at \in {"translate", "add"} /\ m.left # <<>>
              /\ m.item \in Usable(r) /\ items[m.item].hash = Head(m.left)
    PROVE  ImportInv'
  <1> USE DEF OnlyReq, OnlyItems, bounds
  <1>1. req'[r] = m
    BY DEF ImportInv, ImportTypeOK
  <1>2. Usable(r)' = Usable(r)
    BY <1>1 DEF Usable, Committed
  <1>3. PlaceOK(r)' /\ Filling(r)'
    BY <1>1, <1>2, FillingFacts DEF PlaceOK, Filling
  <1>4. FoundOK(r)'
    BY <1>1, <1>2, FillingFacts DEF FoundOK, Usable
  <1>5. LinkedOK(r)'
    <2>1. LinkedOK(r)
      BY FillingFacts
    <2>2. /\ req'[r].rows = req[r].rows /\ req'[r].left = req[r].left
          /\ req'[r].deck = req[r].deck /\ req'[r].made = req[r].made
          /\ req'[r].added = req[r].added /\ items' = items
          /\ translated' = translated
      BY <1>1
    <2> QED
      BY <1>2, <2>1, <2>2 DEF LinkedOK
  <1>6. ASSUME m.bundle
        PROVE  Counted(r)'
    <2>1. Counted(r)
      BY <1>6, FillingFacts
    <2>2. /\ req'[r].rows = req[r].rows /\ req'[r].left = req[r].left
          /\ req'[r].deck = req[r].deck /\ items' = items
      BY <1>1
    <2> QED
      BY <2>1, <2>2 DEF Counted
  <1>7. OwnOK(r)'
    BY <1>1, <1>3, <1>4, <1>5, <1>6 DEF OwnOK
  <1> QED
    BY <1>7, LocalStep

LEMMA TakeCardStep ==
    ASSUME ImportInv, NEW r \in Requests, TakeCard(r)
    PROVE  ImportInv'
  <1> DEFINE l == req[r]
             found == l.existing[Hash(r)]
  <1>1. l.at = "card" /\ l.left # <<>> /\ OnlyReq
    BY DEF TakeCard, At
  <1>2. Filling(r) /\ l \in Local
    BY <1>1 DEF ImportInv, ImportTypeOK, FillOK, OwnOK, PlaceOK, Filling
  <1>3. /\ l.left \in Seq(Hashes) /\ Hash(r) \in Hashes /\ Hash(r) = Head(l.left)
    BY <1>1, <1>2, FillingFacts, TailFacts DEF Hash
  <1>4. CASE found = None
    <2> DEFINE m == [l EXCEPT !.at = "insert"]
    <2>1. req' = [req EXCEPT ![r] = m]
      BY <1>4 DEF TakeCard
    <2>2. m \in Local
      BY <1>2 DEF Local, Places
    <2>3. /\ m.made = l.made /\ m.added = l.added /\ m.rows = l.rows
          /\ m.bundle = l.bundle /\ m.deck = l.deck
          /\ m.left = l.left /\ m.restore = l.restore
          /\ m.existing = l.existing /\ m.at = "insert"
      BY <1>2 DEF Local
    <2> HIDE DEF m
    <2> QED
      BY <1>1, <1>2, <2>1, <2>2, <2>3, TurnStep, FillingFacts
  <1>5. ASSUME found # None
        PROVE  found \in Usable(r) /\ items[found].hash = Head(l.left) /\ found \in Items
    BY <1>2, <1>3, <1>5, FillingFacts DEF FoundOK
  <1>6. CASE found # None /\ ~(~l.bundle /\ found \in ToSet(l.rows))
    <2> DEFINE m == Use(l, found)
    <2>1. req' = [req EXCEPT ![r] = m]
      BY <1>6 DEF TakeCard
    <2>2. /\ m \in Local /\ m.at = "translate" /\ m.item = found
          /\ m.made = l.made /\ m.added = l.added /\ m.rows = l.rows
          /\ m.bundle = l.bundle /\ m.deck = l.deck
          /\ m.left = l.left /\ m.restore = l.restore
          /\ m.existing = l.existing
      BY <1>2, <1>5, <1>6, UseFacts
    <2> HIDE DEF m
    <2> QED
      BY <1>1, <1>2, <1>5, <1>6, <2>1, <2>2, TurnStep, FillingFacts
  <1>7. CASE found # None /\ ~l.bundle /\ found \in ToSet(l.rows)
    <2> DEFINE m == NextCard(l)
    <2>1. req' = [req EXCEPT ![r] = m]
      BY <1>7 DEF TakeCard
    <2>2. /\ m \in Local /\ m.at = "card" /\ m.left = Tail(l.left)
          /\ m.made = l.made /\ m.added = l.added /\ m.rows = l.rows
          /\ m.bundle = l.bundle /\ m.deck = l.deck /\ m.restore = l.restore
          /\ m.existing = l.existing
      BY <1>1, <1>2, NextCardFacts
    <2> HIDE DEF m
    <2>3. req'[r] = m
      BY <2>1 DEF ImportInv, ImportTypeOK
    <2>4. Usable(r)' = Usable(r) /\ items' = items
      BY <1>1, <2>2, <2>3 DEF Usable, Committed, OnlyReq
    <2>5. PlaceOK(r)'
      BY <1>1, <1>2, <2>2, <2>3, FillingFacts DEF PlaceOK
    <2>6. FoundOK(r)'
      BY <1>2, <2>2, <2>3, <2>4, FillingFacts DEF FoundOK
    <2>7. LinkedOK(r)'
      <3>1. LinkedOK(r)
        BY <1>2, FillingFacts
      <3>2. ToSet(l.left) = {Head(l.left)} \union ToSet(m.left)
        BY <1>1, <1>3, <2>2, TailFacts
      <3>3. Head(l.left) \in {items[i].hash : i \in ToSet(l.rows)}
        BY <1>5, <1>7
      <3>4. {items[i].hash : i \in ToSet(l.rows)} \union ToSet(m.left)
               = ToSet(DeckHashes[l.deck])
        BY <3>1, <3>2, <3>3 DEF LinkedOK
      <3> QED
        BY <1>1, <2>2, <2>3, <2>4, <3>1, <3>4
           DEF LinkedOK, OnlyReq, OnlyItems
    <2>8. OwnOK(r)'
      BY <1>7, <2>2, <2>3, <2>5, <2>6, <2>7 DEF OwnOK
    <2> QED
      BY <1>1, <1>2, <2>1, <2>2, <2>8, LocalStep
  <1> QED
    BY <1>4, <1>6, <1>7

LEMMA LastCardStep ==
    ASSUME ImportInv, NEW r \in Requests, LastCard(r)
    PROVE  ImportInv'
  <1> DEFINE l == req[r]
             m == [l EXCEPT !.at = "commit"]
  <1>1. l.at = "card" /\ l.left = <<>> /\ OnlyReq /\ req' = [req EXCEPT ![r] = m]
    BY DEF LastCard, At
  <1>2. Filling(r) /\ l \in Local
    BY <1>1 DEF ImportInv, ImportTypeOK, FillOK, OwnOK, PlaceOK, Filling
  <1>3. m \in Local
    BY <1>2 DEF Local, Places
  <1>4. /\ m.made = l.made /\ m.added = l.added /\ m.rows = l.rows
        /\ m.bundle = l.bundle /\ m.deck = l.deck
        /\ m.left = l.left /\ m.restore = l.restore
        /\ m.existing = l.existing /\ m.at = "commit"
    BY <1>2 DEF Local
  <1> HIDE DEF m
  <1> QED
    BY <1>1, <1>2, <1>3, <1>4, TurnStep, FillingFacts

\* An item of its own: nobody has held that row.
LEMMA InsertItemStep ==
    ASSUME ImportInv, NEW r \in Requests, InsertItem(r)
    PROVE  ImportInv'
  <1> DEFINE l == req[r]
  <1>1. l.at = "insert" /\ OnlyItems
    BY DEF InsertItem, At
  <1>2. Filling(r) /\ l \in Local
    BY <1>1 DEF ImportInv, ImportTypeOK, FillOK, OwnOK, PlaceOK, Filling
  <1>3. l.left # <<>> /\ l.deck \in Decks /\ (l.bundle => l.deck \in Bundles)
    BY <1>1, <1>2, FillingFacts DEF PlaceOK
  <1>4. /\ l.left \in Seq(Hashes) /\ Hash(r) \in Hashes /\ Hash(r) = Head(l.left)
    BY <1>2, <1>3, FillingFacts, TailFacts DEF Hash
  <1>5. PICK i \in Items :
          /\ items[i].is = "none"
          /\ items' = [items EXCEPT ![i] =
                [is |-> "new", hash |-> Hash(r), owner |-> req[r].owner]]
          /\ req' = [req EXCEPT ![r] =
                [Use(req[r], i) EXCEPT !.made = @ \union {i},
                   !.existing = IF req[r].bundle THEN @
                                ELSE [@ EXCEPT ![Hash(r)] = i]]]
    BY DEF InsertItem
  <1> DEFINE m == [Use(l, i) EXCEPT !.made = @ \union {i},
                      !.existing = IF l.bundle THEN @
                                   ELSE [@ EXCEPT ![Hash(r)] = i]]
  <1>6. /\ Use(l, i) \in Local
        /\ Use(l, i).at = "translate" /\ Use(l, i).item = i
        /\ Use(l, i).deck = l.deck /\ Use(l, i).bundle = l.bundle
        /\ Use(l, i).owner = l.owner /\ Use(l, i).left = l.left
        /\ Use(l, i).existing = l.existing /\ Use(l, i).made = l.made
        /\ Use(l, i).added = l.added /\ Use(l, i).rows = l.rows
        /\ Use(l, i).restore = l.restore
    BY <1>2, UseFacts
  <1>7. /\ m.at = "translate" /\ m.item = i /\ m.left = l.left
        /\ m.made = l.made \union {i} /\ m.added = l.added /\ m.rows = l.rows
        /\ m.bundle = l.bundle /\ m.deck = l.deck /\ m.restore = l.restore
        /\ m.owner = l.owner
        /\ m.existing = IF l.bundle THEN l.existing
                        ELSE [l.existing EXCEPT ![Hash(r)] = i]
    BY <1>6 DEF Local
  <1>8. m \in Local
    <2> DEFINE made == Use(l, i).made \union {i}
               existing == IF l.bundle THEN Use(l, i).existing
                           ELSE [Use(l, i).existing EXCEPT ![Hash(r)] = i]
    <2>1. made \subseteq Items
      BY <1>6 DEF Local
    <2>2. existing \in [Hashes -> Items \union {None}]
      BY <1>4, <1>6 DEF Local
    <2>3. m = [Use(l, i) EXCEPT !.made = made, !.existing = existing]
      OBVIOUS
    <2> HIDE DEF made, existing, m
    <2> QED
      BY <1>6, <2>1, <2>2, <2>3 DEF Local
  <1>9. req' = [req EXCEPT ![r] = m]
    BY <1>5
  <1> HIDE DEF m
  <1>10. req'[r] = m /\ \A q \in Requests \ {r} : req'[q] = req[q]
    BY <1>9 DEF ImportInv, ImportTypeOK
  <1>11. /\ items'[i].is = "new" /\ items'[i].hash = Hash(r)
         /\ \A j \in Items \ {i} : items'[j] = items[j]
    BY <1>5 DEF ImportInv, ImportTypeOK
  <1>12. ImportTypeOK'
    <2>1. l.owner \in Users \union {None}
      BY <1>2 DEF Local
    <2>2. items' \in [Items -> ItemRow]
      BY <1>4, <1>5, <2>1 DEF ImportInv, ImportTypeOK, ItemRow
    <2>3. req' \in [Requests -> Local]
      BY <1>8, <1>9 DEF ImportInv, ImportTypeOK
    <2> QED
      BY <1>1, <2>2, <2>3 DEF ImportInv, ImportTypeOK, OnlyItems, bounds
  <1>13. \A q \in Requests : i \notin req[q].made
    BY <1>5 DEF ImportInv, MadeOK
  <1>14. ASSUME NEW own, i \notin own
         PROVE  ContentKept(own)
    BY <1>1, <1>5, <1>11, <1>14 DEF ContentKept, Committed, OnlyItems
  <1>15. MadeOK'
    <2>1. \A q \in Requests : req[q].made \subseteq Items
      BY DEF ImportInv, ImportTypeOK, Local
    <2> QED
      BY <1>7, <1>10, <1>11, <1>13, <2>1 DEF ImportInv, MadeOK
  <1>16. i \notin Usable(r)
    BY <1>5, <1>13 DEF Usable, Committed
  <1>17. /\ i \in Usable(r)'
         /\ \A j \in Usable(r) : j \in Usable(r)' /\ items'[j].hash = items[j].hash
    BY <1>7, <1>10, <1>11, <1>16 DEF Usable, Committed
  <1>18. PlaceOK(r)' /\ Filling(r)'
    <2>1. m.restore = None
      BY <1>2, <1>7 DEF Filling
    <2> QED
      BY <1>3, <1>4, <1>7, <1>10, <1>11, <1>17, <2>1 DEF PlaceOK, Filling
  <1>19. FoundOK(r)'
    <2> SUFFICES ASSUME NEW h \in Hashes, m.existing[h] # None
                 PROVE  /\ m.existing[h] \in Usable(r)'
                        /\ items'[m.existing[h]].hash = h
      BY <1>10 DEF FoundOK
    <2>1. l.existing \in [Hashes -> Items \union {None}]
      BY <1>2 DEF Local
    <2>2. CASE m.existing[h] = l.existing[h]
      BY <1>2, <1>17, <2>2, FillingFacts DEF FoundOK
    <2>3. CASE m.existing[h] # l.existing[h]
      <3>1. h = Hash(r) /\ m.existing[h] = i
        BY <1>4, <1>7, <2>1, <2>3
      <3> QED
        BY <1>11, <1>17, <3>1
    <2> QED
      BY <2>2, <2>3
  <1>20. LinkedOK(r)'
    <2>1. LinkedOK(r)
      BY <1>2, FillingFacts
    <2>2. \A n \in 1..Len(l.rows) :
             /\ l.rows[n] \in Usable(r)'
             /\ l.rows[n] \in m.made => l.rows[n] \in translated' \union m.added
      BY <1>1, <1>7, <1>16, <1>17, <2>1 DEF LinkedOK, OnlyItems
    <2>3. l.rows \in Seq(Items) /\ DOMAIN l.rows = 1..Len(l.rows)
      BY <1>2, FillingFacts
    <2>4. \A j \in ToSet(l.rows) : items'[j].hash = items[j].hash
      BY <1>17, <2>1, <2>3 DEF LinkedOK, ToSet
    <2>5. {items'[j].hash : j \in ToSet(l.rows)} = {items[j].hash : j \in ToSet(l.rows)}
      BY <2>4, SameHashes
    <2>6. /\ \A k, n \in 1..Len(l.rows) : l.rows[k] = l.rows[n] => k = n
          /\ {items'[j].hash : j \in ToSet(l.rows)} \union ToSet(l.left)
                = ToSet(DeckHashes[l.deck])
      BY <2>1, <2>5 DEF LinkedOK
    <2> QED
      BY <1>7, <1>10, <2>2, <2>6 DEF LinkedOK
  <1>21. ASSUME m.bundle
         PROVE  Counted(r)'
    <2>1. Counted(r) /\ LinkedOK(r)
      BY <1>2, <1>7, <1>21, FillingFacts
    <2>2. \A n \in 1..Len(l.rows) : items'[l.rows[n]].hash = items[l.rows[n]].hash
      BY <1>17, <2>1 DEF LinkedOK
    <2>3. /\ req'[r].rows = req[r].rows /\ req'[r].left = req[r].left
          /\ req'[r].deck = req[r].deck
      BY <1>7, <1>10
    <2> QED
      BY <2>1, <2>2, <2>3, CountedKept
  <1>22. OwnOK(r)'
    BY <1>10, <1>18, <1>19, <1>20, <1>21 DEF OwnOK
  <1>23. Stepped(r)
    BY <1>10, <1>12, <1>13, <1>14, <1>15, <1>22 DEF Stepped
  <1>24. Follows(r)
    BY <1>2, <1>7, <1>10 DEF Follows
  <1> QED
    BY <1>1, <1>23, <1>24, RequestStep DEF OnlyItems

\* A clash: a deck reuses what the other import committed, a bundle fails.
LEMMA InsertClashesStep ==
    ASSUME ImportInv, NEW r \in Requests, InsertClashes(r)
    PROVE  ImportInv'
  <1> DEFINE l == req[r]
  <1>1. l.at = "insert" /\ OnlyItems
    BY DEF InsertClashes, At
  <1>2. Filling(r) /\ l \in Local
    BY <1>1 DEF ImportInv, ImportTypeOK, FillOK, OwnOK, PlaceOK, Filling
  <1>3. l.left # <<>>
    BY <1>1, <1>2, FillingFacts DEF PlaceOK
  <1>4. /\ l.left \in Seq(Hashes) /\ Hash(r) \in Hashes /\ Hash(r) = Head(l.left)
    BY <1>2, <1>3, FillingFacts, TailFacts DEF Hash
  <1>5. PICK i \in FindByHash(Hash(r), l.made) :
          \/ Recover(r, i) /\ UNCHANGED items
          \/ Rollback(r)
    BY DEF InsertClashes
  <1>6. CASE Rollback(r)
    BY <1>1, <1>6, RollbackStep DEF OnlyItems, bounds, ImportInv, ImportTypeOK
  <1>7. CASE Recover(r, i) /\ UNCHANGED items
    <2> DEFINE m == [Use(l, i) EXCEPT !.existing[Hash(r)] = i]
    <2>1. req' = [req EXCEPT ![r] = m]
      BY <1>7 DEF Recover
    <2>2. i \in Usable(r) /\ items[i].hash = Hash(r) /\ i \in Items
      BY <1>5 DEF FindByHash, LiveItem, Usable, Committed
    <2>3. /\ Use(l, i) \in Local
          /\ Use(l, i).at = "translate" /\ Use(l, i).item = i
          /\ Use(l, i).deck = l.deck /\ Use(l, i).bundle = l.bundle
          /\ Use(l, i).left = l.left
          /\ Use(l, i).existing = l.existing /\ Use(l, i).made = l.made
          /\ Use(l, i).added = l.added /\ Use(l, i).rows = l.rows
          /\ Use(l, i).restore = l.restore
      BY <1>2, <2>2, UseFacts
    <2>4. /\ m.at = "translate" /\ m.item = i /\ m.left = l.left
          /\ m.made = l.made /\ m.added = l.added /\ m.rows = l.rows
          /\ m.bundle = l.bundle /\ m.deck = l.deck /\ m.restore = l.restore
          /\ m.existing = [l.existing EXCEPT ![Hash(r)] = i]
      BY <2>3 DEF Local
    <2>5. m \in Local
      BY <1>4, <2>2, <2>3 DEF Local
    <2> HIDE DEF m
    <2>6. req'[r] = m
      BY <2>1 DEF ImportInv, ImportTypeOK
    <2>7. Usable(r)' = Usable(r)
      BY <1>7, <2>4, <2>6 DEF Usable, Committed
    <2>8. PlaceOK(r)' /\ Filling(r)'
      BY <1>2, <1>3, <1>4, <1>7, <2>2, <2>4, <2>6, <2>7, FillingFacts
         DEF PlaceOK, Filling
    <2>9. FoundOK(r)'
      <3> SUFFICES ASSUME NEW h \in Hashes, m.existing[h] # None
                   PROVE  /\ m.existing[h] \in Usable(r)
                          /\ items[m.existing[h]].hash = h
        BY <1>7, <2>6, <2>7 DEF FoundOK
      <3>1. l.existing \in [Hashes -> Items \union {None}]
        BY <1>2 DEF Local
      <3>2. CASE h = Hash(r)
        BY <2>2, <2>4, <3>1, <3>2
      <3>3. CASE h # Hash(r)
        BY <1>2, <2>4, <3>1, <3>3, FillingFacts DEF FoundOK
      <3> QED
        BY <3>2, <3>3
    <2>10. LinkedOK(r)'
      <3>1. LinkedOK(r)
        BY <1>2, FillingFacts
      <3>2. /\ req'[r].rows = l.rows /\ req'[r].left = l.left
            /\ req'[r].deck = l.deck /\ req'[r].made = l.made
            /\ req'[r].added = l.added /\ items' = items /\ translated' = translated
        BY <1>1, <1>7, <2>4, <2>6 DEF OnlyItems
      <3> QED
        BY <2>7, <3>1, <3>2 DEF LinkedOK
    <2>11. ASSUME m.bundle
           PROVE  Counted(r)'
      <3>1. Counted(r)
        BY <1>2, <2>4, <2>11, FillingFacts
      <3>2. /\ req'[r].rows = req[r].rows /\ req'[r].left = req[r].left
            /\ req'[r].deck = req[r].deck /\ items' = items
        BY <1>7, <2>4, <2>6
      <3> QED
        BY <3>1, <3>2 DEF Counted
    <2>12. OwnOK(r)'
      BY <2>6, <2>8, <2>9, <2>10, <2>11 DEF OwnOK
    <2> QED
      BY <1>1, <1>2, <1>7, <2>1, <2>4, <2>5, <2>12, LocalStep DEF OnlyReq
  <1> QED
    BY <1>5, <1>6, <1>7

\* A card more is linked, and a card less to come.
LEMMA LinkStep ==
    ASSUME ImportInv, NEW r \in Requests, Filling(r),
           req[r].at \in {"translate", "add"},
           NEW added, added \subseteq Items, req[r].added \subseteq added,
           req[r].item \in req[r].made => req[r].item \in translated \union added,
           Link(r, added), OnlyItems
    PROVE  ImportInv'
  <1> DEFINE l == req[r]
             i == l.item
  <1>1. l \in Local
    BY FillingFacts
  <1>2. l.left # <<>> /\ i \in Usable(r) /\ items[i].hash = Head(l.left)
        /\ l.deck \in Decks /\ (l.bundle => l.deck \in Bundles)
    BY FillingFacts DEF PlaceOK
  <1>3. i \in Items /\ l.left \in Seq(Hashes) /\ l.rows \in Seq(Items)
        /\ l.made \subseteq Items
    BY <1>2, FillingFacts
  <1>4. CASE i \in ToSet(l.rows)
    <2>1. Rollback(r)
      BY <1>4 DEF Link
    <2> QED
      BY <2>1, RollbackStep DEF OnlyItems, bounds, ImportInv, ImportTypeOK
  <1>5. CASE i \notin ToSet(l.rows)
    <2> DEFINE m == [NextCard(l) EXCEPT !.rows = Append(@, l.item), !.added = added]
    <2>1. req' = [req EXCEPT ![r] = m] /\ OnlyReq
      BY <1>5 DEF Link, OnlyReq
    <2>2. /\ NextCard(l) \in Local
          /\ NextCard(l).at = "card" /\ NextCard(l).left = Tail(l.left)
          /\ NextCard(l).deck = l.deck /\ NextCard(l).bundle = l.bundle
          /\ NextCard(l).existing = l.existing /\ NextCard(l).made = l.made
          /\ NextCard(l).rows = l.rows /\ NextCard(l).restore = l.restore
      BY <1>1, <1>2, NextCardFacts
    <2>3. /\ m.at = "card" /\ m.left = Tail(l.left)
          /\ m.deck = l.deck /\ m.bundle = l.bundle
          /\ m.existing = l.existing /\ m.made = l.made
          /\ m.rows = Append(l.rows, i) /\ m.restore = l.restore
          /\ m.added = added
      BY <2>2 DEF Local
    <2>4. Append(l.rows, i) \in Seq(Items)
      BY <1>3, AppendFacts
    <2>5. m \in Local
      BY <2>2, <2>4 DEF Local
    <2> HIDE DEF m
    <2>6. req'[r] = m /\ items' = items /\ translated' = translated
      BY <2>1 DEF ImportInv, ImportTypeOK, OnlyReq, OnlyItems
    <2>7. Usable(r)' = Usable(r)
      BY <2>3, <2>6 DEF Usable, Committed
    <2>8. FoundOK(r) /\ LinkedOK(r)
      BY FillingFacts
    <2>9. PlaceOK(r)'
      BY <1>2, <2>3, <2>6 DEF PlaceOK, Filling
    <2>10. FoundOK(r)'
      BY <2>3, <2>6, <2>7, <2>8 DEF FoundOK
    <2>11. /\ Len(l.rows) \in Nat /\ Len(m.rows) = Len(l.rows) + 1
           /\ \A n \in 1..Len(l.rows) : m.rows[n] = l.rows[n]
           /\ m.rows[Len(l.rows) + 1] = i
           /\ ToSet(m.rows) = ToSet(l.rows) \union {i}
           /\ DOMAIN l.rows = 1..Len(l.rows)
      BY <1>3, <2>3, AppendFacts
    <2>12. /\ Len(l.left) \in Nat /\ Len(l.left) > 0
           /\ Head(l.left) = l.left[1] /\ Len(m.left) = Len(l.left) - 1
           /\ \A n \in 1..Len(l.left) - 1 : m.left[n] = l.left[n + 1]
           /\ ToSet(l.left) = {Head(l.left)} \union ToSet(m.left)
      BY <1>2, <1>3, <2>3, TailFacts
    <2>13. LinkedOK(r)'
      <3>1. \A n \in 1..Len(m.rows) :
               /\ m.rows[n] \in Usable(r)
               /\ m.rows[n] \in l.made => m.rows[n] \in translated \union added
        <4> SUFFICES ASSUME NEW n \in 1..Len(m.rows)
                     PROVE  /\ m.rows[n] \in Usable(r)
                            /\ m.rows[n] \in l.made
                                  => m.rows[n] \in translated \union added
          OBVIOUS
        <4>1. CASE n \in 1..Len(l.rows)
          BY <2>8, <2>11, <4>1 DEF LinkedOK
        <4>2. CASE n = Len(l.rows) + 1
          BY <1>2, <2>11, <4>2
        <4> QED
          BY <2>11, <4>1, <4>2
      <3>2. \A n \in 1..Len(l.rows) : l.rows[n] # i
        BY <1>5, <2>11 DEF ToSet
      <3>3. \A k, n \in 1..Len(l.rows) : l.rows[k] = l.rows[n] => k = n
        BY <2>8 DEF LinkedOK
      <3>4. \A k, n \in 1..Len(m.rows) : m.rows[k] = m.rows[n] => k = n
        <4> SUFFICES ASSUME NEW k \in 1..Len(m.rows), NEW n \in 1..Len(m.rows),
                            m.rows[k] = m.rows[n]
                     PROVE  k = n
          OBVIOUS
        <4>1. /\ k \in 1..Len(l.rows) \/ k = Len(l.rows) + 1
              /\ n \in 1..Len(l.rows) \/ n = Len(l.rows) + 1
          BY <2>11
        <4>2. CASE k \in 1..Len(l.rows) /\ n \in 1..Len(l.rows)
          <5>1. l.rows[k] = l.rows[n]
            BY <2>11, <4>2
          <5> QED
            BY <3>3, <4>2, <5>1
        <4>3. CASE k \in 1..Len(l.rows) /\ n = Len(l.rows) + 1
          BY <2>11, <3>2, <4>3
        <4>4. CASE k = Len(l.rows) + 1 /\ n \in 1..Len(l.rows)
          BY <2>11, <3>2, <4>4
        <4> QED
          BY <4>1, <4>2, <4>3, <4>4
      <3>5. {items[j].hash : j \in ToSet(l.rows)} \union ToSet(l.left)
              = ToSet(DeckHashes[l.deck])
        BY <2>8 DEF LinkedOK
      <3>6. {items[j].hash : j \in ToSet(m.rows)}
              = {items[j].hash : j \in ToSet(l.rows)} \union {Head(l.left)}
        BY <1>2, <2>11
      <3>7. {items[j].hash : j \in ToSet(m.rows)} \union ToSet(m.left)
              = ToSet(DeckHashes[l.deck])
        BY <2>12, <3>5, <3>6
      <3>8. /\ req'[r].rows = m.rows /\ req'[r].left = m.left
            /\ req'[r].deck = l.deck /\ req'[r].made = l.made
            /\ req'[r].added = added
        BY <2>3, <2>6
      <3> QED
        BY <2>6, <2>7, <3>1, <3>4, <3>7, <3>8 DEF LinkedOK
    <2>14. ASSUME m.bundle
           PROVE  Counted(r)'
      <3> DEFINE cards == DeckHashes[l.deck]
      <3>1. Counted(r)
        BY <2>3, <2>14, FillingFacts
      <3>2. /\ Len(l.rows) + Len(l.left) = Len(cards)
            /\ \A n \in 1..Len(l.rows) : items[l.rows[n]].hash = cards[n]
            /\ \A n \in 1..Len(l.left) : l.left[n] = cards[Len(l.rows) + n]
        BY <3>1 DEF Counted
      <3> HIDE DEF cards
      <3>3. Len(m.rows) + Len(m.left) = Len(cards)
        <4> DEFINE a == Len(l.rows)
                   b == Len(l.left)
        <4>1. a \in Nat /\ b \in Nat /\ a + b = Len(cards)
          BY <2>11, <2>12, <3>2
        <4>2. Len(m.rows) = a + 1 /\ Len(m.left) = b - 1
          BY <2>11, <2>12
        <4> HIDE DEF a, b
        <4>3. (a + 1) + (b - 1) = a + b
          BY <4>1
        <4> QED
          BY <4>1, <4>2, <4>3
      <3>4. ASSUME NEW n \in 1..Len(m.rows)
            PROVE  items[m.rows[n]].hash = cards[n]
        <4>1. CASE n \in 1..Len(l.rows)
          BY <2>11, <3>2, <4>1
        <4>2. CASE n = Len(l.rows) + 1
          <5>1. l.left[1] = cards[Len(l.rows) + 1]
            BY <2>12, <3>2
          <5> QED
            BY <1>2, <2>11, <2>12, <4>2, <5>1
        <4> QED
          BY <2>11, <4>1, <4>2
      <3>5. ASSUME NEW n \in 1..Len(m.left)
            PROVE  m.left[n] = cards[Len(m.rows) + n]
        <4>1. n \in 1..Len(l.left) - 1 /\ n + 1 \in 1..Len(l.left)
          BY <2>12
        <4>2. m.left[n] = l.left[n + 1]
          BY <2>12, <4>1
        <4>3. l.left[n + 1] = cards[Len(l.rows) + (n + 1)]
          BY <3>2, <4>1
        <4>4. Len(l.rows) + (n + 1) = Len(m.rows) + n
          <5> DEFINE a == Len(l.rows)
                     b == Len(m.rows)
          <5>1. a \in Nat /\ n \in Nat /\ b = a + 1
            BY <2>11, <4>1
          <5> HIDE DEF a, b
          <5>2. a + (n + 1) = b + n
            BY <5>1
          <5> QED
            BY <5>2 DEF a, b
        <4> QED
          BY <4>2, <4>3, <4>4
      <3>6. /\ req'[r].rows = m.rows /\ req'[r].left = m.left
            /\ req'[r].deck = l.deck /\ cards = DeckHashes[l.deck]
        BY <2>3, <2>6 DEF cards
      <3> QED
        BY <2>6, <3>3, <3>4, <3>5, <3>6 DEF Counted
    <2>15. OwnOK(r)'
      BY <2>6, <2>9, <2>10, <2>13, <2>14 DEF OwnOK
    <2> QED
      BY <2>1, <2>3, <2>5, <2>15, LocalStep
  <1> QED
    BY <1>4, <1>5

LEMMA TranslateStep ==
    ASSUME ImportInv, NEW r \in Requests, Translate(r)
    PROVE  ImportInv'
  <1> DEFINE l == req[r]
  <1>1. l.at = "translate" /\ OnlyItems
    BY DEF Translate, At
  <1>2. Filling(r) /\ l \in Local
    BY <1>1 DEF ImportInv, ImportTypeOK, FillOK, OwnOK, PlaceOK, Filling
  <1>3. CASE l.item \in translated \union l.added
    BY <1>1, <1>2, <1>3, LinkStep DEF Translate, Local
  <1>4. CASE l.item \notin translated \union l.added
    <2> DEFINE m == [l EXCEPT !.at = "add"]
    <2>1. req' = [req EXCEPT ![r] = m] /\ OnlyReq
      BY <1>1, <1>4 DEF Translate, OnlyReq
    <2>2. m \in Local
      BY <1>2 DEF Local, Places
    <2>3. /\ m.made = l.made /\ m.added = l.added /\ m.rows = l.rows
          /\ m.bundle = l.bundle /\ m.deck = l.deck
          /\ m.left = l.left /\ m.restore = l.restore /\ m.item = l.item
          /\ m.existing = l.existing /\ m.at = "add"
      BY <1>2 DEF Local
    <2>4. m.left # <<>> /\ m.item \in Usable(r) /\ items[m.item].hash = Head(m.left)
      BY <1>1, <1>2, <2>3, FillingFacts DEF PlaceOK
    <2> HIDE DEF m
    <2> QED
      BY <1>2, <2>1, <2>2, <2>3, <2>4, TurnStep, FillingFacts
  <1> QED
    BY <1>3, <1>4

LEMMA AddTranslationStep ==
    ASSUME ImportInv, NEW r \in Requests, AddTranslation(r)
    PROVE  ImportInv'
  <1> DEFINE l == req[r]
  <1>1. l.at = "add" /\ OnlyItems
    BY DEF AddTranslation, At
  <1>2. Filling(r) /\ l \in Local
    BY <1>1 DEF ImportInv, ImportTypeOK, FillOK, OwnOK, PlaceOK, Filling
  <1>3. l.item \in Items /\ l.added \subseteq Items
    BY <1>1, <1>2, FillingFacts DEF PlaceOK, Local
  <1>4. CASE l.item \in translated
    BY <1>1, <1>4, RollbackStep
       DEF AddTranslation, OnlyItems, bounds, ImportInv, ImportTypeOK
  <1>5. CASE l.item \notin translated
    <2>1. Link(r, l.added \union {l.item})
      BY <1>5 DEF AddTranslation
    <2> QED
      BY <1>1, <1>2, <1>3, <2>1, LinkStep
  <1> QED
    BY <1>4, <1>5

-----------------------------------------------------------------------------
(***************************************************************************)
(* The start of an import.                                                 *)
(***************************************************************************)
LEMMA BegunFacts ==
    ASSUME NEW d \in Decks, NEW b \in BOOLEAN, NEW owner \in Users \union {None}
    PROVE  LET m == Begun(d, b, owner)
           IN  /\ m \in Local /\ m.at = "card" /\ m.deck = d /\ m.bundle = b
               /\ m.left = DeckHashes[d] /\ m.existing = Existing
               /\ m.made = {} /\ m.rows = <<>> /\ m.restore = None
  <1>1. DeckHashes[d] \in Seq(Hashes)
    BY DeckAssumption
  <1>2. ASSUME NEW h \in Hashes
        PROVE  Existing[h] \in Items \union {None}
    BY DEF Existing, FindByHash
  <1>3. Existing \in [Hashes -> Items \union {None}]
    BY <1>2 DEF Existing
  <1> DEFINE left == DeckHashes[d]
             existing == Existing
             m == [Idle EXCEPT !.at = "card", !.deck = d, !.bundle = b,
                               !.owner = owner, !.left = left, !.existing = existing]
  <1>4. Begun(d, b, owner) = m
    BY DEF Begun
  <1>5. left \in Seq(Hashes) /\ existing \in [Hashes -> Items \union {None}]
    BY <1>1, <1>3
  <1> HIDE DEF left, existing
  <1>6. m \in Local
    BY <1>5, IdleFacts, ZenonT(100) DEF Local, Places
  <1>7. /\ m.at = "card" /\ m.deck = d /\ m.bundle = b
        /\ m.left = left /\ m.existing = existing
        /\ m.made = {} /\ m.rows = <<>> /\ m.restore = None
    BY IdleFacts, ZenonT(30) DEF Local
  <1> QED
    BY <1>4, <1>6, <1>7 DEF left, existing

LEMMA Started ==
    ASSUME ImportInv, NEW r \in Requests, req[r].at = "idle",
           NEW d \in Decks, NEW b \in BOOLEAN, b => d \in Bundles,
           NEW owner \in Users \union {None},
           req' = [req EXCEPT ![r] = Begun(d, b, owner)],
           UNCHANGED <<content, preview, bounds>>, overlapped' \subseteq Decks
    PROVE  /\ Stepped(r) /\ Filling(r)'
           /\ req'[r].deck = d /\ req'[r].bundle = b
  <1> USE DEF content, bounds
  <1> DEFINE m == Begun(d, b, owner)
  <1>1. /\ m \in Local /\ m.at = "card" /\ m.deck = d /\ m.bundle = b
        /\ m.left = DeckHashes[d] /\ m.existing = Existing
        /\ m.made = {} /\ m.rows = <<>> /\ m.restore = None
    BY BegunFacts
  <1>2. req' = [req EXCEPT ![r] = m]
    OBVIOUS
  <1> HIDE DEF m
  <1>3. req'[r] = m /\ \A q \in Requests \ {r} : req'[q] = req[q]
    BY <1>2 DEF ImportInv, ImportTypeOK
  <1>4. ImportTypeOK'
    BY <1>1, <1>2 DEF ImportInv, ImportTypeOK
  <1>5. MadeOK'
    BY <1>1, <1>3 DEF ImportInv, MadeOK
  <1>6. PlaceOK(r)' /\ Filling(r)'
    BY <1>1, <1>3 DEF PlaceOK, Filling
  <1>7. FoundOK(r)'
    <2> SUFFICES ASSUME NEW h \in Hashes, Existing[h] # None
                 PROVE  /\ Existing[h] \in Usable(r)'
                        /\ items'[Existing[h]].hash = h
      BY <1>1, <1>3 DEF FoundOK
    <2>1. FindByHash(h, {}) # {} /\ Existing[h] \in FindByHash(h, {})
      BY DEF Existing
    <2>2. Existing[h] \in Items /\ items[Existing[h]].hash = h /\ Committed(Existing[h])
      BY <2>1 DEF FindByHash, LiveItem, Committed
    <2> HIDE DEF Existing
    <2> QED
      BY <2>2 DEF Usable, Committed
  <1>8. Len(<<>>) = 0 /\ ToSet(<<>>) = {}
    BY EmptyFacts
  <1>9. LinkedOK(r)'
    <2>1. /\ req'[r].rows = <<>> /\ req'[r].left = DeckHashes[d] /\ req'[r].deck = d
      BY <1>1, <1>3
    <2>2. {items'[i].hash : i \in ToSet(<<>>)} \union ToSet(DeckHashes[d])
             = ToSet(DeckHashes[d])
      BY <1>8
    <2>3. 1..Len(<<>>) = {}
      BY <1>8
    <2> QED
      BY <2>1, <2>2, <2>3 DEF LinkedOK
  <1>10. Counted(r)'
    <2>1. DeckHashes[d] \in Seq(Hashes)
      BY DeckAssumption
    <2> DEFINE cards == DeckHashes[d]
    <2>2. cards \in Seq(Hashes)
      BY <2>1
    <2> HIDE DEF cards
    <2>3. /\ Len(<<>>) + Len(cards) = Len(cards)
          /\ \A n \in 1..Len(cards) : cards[n] = cards[Len(<<>>) + n]
      BY <1>8, <2>2
    <2>4. 1..Len(<<>>) = {}
      BY <1>8
    <2>5. /\ req'[r].rows = <<>> /\ req'[r].left = cards /\ DeckHashes[req'[r].deck] = cards
      BY <1>1, <1>3 DEF cards
    <2> QED
      BY <2>3, <2>4, <2>5 DEF Counted
  <1>11. OwnOK(r)'
    BY <1>6, <1>7, <1>9, <1>10 DEF OwnOK
  <1>12. Stepped(r)
    BY <1>3, <1>4, <1>5, <1>11, Unmoved DEF Stepped
  <1> QED
    BY <1>1, <1>3, <1>6, <1>12

\* The sets are as they were, and nobody has forgotten an overlap.
LEMMA SetsUnchanged ==
    ASSUME ImportInv, NEW r \in Requests, Stepped(r),
           sets' = sets, items' = items, overlapped \subseteq overlapped'
    PROVE  SetsOK' /\ OneSetPerBundle' /\ FillOK' /\ MadeOK' /\ ImportTypeOK'
  <1>1. SetsOK'
    BY DEF ImportInv, SetsOK, InOrder, Committed
  <1>2. OneSetPerBundle'
    BY DEF ImportInv, OneSetPerBundle
  <1> QED
    BY <1>1, <1>2, FillKept DEF Stepped

LEMMA ConfirmStep ==
    ASSUME ImportInv, NEW r \in Requests, NEW d \in Anki, ConfirmImport(r, d)
    PROVE  ImportInv'
  <1>1. /\ req[r].at = "idle" /\ OnlyReq
    BY DEF ConfirmImport, At
  <1>2. d \in Decks /\ UserOf[r] \in Users
    BY ImportAssumption
  <1>3. req' = [req EXCEPT ![r] = Begun(d, FALSE, UserOf[r])]
    BY DEF ConfirmImport
  <1>4. UNCHANGED <<content, preview, bounds>> /\ overlapped' = overlapped
    BY <1>1 DEF OnlyReq, OnlyItems, content, bounds
  <1>5. overlapped' \subseteq Decks
    BY <1>4 DEF ImportInv, ImportTypeOK
  <1>6. Stepped(r) /\ req'[r].bundle = FALSE
    BY <1>1, <1>2, <1>3, <1>4, <1>5, Started
  <1>7. /\ SetsOK' /\ OneSetPerBundle' /\ FillOK' /\ MadeOK' /\ ImportTypeOK'
    BY <1>4, <1>6, SetsUnchanged DEF content
  <1>8. AloneOK'
    BY <1>4, <1>6 DEF ImportInv, AloneOK, Stepped, Filling, content
  <1> QED
    BY <1>7, <1>8 DEF ImportInv

\* A set that has the cards in order is found.
LEMMA OrderedFacts ==
    ASSUME ImportTypeOK, NEW s \in Sets, NEW d \in Decks,
           InOrder(sets[s].rows, DeckHashes[d])
    PROVE  OrderedHashes(s) = DeckHashes[d]
  <1> DEFINE rows == sets[s].rows
             cards == DeckHashes[d]
  <1>1. cards \in Seq(Hashes)
    BY DeckAssumption
  <1>2. rows \in Seq(Items)
    BY DEF ImportTypeOK, SetRow
  <1> HIDE DEF cards
  <1>3. Len(rows) = Len(cards) /\ \A n \in 1..Len(cards) : items[rows[n]].hash = cards[n]
    BY DEF InOrder, cards
  <1>4. DOMAIN rows = 1..Len(cards) /\ cards = [n \in 1..Len(cards) |-> cards[n]]
    BY <1>1, <1>2, <1>3
  <1>5. [n \in DOMAIN rows |-> items[rows[n]].hash] = cards
    BY <1>3, <1>4
  <1> QED
    BY <1>5 DEF OrderedHashes, cards

LEMMA StartBundleStep ==
    ASSUME ImportInv, NEW r \in Requests, NEW d \in Bundles,
           NEW owner \in Users \union {None}, StartBundle(r, d, owner)
    PROVE  ImportInv'
  <1>1. /\ req[r].at = "idle"
        /\ UNCHANGED <<content, preview, bounds>>
        /\ overlapped' = overlapped \union
              {e \in {d} : \E q \in Requests : req[q].deck = e /\ req[q].bundle}
    BY DEF StartBundle, At
  <1>2. d \in Decks
    BY ImportAssumption
  <1>3. overlapped' \subseteq Decks /\ overlapped \subseteq overlapped'
    BY <1>1, <1>2 DEF ImportInv, ImportTypeOK
  <1>4. ~req[r].bundle
    BY <1>1 DEF ImportInv, FillOK, OwnOK, PlaceOK
  <1>5. ASSUME NEW q \in Requests, req[q].bundle, req[q].deck = d
        PROVE  d \in overlapped'
    BY <1>1, <1>5
  <1>6. CASE Identical(d) = {} /\ req' = [req EXCEPT ![r] = Begun(d, TRUE, owner)]
    <2>1. req' = [req EXCEPT ![r] = Begun(d, TRUE, owner)]
      BY <1>6
    <2>2. Stepped(r) /\ req'[r].deck = d /\ req'[r].bundle = TRUE
      BY <1>1, <1>2, <1>3, <2>1, Started
    <2>3. /\ SetsOK' /\ OneSetPerBundle' /\ FillOK' /\ MadeOK' /\ ImportTypeOK'
      BY <1>1, <1>3, <2>2, SetsUnchanged DEF content
    <2>4. ASSUME NEW s \in Sets, sets[s].bundle, sets[s].title = d
          PROVE  FALSE
      <3>1. InOrder(sets[s].rows, DeckHashes[d])
        BY <2>4 DEF ImportInv, SetsOK
      <3>2. OrderedHashes(s) = DeckHashes[d]
        BY <1>2, <3>1, OrderedFacts DEF ImportInv
      <3> QED
        BY <1>6, <2>4, <3>2 DEF Identical
    <2>5. AloneOK'
      <3>1. \A q \in Requests \ {r} : req'[q] = req[q] /\ (Filling(q)' <=> Filling(q))
        BY <2>2 DEF Stepped, Filling
      <3>2. sets' = sets
        BY <1>1 DEF content
      <3> QED
        BY <1>3, <1>5, <2>2, <2>4, <3>1, <3>2 DEF ImportInv, AloneOK
    <2> QED
      BY <2>3, <2>5 DEF ImportInv
  <1>7. ASSUME NEW s \in Identical(d),
               req' = [req EXCEPT ![r] = [Idle EXCEPT !.at = "commit", !.deck = d,
                        !.bundle = TRUE, !.restore = s]]
        PROVE  ImportInv'
    <2> DEFINE m == [Idle EXCEPT !.at = "commit", !.deck = d,
                        !.bundle = TRUE, !.restore = s]
    <2>1. s \in Sets /\ sets[s].title = d
      BY DEF Identical
    <2>2. /\ m \in Local /\ m.at = "commit" /\ m.deck = d /\ m.bundle = TRUE
          /\ m.restore = s /\ m.made = {} /\ m.left = <<>>
      BY <1>2, <2>1, IdleFacts, ZenonT(30) DEF Local, Places
    <2>3. req' = [req EXCEPT ![r] = m]
      BY <1>7
    <2> HIDE DEF m
    <2>4. req'[r] = m /\ \A q \in Requests \ {r} : req'[q] = req[q]
      BY <2>3 DEF ImportInv, ImportTypeOK
    <2>5. ImportTypeOK'
      BY <1>1, <1>3, <2>2, <2>3 DEF ImportInv, ImportTypeOK, content, bounds
    <2>6. MadeOK'
      BY <1>1, <2>2, <2>4 DEF ImportInv, MadeOK, content
    <2>7. sets[s].is # "none"
      BY <1>2, <2>1, ImportAssumption DEF ImportInv, SetsOK, NoSet
    <2>8. s # None
      BY <2>1, ImportAssumption
    <2>9. PlaceOK(r)' /\ ~Filling(r)'
      BY <1>1, <1>2, <2>2, <2>4, <2>7, <2>8 DEF PlaceOK, Filling, content
    <2>10. OwnOK(r)'
      BY <2>9 DEF OwnOK
    <2>11. Stepped(r)
      BY <1>1, <2>4, <2>5, <2>6, <2>10, Unmoved DEF Stepped, content
    <2>12. /\ SetsOK' /\ OneSetPerBundle' /\ FillOK'
      BY <1>1, <1>3, <2>11, SetsUnchanged DEF content
    <2>13. AloneOK'
      <3>1. \A q \in Requests \ {r} : req'[q] = req[q] /\ (Filling(q)' <=> Filling(q))
        BY <2>4 DEF Filling
      <3>2. sets' = sets
        BY <1>1 DEF content
      <3> QED
        BY <1>3, <1>5, <2>2, <2>4, <2>9, <3>1, <3>2 DEF ImportInv, AloneOK
    <2> QED
      BY <2>5, <2>6, <2>12, <2>13 DEF ImportInv
  <1> QED
    BY <1>6, <1>7 DEF StartBundle

-----------------------------------------------------------------------------
(***************************************************************************)
(* The end of an import.                                                   *)
(***************************************************************************)
LEMMA CardinalityOfInterval ==
    ASSUME NEW k \in Nat
    PROVE  Cardinality(1..k) = k
  <1>1. Cardinality(1..k) = IF 1 > k THEN 0 ELSE k - 1 + 1
    BY FS_Interval
  <1>2. CASE k = 0
    BY <1>1, <1>2
  <1>3. CASE k # 0
    BY <1>1, <1>3
  <1> QED
    BY <1>2, <1>3

\* The n-th of the numbers up to k is n.
LEMMA NthOfInterval ==
    ASSUME NEW k \in Nat, NEW n \in 1..k
    PROVE  Nth(n, 1..k) = n
  <1>1. ASSUME NEW m \in 1..k
        PROVE  Cardinality({j \in 1..k : j <= m}) = m
    <2>1. {j \in 1..k : j <= m} = 1..m
      OBVIOUS
    <2>2. m \in Nat
      OBVIOUS
    <2> QED
      BY <2>1, <2>2, CardinalityOfInterval
  <1>2. \E m \in 1..k : Cardinality({j \in 1..k : j <= m}) = n
    BY <1>1
  <1>3. /\ Nth(n, 1..k) \in 1..k
        /\ Cardinality({j \in 1..k : j <= Nth(n, 1..k)}) = n
    BY <1>2 DEF Nth
  <1> QED
    BY <1>1, <1>3

\* What HasItsCards says of a set that a step makes.
NewSetComplete(s) ==
    LET rows == sets'[s].rows
        d    == sets'[s].title
    IN  /\ \A m, n \in DOMAIN rows : rows[m] = rows[n] => m = n
        /\ {items'[i].hash : i \in ToSet(rows)} = ToSet(DeckHashes[d])
        /\ \A i \in ToSet(rows) : items[i].is = "new" =>
              items'[i].is = "live" /\ i \in translated'
        /\ sets'[s].bundle /\ (\A i \in ToSet(rows) : LiveItem(i)')
              => ExportSet(s)' = DeckHashes[d]

\* A set is deleted or restored.
LEMMA SetMarked ==
    ASSUME ImportTypeOK, NEW s \in Sets, NEW v \in {"live", "deleted"},
           sets' = [sets EXCEPT ![s].is = v]
    PROVE  sets' \in [Sets -> SetRow]
  <1>1. sets \in [Sets -> SetRow]
    BY DEF ImportTypeOK
  <1>2. [sets[s] EXCEPT !.is = v] \in SetRow
    BY <1>1 DEF SetRow
  <1>3. sets' = [sets EXCEPT ![s] = [sets[s] EXCEPT !.is = v]]
    OBVIOUS
  <1> QED
    BY <1>1, <1>2, <1>3

\* After the step the invariant holds, and what it made is complete.
Well ==
    /\ ImportInv'
    /\ \A s \in Sets : sets[s].is = "none" /\ sets'[s].is = "live"
                          => NewSetComplete(s)

\* Rows in order, all live, are exported in order.
LEMMA ExportInOrder ==
    ASSUME NEW s \in Sets, sets'[s].rows \in Seq(Items),
           NEW cards \in Seq(Hashes), Len(cards) <= MaxCards,
           Len(sets'[s].rows) = Len(cards),
           \A n \in 1..Len(cards) : /\ items'[sets'[s].rows[n]].hash = cards[n]
                                    /\ items'[sets'[s].rows[n]].is = "live"
    PROVE  ExportSet(s)' = cards
  <1> DEFINE rows == sets'[s].rows
             k == Len(cards)
  <1>1. k \in Nat /\ DOMAIN rows = 1..k
    OBVIOUS
  <1>2. cards = [n \in 1..k |-> cards[n]]
    OBVIOUS
  <1> DEFINE live == {n \in DOMAIN rows : items'[rows[n]].is = "live"}
  <1>3. live = 1..k
    BY <1>1
  <1>4. Cardinality(live) = k
    BY <1>1, <1>3, CardinalityOfInterval
  <1>5. SetItems(s)' = [n \in 1..Cardinality(live) |-> rows[Nth(n, live)]]
    BY DEF SetItems, LiveItem
  <1>6. SetItems(s)' = [n \in 1..k |-> rows[n]]
    <2>1. \A n \in 1..k : Nth(n, live) = n
      BY <1>1, <1>3, NthOfInterval
    <2> QED
      BY <1>4, <1>5, <2>1
  <1> DEFINE list == [n \in DOMAIN SetItems(s)' |-> items'[SetItems(s)'[n]].hash]
  <1>7. list = cards
    BY <1>2, <1>6
  <1>8. ExportSet(s)' = IF Len(list) > MaxCards THEN SubSeq(list, 1, MaxCards) ELSE list
    BY DEF ExportSet
  <1>9. ~(Len(cards) > MaxCards)
    BY <1>1, ImportAssumption
  <1> QED
    BY <1>7, <1>8, <1>9

LEMMA CommitSetStep ==
    ASSUME ImportInv, NEW r \in Requests, At(r, "commit"), req[r].restore = None,
           CommitSet(r),
           NEW m \in Local, req' = [req EXCEPT ![r] = m],
           ~m.bundle, m.made = {}, m.restore = None,
           m.at = "idle" \/ (m.at = "forget" /\ m.deck \in Decks),
           UNCHANGED <<preview, overlapped, faults, edits>>
    PROVE  Well
  <1> DEFINE l == req[r]
             d == l.deck
             rows == l.rows
  <1>1. Filling(r) /\ l.at = "commit"
    BY DEF Filling, At
  <1>2. /\ l \in Local /\ rows \in Seq(Items) /\ l.left = <<>>
        /\ d \in Decks /\ (l.bundle => d \in Bundles)
        /\ l.made \subseteq Items /\ l.added \subseteq Items
        /\ l.bundle \in BOOLEAN /\ l.owner \in Users \union {None}
    BY <1>1, FillingFacts DEF PlaceOK, Local
  <1>3. LinkedOK(r) /\ DOMAIN rows = 1..Len(rows)
    BY <1>1, <1>2, FillingFacts
  <1>4. PICK s \in Sets :
          /\ sets[s].is = "none"
          /\ sets' = [sets EXCEPT ![s] = [is |-> "live", title |-> d,
                        owner |-> l.owner, rows |-> rows, bundle |-> l.bundle]]
    BY DEF CommitSet
  <1>5. /\ items' = [i \in Items |-> IF i \in l.made
                                     THEN [items[i] EXCEPT !.is = "live"]
                                     ELSE items[i]]
        /\ translated' = translated \union l.added
    BY DEF CommitSet
  <1>6. /\ sets'[s].is = "live" /\ sets'[s].title = d /\ sets'[s].rows = rows
        /\ sets'[s].bundle = l.bundle
        /\ \A t \in Sets \ {s} : sets'[t] = sets[t]
    BY <1>4 DEF ImportInv, ImportTypeOK
  <1>7. \A i \in Items : /\ items'[i].hash = items[i].hash
                         /\ i \in l.made => items'[i].is = "live"
                         /\ i \notin l.made => items'[i].is = items[i].is
    BY <1>5 DEF ImportInv, ImportTypeOK, ItemRow
  <1>8. req'[r] = m /\ \A q \in Requests \ {r} : req'[q] = req[q]
    BY DEF ImportInv, ImportTypeOK
  <1>9. ImportTypeOK'
    <2>1. items' \in [Items -> ItemRow]
      BY <1>5 DEF ImportInv, ImportTypeOK, ItemRow
    <2>2. sets' \in [Sets -> SetRow]
      BY <1>2, <1>4 DEF ImportInv, ImportTypeOK, SetRow
    <2>3. req' \in [Requests -> Local]
      BY DEF ImportInv, ImportTypeOK
    <2> QED
      BY <1>2, <1>5, <2>1, <2>2, <2>3 DEF ImportInv, ImportTypeOK
  <1>10. \A i \in Items : Committed(i) => i \notin l.made /\ Committed(i)'
    BY <1>7 DEF ImportInv, MadeOK, Committed
  <1>11. ASSUME NEW own, own \subseteq Items
         PROVE  ContentKept(own)
    BY <1>4, <1>5, <1>6, <1>7, <1>10, <1>11 DEF ContentKept
  <1>12. \A q \in Requests : req[q].made \subseteq Items
    BY DEF ImportInv, ImportTypeOK, Local
  <1>13. MadeOK'
    BY <1>7, <1>8, <1>12 DEF ImportInv, MadeOK
  <1>14. OwnOK(r)' /\ ~Filling(r)'
    BY <1>8 DEF OwnOK, PlaceOK, Filling
  <1>15. Stepped(r)
    BY <1>8, <1>9, <1>11, <1>12, <1>13, <1>14 DEF Stepped
  <1>16. FillOK'
    BY <1>15, FillKept
  <1>17. \A n \in 1..Len(rows) :
            /\ rows[n] \in Items /\ items'[rows[n]].is \in {"live", "deleted"}
            /\ rows[n] \in l.made => rows[n] \in translated'
    <2> SUFFICES ASSUME NEW n \in 1..Len(rows)
                 PROVE  /\ rows[n] \in Items
                        /\ items'[rows[n]].is \in {"live", "deleted"}
                        /\ rows[n] \in l.made => rows[n] \in translated'
      OBVIOUS
    <2>1. /\ rows[n] \in Usable(r)
          /\ rows[n] \in l.made => rows[n] \in translated \union l.added
      BY <1>3 DEF LinkedOK
    <2>2. rows[n] \in Items /\ (Committed(rows[n]) \/ rows[n] \in l.made)
      BY <2>1 DEF Usable
    <2>3. items'[rows[n]].is \in {"live", "deleted"}
      BY <1>7, <2>2 DEF Committed
    <2> QED
      BY <1>5, <2>1, <2>2, <2>3 DEF Committed
  <1>18. ASSUME l.bundle
         PROVE  /\ Len(rows) = Len(DeckHashes[d])
                /\ \A n \in 1..Len(rows) : items'[rows[n]].hash = DeckHashes[d][n]
    <2>1. Counted(r)
      BY <1>1, <1>18, FillingFacts
    <2>2. Len(l.left) = 0
      BY <1>2, EmptyFacts
    <2>3. Len(rows) + Len(l.left) = Len(DeckHashes[d])
      BY <2>1 DEF Counted
    <2>4. Len(rows) \in Nat
      BY <1>2
    <2>5. Len(rows) = Len(DeckHashes[d])
      BY <2>2, <2>3, <2>4
    <2> QED
      BY <1>7, <1>17, <2>1, <2>5 DEF Counted
  <1>19. SetsOK'
    <2>1. ASSUME NEW t \in Sets, sets'[t].is = "none"
          PROVE  sets'[t] = NoSet
      BY <1>6, <2>1 DEF ImportInv, SetsOK
    <2>2. ASSUME NEW t \in Sets, sets'[t].bundle
          PROVE  sets'[t].title \in Bundles
                 /\ InOrder(sets[t].rows, DeckHashes[sets[t].title])'
      <3>1. CASE t = s
        <4>1. l.bundle /\ d \in Bundles
          BY <1>2, <1>6, <2>2, <3>1
        <4>2. /\ Len(rows) = Len(DeckHashes[d])
              /\ \A n \in 1..Len(rows) :
                    /\ items'[rows[n]].is \in {"live", "deleted"}
                    /\ items'[rows[n]].hash = DeckHashes[d][n]
          BY <1>17, <1>18, <4>1
        <4>3. sets'[t].rows = rows /\ sets'[t].title = d
          BY <1>6, <3>1
        <4> QED
          BY <4>1, <4>2, <4>3 DEF InOrder, Committed
      <3>2. CASE t # s
        <4>1. /\ sets[t].title \in Bundles
              /\ InOrder(sets[t].rows, DeckHashes[sets[t].title])
              /\ sets'[t] = sets[t]
          BY <1>6, <2>2, <3>2 DEF ImportInv, SetsOK
        <4> DEFINE cards == DeckHashes[sets[t].title]
        <4>2. sets[t].rows \in Seq(Items) /\ DOMAIN sets[t].rows = 1..Len(sets[t].rows)
          BY DEF ImportInv, ImportTypeOK, SetRow
        <4>3. \A n \in 1..Len(cards) :
                 /\ items'[sets[t].rows[n]].is \in {"live", "deleted"}
                 /\ items'[sets[t].rows[n]].hash = cards[n]
          BY <1>7, <1>10, <4>1, <4>2 DEF InOrder, Committed
        <4> QED
          BY <4>1, <4>3 DEF InOrder, Committed
      <3> QED
        BY <3>1, <3>2
    <2> QED
      BY <2>1, <2>2 DEF SetsOK
  <1>20. AloneOK'
    <2>1. \A q \in Requests \ {r} : Filling(q)' <=> Filling(q)
      BY <1>8 DEF Filling
    <2>2. ASSUME NEW q \in Requests \ {r}, Filling(q), req[q].bundle,
                 req[q].deck \notin overlapped, NEW t \in Sets, sets'[t].bundle
          PROVE  sets'[t].title # req[q].deck
      BY <1>6, <2>2 DEF ImportInv, AloneOK
    <2> QED
      BY <1>8, <1>14, <2>1, <2>2 DEF ImportInv, AloneOK
  <1>21. OneSetPerBundle'
    <2>1. ASSUME NEW t \in Sets \ {s}, sets[t].bundle, l.bundle, sets[t].title = d
          PROVE  d \in overlapped
      BY <1>1, <2>1 DEF ImportInv, AloneOK
    <2> QED
      BY <1>6, <2>1 DEF ImportInv, OneSetPerBundle
  <1>22. NewSetComplete(s)
    <2>1. \A k, n \in DOMAIN rows : rows[k] = rows[n] => k = n
      BY <1>3 DEF LinkedOK
    <2>2. {items'[i].hash : i \in ToSet(rows)} = ToSet(DeckHashes[d])
      <3>1. ToSet(l.left) = {}
        BY <1>2, EmptyFacts
      <3>2. {items[i].hash : i \in ToSet(rows)} = ToSet(DeckHashes[d])
        BY <1>3, <3>1 DEF LinkedOK
      <3>3. \A i \in ToSet(rows) : items'[i].hash = items[i].hash
        BY <1>3, <1>7, <1>17 DEF ToSet
      <3> QED
        BY <3>2, <3>3, SameHashes
    <2>3. \A i \in ToSet(rows) : items[i].is = "new" =>
              items'[i].is = "live" /\ i \in translated'
      <3> SUFFICES ASSUME NEW n \in 1..Len(rows), items[rows[n]].is = "new"
                   PROVE  items'[rows[n]].is = "live" /\ rows[n] \in translated'
        BY <1>3 DEF ToSet
      <3>1. rows[n] \in l.made
        BY <1>3 DEF LinkedOK, Usable, Committed
      <3> QED
        BY <1>7, <1>17, <3>1
    <2>4. ASSUME l.bundle, \A i \in ToSet(rows) : LiveItem(i)'
          PROVE  ExportSet(s)' = DeckHashes[d]
      <3>1. DeckHashes[d] \in Seq(Hashes) /\ Len(DeckHashes[d]) \in 1..MaxCards
        BY <1>2, <2>4, DeckAssumption
      <3>2. \A n \in 1..Len(rows) : items'[rows[n]].is = "live"
        BY <1>3, <2>4 DEF ToSet, LiveItem
      <3>3. Len(DeckHashes[d]) <= MaxCards
        BY <3>1, ImportAssumption
      <3> QED
        <4>1. /\ Len(rows) = Len(DeckHashes[d])
              /\ \A n \in 1..Len(rows) : items'[rows[n]].hash = DeckHashes[d][n]
          BY <1>18, <2>4
        <4>2. sets'[s].rows = rows
          BY <1>6
        <4> HIDE DEF rows, d
        <4> QED
          BY <1>2, <3>1, <3>2, <3>3, <4>1, <4>2, ExportInOrder
    <2> QED
      BY <1>6, <2>1, <2>2, <2>3, <2>4 DEF NewSetComplete
  <1>23. \A t \in Sets : sets[t].is = "none" /\ sets'[t].is = "live" => t = s
    BY <1>6
  <1> QED
    BY <1>9, <1>13, <1>16, <1>19, <1>20, <1>21, <1>22, <1>23 DEF ImportInv, Well

LEMMA CommitStep ==
    ASSUME ImportInv, NEW r \in Requests, Commit(r)
    PROVE  Well
  <1> DEFINE l == req[r]
  <1>1. /\ l.at = "commit" /\ UNCHANGED <<preview, overlapped, edits>>
    BY DEF Commit, At
  <1>2. l \in Local /\ PlaceOK(r) /\ l.deck \in Decks /\ l.bundle \in BOOLEAN
    BY <1>1 DEF ImportInv, ImportTypeOK, FillOK, OwnOK, PlaceOK, Local
  <1>3. CASE /\ l.restore = None
             /\ CommitSet(r)
             /\ req' = [req EXCEPT ![r] = IF req[r].bundle THEN Idle
                   ELSE [Idle EXCEPT !.at = "forget", !.deck = req[r].deck]]
             /\ UNCHANGED faults
    <2> DEFINE m == IF l.bundle THEN Idle
                    ELSE [Idle EXCEPT !.at = "forget", !.deck = l.deck]
    <2>1. /\ m \in Local /\ ~m.bundle /\ m.made = {} /\ m.restore = None
          /\ m.at = "idle" \/ (m.at = "forget" /\ m.deck \in Decks)
      <3>1. CASE l.bundle
        BY <3>1, IdleFacts
      <3>2. CASE ~l.bundle
        <4> DEFINE n == [Idle EXCEPT !.at = "forget", !.deck = l.deck]
        <4>1. /\ n \in Local /\ ~n.bundle /\ n.made = {} /\ n.restore = None
              /\ n.at = "forget" /\ n.deck = l.deck
          BY <1>2, IdleFacts, ZenonT(30) DEF Local, Places
        <4> HIDE DEF n
        <4>2. m = n
          BY <3>2 DEF n
        <4> QED
          BY <1>2, <4>1, <4>2
      <3> QED
        BY <1>2, <3>1, <3>2
    <2>2. req' = [req EXCEPT ![r] = m]
      BY <1>3
    <2> HIDE DEF m
    <2> QED
      BY <1>1, <1>3, <2>1, <2>2, CommitSetStep DEF At
  <1>4. CASE /\ l.restore # None
             /\ RestoreSet(r)
             /\ req' = [req EXCEPT ![r] = Idle]
             /\ UNCHANGED faults
    <2> DEFINE s == l.restore
    <2>1. s \in Sets /\ sets[s].is # "none" /\ l.made = {}
      BY <1>2, <1>4 DEF PlaceOK, Local
    <2>2. /\ sets' = [sets EXCEPT ![s].is = "live"]
          /\ items' = items /\ translated' = translated
      BY <1>4 DEF RestoreSet
    <2>3. /\ sets'[s].is = "live" /\ sets'[s].bundle = sets[s].bundle
          /\ sets'[s].title = sets[s].title /\ sets'[s].rows = sets[s].rows
          /\ \A t \in Sets \ {s} : sets'[t] = sets[t]
      BY <2>1, <2>2 DEF ImportInv, ImportTypeOK, SetRow
    <2>4. req'[r] = Idle /\ \A q \in Requests \ {r} : req'[q] = req[q]
      BY <1>4 DEF ImportInv, ImportTypeOK
    <2>5. ImportTypeOK'
      <3>1. sets' \in [Sets -> SetRow]
        BY <2>1, <2>2, SetMarked DEF ImportInv
      <3>2. req' \in [Requests -> Local]
        BY <1>4, IdleFacts DEF ImportInv, ImportTypeOK
      <3> QED
        BY <1>1, <1>4, <2>2, <3>1, <3>2 DEF ImportInv, ImportTypeOK
    <2>6. MadeOK'
      BY <2>2, <2>4, IdleFacts DEF ImportInv, MadeOK
    <2>7. \A own : ContentKept(own)
      BY <2>1, <2>2, <2>3 DEF ContentKept, Committed
    <2>8. OwnOK(r)' /\ ~Filling(r)'
      BY <2>4, IdleFacts DEF OwnOK, PlaceOK, Filling
    <2>9. Stepped(r)
      BY <2>4, <2>5, <2>6, <2>7, <2>8 DEF Stepped
    <2>10. \A q \in Requests : Follows(q)
      BY <2>4, <2>8, IdleFacts DEF Follows, Filling
    <2>11. ImportInv'
      <3>1. FillOK'
        BY <2>9, FillKept
      <3>2. \A t \in Sets : \/ sets'[t] = sets[t]
                            \/ /\ sets[t].is # "none" /\ sets'[t].is # "none"
                               /\ sets'[t].bundle = sets[t].bundle
                               /\ sets'[t].title = sets[t].title
                               /\ sets'[t].rows = sets[t].rows
        BY <2>1, <2>3
      <3> QED
        BY <1>1, <2>5, <2>6, <2>7, <2>10, <3>1, <3>2, NoNewSet
    <2>12. \A t \in Sets : ~(sets[t].is = "none" /\ sets'[t].is = "live")
      BY <2>1, <2>3
    <2> QED
      BY <2>11, <2>12 DEF Well
  <1>5. CASE Fault /\ Rollback(r) /\ UNCHANGED <<translated, sets>>
    <2>1. faults' \in 0..MaxFaults
      BY <1>5, ImportAssumption DEF Fault, ImportInv, ImportTypeOK
    <2>2. ImportInv'
      BY <1>1, <1>5, <2>1, RollbackStep
    <2> QED
      BY <1>5, <2>2 DEF Well
  <1> QED
    BY <1>3, <1>4, <1>5 DEF Commit

\* A step that makes no set has nothing to complete.
LEMMA WellWithout ==
    ASSUME ImportInv', sets' = sets
    PROVE  Well
  BY DEF Well

LEMMA ForgetStep ==
    ASSUME ImportInv, NEW r \in Requests, Forget(r)
    PROVE  Well
  <1>1. /\ req[r].at = "forget" /\ req' = [req EXCEPT ![r] = Idle]
        /\ preview' = [preview EXCEPT ![req[r].deck] =
                          IF @ = "stored" THEN "forgotten" ELSE @]
        /\ UNCHANGED <<content, overlapped, bounds>>
    BY DEF Forget, At
  <1> USE DEF content, bounds
  <1>2. req'[r] = Idle /\ \A q \in Requests \ {r} : req'[q] = req[q]
    BY <1>1 DEF ImportInv, ImportTypeOK
  <1>3. ImportTypeOK'
    <2>1. preview' \in [Anki -> {"none", "stored", "expired", "forgotten"}]
      BY <1>1 DEF ImportInv, ImportTypeOK
    <2>2. req' \in [Requests -> Local]
      BY <1>1, IdleFacts DEF ImportInv, ImportTypeOK
    <2> QED
      BY <1>1, <2>1, <2>2 DEF ImportInv, ImportTypeOK
  <1>4. MadeOK'
    BY <1>1, <1>2, IdleFacts DEF ImportInv, MadeOK
  <1>5. OwnOK(r)' /\ ~Filling(r)'
    BY <1>2, IdleFacts DEF OwnOK, PlaceOK, Filling
  <1>6. Stepped(r)
    BY <1>1, <1>2, <1>3, <1>4, <1>5, Unmoved DEF Stepped
  <1>7. Follows(r)
    BY <1>2, <1>5, IdleFacts DEF Follows
  <1> QED
    BY <1>1, <1>6, <1>7, RequestStep, WellWithout

\* The process stops: what was not committed is gone.
LEMMA CrashStep ==
    ASSUME ImportInv, Crash
    PROVE  Well
  <1>1. /\ req' = [r \in Requests |-> Idle]
        /\ items' = [i \in Items |-> IF items[i].is = "new" THEN NoItem ELSE items[i]]
        /\ UNCHANGED <<translated, sets, preview, overlapped, edits>>
    BY DEF Crash
  <1>2. ImportTypeOK'
    <2>1. faults' \in 0..MaxFaults
      BY ImportAssumption DEF Crash, Fault, ImportInv, ImportTypeOK
    <2>2. items' \in [Items -> ItemRow]
      BY <1>1 DEF ImportInv, ImportTypeOK, ItemRow, NoItem
    <2>3. req' \in [Requests -> Local]
      BY <1>1, IdleFacts
    <2> QED
      BY <1>1, <2>1, <2>2, <2>3 DEF ImportInv, ImportTypeOK
  <1>3. \A r \in Requests : req'[r] = Idle
    BY <1>1
  <1>4. MadeOK'
    BY <1>3, IdleFacts DEF MadeOK
  <1>5. FillOK'
    BY <1>3, IdleFacts DEF FillOK, OwnOK, PlaceOK, Filling
  <1>6. \A r \in Requests : Follows(r)
    BY <1>3, IdleFacts DEF Follows, Filling
  <1>7. ContentKept({})
    BY <1>1 DEF ContentKept, Committed
  <1> QED
    BY <1>1, <1>2, <1>4, <1>5, <1>6, <1>7, NoNewSet, WellWithout

-----------------------------------------------------------------------------
(***************************************************************************)
(* What users do to the content, and the previews.                         *)
(***************************************************************************)
\* Sets may be deleted, and committed items; what is new is left alone, and so
\* are the requests.
LEMMA ContentStep ==
    ASSUME ImportInv, ImportTypeOK', req' = req, overlapped' = overlapped,
           \A i \in Items : /\ items'[i].hash = items[i].hash
                            /\ \/ items'[i].is = items[i].is
                               \/ items[i].is = "live" /\ items'[i].is = "deleted",
           \A i \in Items : items[i].is = "new" /\ i \in translated
                               => i \in translated',
           \A s \in Sets : \/ sets'[s] = sets[s]
                           \/ sets[s].is = "live"
                              /\ sets'[s] = [sets[s] EXCEPT !.is = "deleted"]
    PROVE  Well
  <1>1. MadeOK'
    <2>1. \A r \in Requests : req[r].made \subseteq Items
      BY DEF ImportInv, ImportTypeOK, Local
    <2>2. \A i \in Items : items[i].is = "new" => items'[i].is = "new"
      OBVIOUS
    <2> QED
      BY <2>1, <2>2 DEF ImportInv, MadeOK
  <1>2. \A s \in Sets : \/ sets'[s] = sets[s]
                        \/ /\ sets[s].is = "live" /\ sets'[s].is = "deleted"
                           /\ sets'[s].bundle = sets[s].bundle
                           /\ sets'[s].title = sets[s].title
                           /\ sets'[s].rows = sets[s].rows
    BY DEF ImportInv, ImportTypeOK, SetRow
  <1>3. ASSUME NEW own, own \subseteq Items, \A i \in own : items[i].is = "new"
        PROVE  ContentKept(own)
    BY <1>2, <1>3 DEF ContentKept, Committed
  <1>4. \A r \in Requests : ContentKept(req[r].made)
    <2>1. \A r \in Requests : req[r].made \subseteq Items
      BY DEF ImportInv, ImportTypeOK, Local
    <2> QED
      BY <1>3, <2>1 DEF ImportInv, MadeOK
  <1>5. FillOK'
    BY <1>4, OwnKept DEF ImportInv, FillOK
  <1>6. ContentKept({})
    BY <1>3
  <1>7. \A r \in Requests : Follows(r)
    BY DEF Follows, Filling
  <1>8. ImportInv'
    <2>1. \A s \in Sets : \/ sets'[s] = sets[s]
                          \/ /\ sets[s].is # "none" /\ sets'[s].is # "none"
                             /\ sets'[s].bundle = sets[s].bundle
                             /\ sets'[s].title = sets[s].title
                             /\ sets'[s].rows = sets[s].rows
      BY <1>2
    <2> QED
      BY <1>1, <1>5, <1>6, <1>7, <2>1, NoNewSet
  <1> QED
    BY <1>2, <1>8 DEF Well

LEMMA EditsBound ==
    ASSUME ImportInv, Edit
    PROVE  edits' \in 0..MaxEdits
  BY ImportAssumption DEF ImportInv, ImportTypeOK, Edit

LEMMA DeleteItemStep ==
    ASSUME ImportInv, NEW i \in Items, DeleteItem(i)
    PROVE  Well
  <1>1. /\ items[i].is = "live" /\ Edit
        /\ UNCHANGED <<translated, sets, preview, req, overlapped, faults>>
    BY DEF DeleteItem, LiveItem
  <1>2. \/ items' = [items EXCEPT ![i].owner = None]
        \/ items' = [items EXCEPT ![i].is = "deleted"]
    BY DEF DeleteItem
  <1>3. ImportTypeOK'
    BY <1>1, <1>2, EditsBound DEF ImportInv, ImportTypeOK, ItemRow
  <1>4. \A j \in Items : /\ items'[j].hash = items[j].hash
                         /\ \/ items'[j].is = items[j].is
                            \/ items[j].is = "live" /\ items'[j].is = "deleted"
    BY <1>1, <1>2 DEF ImportInv, ImportTypeOK, ItemRow
  <1> QED
    BY <1>1, <1>3, <1>4, ContentStep

LEMMA DeleteSetStep ==
    ASSUME ImportInv, NEW s \in Sets, DeleteSet(s)
    PROVE  Well
  <1>1. /\ sets[s].is = "live" /\ Edit
        /\ sets' = [sets EXCEPT ![s].is = "deleted"]
        /\ items' = [i \in Items |->
              IF LiveItem(i) /\ items[i].owner = sets[s].owner /\ InSets(i) = {s}
                THEN [items[i] EXCEPT !.is = "deleted"]
                ELSE items[i]]
        /\ UNCHANGED <<translated, preview, req, overlapped, faults>>
    BY DEF DeleteSet
  <1>2. ImportTypeOK'
    <2>1. items' \in [Items -> ItemRow]
      BY <1>1 DEF ImportInv, ImportTypeOK, ItemRow
    <2>2. sets' \in [Sets -> SetRow]
      BY <1>1, SetMarked DEF ImportInv
    <2> QED
      BY <1>1, <2>1, <2>2, EditsBound DEF ImportInv, ImportTypeOK
  <1>3. \A j \in Items : /\ items'[j].hash = items[j].hash
                         /\ \/ items'[j].is = items[j].is
                            \/ items[j].is = "live" /\ items'[j].is = "deleted"
    BY <1>1 DEF LiveItem, ImportInv, ImportTypeOK, ItemRow
  <1>4. \A t \in Sets : \/ sets'[t] = sets[t]
                        \/ /\ sets[t].is = "live"
                           /\ sets'[t] = [sets[t] EXCEPT !.is = "deleted"]
    BY <1>1 DEF ImportInv, ImportTypeOK
  <1> QED
    BY <1>1, <1>2, <1>3, <1>4, ContentStep

LEMMA RemoveSetStep ==
    ASSUME ImportInv, NEW s \in Sets, RemoveSet(s)
    PROVE  Well
  <1>1. /\ sets[s].is = "live" /\ Edit
        /\ sets' = [sets EXCEPT ![s].is = "deleted"]
        /\ UNCHANGED <<items, translated, preview, req, overlapped, faults>>
    BY DEF RemoveSet
  <1>2. ImportTypeOK'
    <2>1. sets' \in [Sets -> SetRow]
      BY <1>1, SetMarked DEF ImportInv
    <2> QED
      BY <1>1, <2>1, EditsBound DEF ImportInv, ImportTypeOK
  <1>3. \A t \in Sets : \/ sets'[t] = sets[t]
                        \/ /\ sets[t].is = "live"
                           /\ sets'[t] = [sets[t] EXCEPT !.is = "deleted"]
    BY <1>1 DEF ImportInv, ImportTypeOK
  <1> QED
    BY <1>1, <1>2, <1>3, ContentStep

LEMMA TranslationSteps ==
    ASSUME ImportInv, NEW i \in Items, TranslateItem(i) \/ DeleteTranslation(i)
    PROVE  Well
  <1>1. /\ items[i].is = "live" /\ Edit
        /\ translated' = translated \union {i} \/ translated' = translated \ {i}
        /\ UNCHANGED <<items, sets, preview, req, overlapped, faults>>
    BY DEF TranslateItem, DeleteTranslation, LiveItem
  <1>2. ImportTypeOK'
    BY <1>1, EditsBound DEF ImportInv, ImportTypeOK
  <1>3. \A j \in Items : items[j].is = "new" /\ j \in translated => j \in translated'
    BY <1>1
  <1> QED
    BY <1>1, <1>2, <1>3, ContentStep

LEMMA PreviewSteps ==
    ASSUME ImportInv, NEW d \in Anki, StorePreview(d) \/ PreviewExpires(d)
    PROVE  Well
  <1>1. /\ preview' \in [Anki -> {"none", "stored", "expired", "forgotten"}]
        /\ UNCHANGED <<content, req, overlapped, bounds>>
    BY DEF StorePreview, PreviewExpires, ImportInv, ImportTypeOK
  <1>2. ImportTypeOK'
    BY <1>1 DEF ImportInv, ImportTypeOK, content, bounds
  <1> QED
    BY <1>1, <1>2, ContentStep DEF content

-----------------------------------------------------------------------------
(***************************************************************************)
(* Theorems.                                                               *)
(***************************************************************************)
LEMMA ImportInit == Init => ImportInv
  <1> SUFFICES ASSUME Init PROVE ImportInv
    OBVIOUS
  <1> USE DEF Init
  <1>1. ImportTypeOK
    <2>1. NoItem \in ItemRow /\ NoSet \in SetRow
      BY DEF NoItem, ItemRow, NoSet, SetRow
    <2> QED
      BY <2>1, IdleFacts, ImportAssumption DEF ImportTypeOK
  <1>2. SetsOK /\ OneSetPerBundle
    BY DEF SetsOK, OneSetPerBundle, NoSet
  <1>3. MadeOK /\ FillOK /\ AloneOK
    BY IdleFacts DEF MadeOK, FillOK, OwnOK, PlaceOK, Filling, AloneOK
  <1> QED
    BY <1>1, <1>2, <1>3 DEF ImportInv

LEMMA ImportStep == ImportInv /\ [Next]_vars => Well
  <1> SUFFICES ASSUME ImportInv, [Next]_vars PROVE Well
    OBVIOUS
  <1>1. CASE UNCHANGED vars
    <2>1. ImportTypeOK'
      BY <1>1 DEF ImportInv, ImportTypeOK, vars, content, bounds
    <2> QED
      BY <1>1, <2>1, ContentStep DEF vars, content
  <1>2. ASSUME NEW d \in Anki,
               \/ StorePreview(d) \/ PreviewExpires(d)
               \/ \E r \in Requests : ConfirmImport(r, d)
        PROVE  Well
    <2>1. ASSUME NEW r \in Requests, ConfirmImport(r, d)
          PROVE  Well
      BY <2>1, ConfirmStep, WellWithout DEF ConfirmImport, OnlyReq, OnlyItems
    <2> QED
      BY <1>2, <2>1, PreviewSteps
  <1>3. ASSUME NEW r \in Requests, NEW d \in Bundles,
               ImportBundle(r, d) \/ ImportOfficial(r, d) \/ SeedOfficial(r, d)
        PROVE  Well
    <2>1. UserOf[r] \in Users
      BY ImportAssumption
    <2>2. PICK owner \in Users \union {None} : StartBundle(r, d, owner)
      BY <1>3, <2>1 DEF ImportBundle, ImportOfficial, SeedOfficial
    <2>3. sets' = sets
      BY <2>2 DEF StartBundle, content
    <2> QED
      BY <2>2, <2>3, StartBundleStep, WellWithout
  <1>4. ASSUME NEW r \in Requests, Import(r)
        PROVE  Well
    <2>1. CASE TakeCard(r)
      BY <2>1, TakeCardStep, WellWithout DEF TakeCard, OnlyReq, OnlyItems
    <2>2. CASE LastCard(r)
      BY <2>2, LastCardStep, WellWithout DEF LastCard, OnlyReq, OnlyItems
    <2>3. CASE InsertItem(r)
      BY <2>3, InsertItemStep, WellWithout DEF InsertItem, OnlyItems
    <2>4. CASE InsertClashes(r)
      BY <2>4, InsertClashesStep, WellWithout DEF InsertClashes, OnlyItems
    <2>5. CASE Translate(r)
      BY <2>5, TranslateStep, WellWithout DEF Translate, OnlyItems
    <2>6. CASE AddTranslation(r)
      BY <2>6, AddTranslationStep, WellWithout DEF AddTranslation, OnlyItems
    <2>7. CASE DeadlockAbort(r)
      BY <2>7, RollbackStep, WellWithout
         DEF DeadlockAbort, OnlyItems, bounds, ImportInv, ImportTypeOK
    <2> QED
      BY <1>4, <2>1, <2>2, <2>3, <2>4, <2>5, <2>6, <2>7, CommitStep, ForgetStep
         DEF Import
  <1>5. ASSUME NEW i \in Items,
               DeleteItem(i) \/ TranslateItem(i) \/ DeleteTranslation(i)
        PROVE  Well
    BY <1>5, DeleteItemStep, TranslationSteps
  <1>6. ASSUME NEW s \in Sets, DeleteSet(s) \/ RemoveSet(s)
        PROVE  Well
    BY <1>6, DeleteSetStep, RemoveSetStep
  <1> QED
    BY <1>1, <1>2, <1>3, <1>4, <1>5, <1>6, CrashStep DEF Next

\* Items, sets, previews and requests have their types, whatever overlaps, fails
\* or stops: a request that inserts has a card in hand, and one that restores a
\* set has one to restore.
THEOREM ImportTypeCorrect == Spec => []ImportTypeOK
  <1>1. ImportInv /\ [Next]_vars => ImportInv'
    BY ImportStep DEF Well
  <1>2. ImportInv => ImportTypeOK
    BY DEF ImportInv
  <1> QED
    BY <1>1, <1>2, ImportInit, PTL DEF Spec

\* import_lpset: unless two imports of a bundle overlap, it becomes one set,
\* however often it is imported, deleted, restored or exported.
THEOREM BundleBecomesOneSet == Spec => []OneSetPerBundle
  <1>1. ImportInv /\ [Next]_vars => ImportInv'
    BY ImportStep DEF Well
  <1>2. ImportInv => OneSetPerBundle
    BY DEF ImportInv
  <1> QED
    BY <1>1, <1>2, ImportInit, PTL DEF Spec

\* confirm_import and import_lpset: a set that is committed has every card of
\* its deck once, its new items are live and translated, and a bundle's set is
\* exported as it was imported; whatever other imports and edits interleave.
THEOREM ImportsAreComplete == Spec => HasItsCards
  <1>1. ImportInv /\ [Next]_vars => ImportInv'
    BY ImportStep DEF Well
  <1>2. ImportInv /\ [Next]_vars =>
          [\A s \in Sets : sets[s].is = "none" /\ sets'[s].is = "live" =>
             LET rows == sets'[s].rows
                 d    == sets'[s].title
             IN  /\ \A m, n \in DOMAIN rows : rows[m] = rows[n] => m = n
                 /\ {items'[i].hash : i \in ToSet(rows)} = ToSet(DeckHashes[d])
                 /\ \A i \in ToSet(rows) : items[i].is = "new" =>
                       items'[i].is = "live" /\ i \in translated'
                 /\ sets'[s].bundle /\ (\A i \in ToSet(rows) : LiveItem(i)')
                       => ExportSet(s)' = DeckHashes[d]]_vars
    BY ImportStep DEF Well, NewSetComplete
  <1> QED
    BY <1>1, <1>2, ImportInit, PTL DEF Spec, HasItsCards
-----------------------------------------------------------------------------
(***************************************************************************)
(* The gap of an imported card is the word it asks for, but for capitals:  *)
(* the import takes its term from the first word of the sentence that is a *)
(* form of the note's, and practice finds the same word there or before.   *)
(***************************************************************************)
\* A word has no spaces to strip.
LEMMA NormaliseWord ==
    ASSUME NEW w \in Seq(Letters)
    PROVE  LET kept == Dropping(w, Punctuation)
           IN  Normalise(w) = Strip([n \in DOMAIN kept |-> Plain(kept[n])])
  <1>1. \A k \in 1..Len(w) : w[k] # Space
    BY CharacterAssumption
  <1>2. Strip(w) = w
    BY <1>1, StripNone
  <1>3. Collapse(w) = w
    BY <1>1, CollapseNone
  <1> QED
    BY <1>2, <1>3, Zenon DEF Normalise

\* Texts that are alike symbol by symbol still are when both lose the symbols
\* in S.
LEMMA DroppingAlike ==
    ASSUME NEW T, NEW u \in Seq(T), NEW v \in Seq(T), NEW S, Len(u) = Len(v),
           \A k \in 1..Len(u) : /\ u[k] \in S <=> v[k] \in S
                               /\ Plain(u[k]) = Plain(v[k])
    PROVE  [n \in DOMAIN Dropping(u, S) |-> Plain(Dropping(u, S)[n])]
             = [n \in DOMAIN Dropping(v, S) |-> Plain(Dropping(v, S)[n])]
  <1>1. PICK ru \in [0..Len(u) -> Seq(T \ S)] : Drops(ru, u, S)
    BY DroppingRuns, Zenon
  <1>2. PICK rv \in [0..Len(v) -> Seq(T \ S)] : Drops(rv, v, S)
    BY DroppingRuns, Zenon
  <1> DEFINE N == Len(u)
             Alike(x, y) == /\ Len(x) = Len(y)
                            /\ \A n \in 1..Len(x) : Plain(x[n]) = Plain(y[n])
             Good == {k \in 0..N : Alike(ru[k], rv[k])}
  <1>3. N \in Nat /\ N = Len(v)
    OBVIOUS
  <1> HIDE DEF N
  <1>4. 0 \in Good
    <2>1. ru[0] = <<>> /\ rv[0] = <<>> /\ 0 \in 0..N
      BY <1>1, <1>2, <1>3 DEF Drops
    <2> QED
      BY <2>1
  <1>5. ASSUME NEW k \in 0..N, k \in Good, k < N
        PROVE  k + 1 \in Good
    <2> DEFINE x == ru[k]
               y == rv[k]
               c == u[k + 1]
               d == v[k + 1]
    <2>1. k + 1 \in 1..N /\ k + 1 \in 0..N /\ (k + 1) - 1 = k
      BY <1>3, <1>5
    <2>2. /\ ru[k + 1] = IF c \in S THEN x ELSE Append(x, c)
          /\ rv[k + 1] = IF d \in S THEN y ELSE Append(y, d)
      <3>1. ru[k + 1] = IF c \in S THEN ru[(k + 1) - 1] ELSE Append(ru[(k + 1) - 1], c)
        BY <1>1, <2>1, Zenon DEF Drops, N
      <3>2. rv[k + 1] = IF d \in S THEN rv[(k + 1) - 1] ELSE Append(rv[(k + 1) - 1], d)
        BY <1>2, <1>3, <2>1, Zenon DEF Drops, N
      <3> QED
        BY <2>1, <3>1, <3>2
    <2>3. (c \in S <=> d \in S) /\ Plain(c) = Plain(d) /\ c \in T /\ d \in T
      BY <1>3, <2>1 DEF N
    <2>4. x \in Seq(T \ S) /\ y \in Seq(T \ S) /\ Alike(x, y)
      BY <1>3, <1>5 DEF N
    <2> HIDE DEF x, y, c, d
    <2>5. Alike(ru[k + 1], rv[k + 1])
      <3>1. CASE c \in S
        <4>1. ru[k + 1] = x /\ rv[k + 1] = y
          BY <2>2, <2>3, <3>1
        <4> QED
          BY <2>4, <4>1
      <3>2. CASE c \notin S
        <4>1. ru[k + 1] = Append(x, c) /\ rv[k + 1] = Append(y, d)
          BY <2>2, <2>3, <3>2
        <4>2. /\ Len(Append(x, c)) = Len(x) + 1 /\ Len(Append(y, d)) = Len(y) + 1
              /\ Append(x, c)[Len(x) + 1] = c /\ Append(y, d)[Len(y) + 1] = d
              /\ \A n \in 1..Len(x) : Append(x, c)[n] = x[n]
              /\ \A n \in 1..Len(y) : Append(y, d)[n] = y[n]
              /\ Len(x) \in Nat
          BY <2>3, <2>4, <3>2
        <4>3. ASSUME NEW n \in 1..(Len(x) + 1)
              PROVE  Plain(Append(x, c)[n]) = Plain(Append(y, d)[n])
          <5>1. CASE n = Len(x) + 1
            BY <2>3, <2>4, <4>2, <5>1
          <5>2. CASE n # Len(x) + 1
            <6>1. n \in 1..Len(x) /\ n \in 1..Len(y)
              BY <2>4, <4>2, <5>2
            <6> QED
              BY <2>4, <4>2, <6>1
          <5> QED
            BY <5>1, <5>2
        <4> QED
          BY <2>4, <4>1, <4>2, <4>3
      <3> QED
        BY <3>1, <3>2
    <2> QED
      BY <2>1, <2>5
  <1> HIDE DEF Good
  <1>6. N \in Good
    <2>1. \A k \in 0..N : k \in Good
      BY <1>3, <1>4, <1>5, CountUp
    <2> QED
      BY <1>3, <2>1
  <1> DEFINE x == Dropping(u, S)
             y == Dropping(v, S)
  <1>7. x = ru[N] /\ y = rv[N]
    BY <1>1, <1>2, <1>3 DEF Drops, N
  <1>8. Alike(x, y)
    BY <1>6, <1>7 DEF Good
  <1>9. x \in Seq(T \ S) /\ y \in Seq(T \ S)
    BY DroppingType
  <1> HIDE DEF x, y
  <1>10. DOMAIN x = 1..Len(x) /\ DOMAIN y = 1..Len(x)
    BY <1>8, <1>9
  <1>11. [n \in DOMAIN x |-> Plain(x[n])] = [n \in DOMAIN y |-> Plain(y[n])]
    BY <1>8, <1>10
  <1> QED
    BY <1>11 DEF x, y

LowerCase(c) == IF c \in DOMAIN LowerOf THEN LowerOf[c] ELSE c

LEMMA LowerFacts ==
    ASSUME NEW T, NEW t \in Seq(T)
    PROVE  /\ DOMAIN Lower(t) = 1..Len(t) /\ Len(t) \in Nat
           /\ Lower(t) \in Seq({LowerCase(c) : c \in T})
           /\ Len(Lower(t)) = Len(t)
           /\ \A n \in 1..Len(t) : Lower(t)[n] = LowerCase(t[n])
           /\ \A n : IsLetter(Lower(t), n) <=> IsLetter(t, n)
  <1>1. DOMAIN t = 1..Len(t) /\ Len(t) \in Nat
    OBVIOUS
  <1>2. \A n \in 1..Len(t) : Lower(t)[n] = LowerCase(t[n])
    BY <1>1 DEF Lower, LowerCase
  <1>3. DOMAIN Lower(t) = 1..Len(t)
    BY <1>1 DEF Lower
  <1>4. Lower(t) = [n \in 1..Len(t) |-> LowerCase(t[n])]
    BY <1>1 DEF Lower, LowerCase
  <1>5. Lower(t) \in Seq({LowerCase(c) : c \in T}) /\ Len(Lower(t)) = Len(t)
    BY <1>1, <1>4
  <1>6. \A c : LowerCase(c) \in Letters <=> c \in Letters
    BY CharacterAssumption DEF LowerCase
  <1>7. \A n : IsLetter(Lower(t), n) <=> IsLetter(t, n)
    BY <1>1, <1>2, <1>3, <1>6 DEF IsLetter
  <1> QED
    BY <1>1, <1>2, <1>3, <1>5, <1>7

\* A part of a text in small letters.
LEMMA LowerPart ==
    ASSUME NEW T, NEW t \in Seq(T), NEW m \in 1..Len(t), NEW n \in m..Len(t)
    PROVE  /\ SubSeq(t, m, n) \in Seq(T)
           /\ Len(SubSeq(t, m, n)) = n - m + 1
           /\ \A i \in 1..(n - m + 1) : SubSeq(t, m, n)[i] = t[m + i - 1]
           /\ SubSeq(Lower(t), m, n) = Lower(SubSeq(t, m, n))
  <1>1. /\ SubSeq(t, m, n) \in Seq(T)
        /\ Len(SubSeq(t, m, n)) = n - m + 1
        /\ \A i \in 1..(n - m + 1) : SubSeq(t, m, n)[i] = t[m + i - 1]
    OBVIOUS
  <1> DEFINE X == {LowerCase(c) : c \in T}
             part == SubSeq(t, m, n)
             small == SubSeq(Lower(t), m, n)
  <1>2. /\ Lower(t) \in Seq(X) /\ Len(Lower(t)) = Len(t)
        /\ \A k \in 1..Len(t) : Lower(t)[k] = LowerCase(t[k])
    BY LowerFacts
  <1>3. /\ Lower(part) \in Seq(X) /\ Len(Lower(part)) = n - m + 1
        /\ \A k \in 1..(n - m + 1) : Lower(part)[k] = LowerCase(part[k])
    BY <1>1, LowerFacts
  <1> HIDE DEF X
  <1>4. /\ small \in Seq(X) /\ Len(small) = n - m + 1
        /\ \A i \in 1..(n - m + 1) : small[i] = Lower(t)[m + i - 1]
    BY <1>2
  <1> HIDE DEF part, small
  <1>5. \A i \in 1..(n - m + 1) : m + i - 1 \in 1..Len(t)
    OBVIOUS
  <1>6. \A i \in 1..(n - m + 1) : small[i] = Lower(part)[i]
    BY <1>1, <1>2, <1>3, <1>4, <1>5 DEF part
  <1>7. small = Lower(part)
    BY <1>3, <1>4, <1>6, SeqEqual
  <1> QED
    BY <1>1, <1>7 DEF small, part

\* A word of the text is found where it stands, and what is found first is the
\* same word but for capitals.
LEMMA OccurrenceFacts ==
    ASSUME NEW T, NEW t \in Seq(T), NEW mn \in Words(t),
           NEW term, term = SubSeq(t, mn[1], mn[2])
    PROVE  /\ term \in Seq(Letters) /\ Len(term) \in Nat /\ Len(term) > 0
           /\ mn[1] \in Occurrences(Lower(term), Lower(t))
           /\ \A p \in Occurrences(Lower(term), Lower(t)) :
                 /\ p \in 1..Len(t) /\ p + Len(term) - 1 \in p..Len(t)
                 /\ Lower(SubSeq(t, p, p + Len(term) - 1)) = Lower(term)
                 /\ SubSeq(t, p, p + Len(term) - 1) \in Seq(Letters)
                 /\ Len(SubSeq(t, p, p + Len(term) - 1)) = Len(term)
                 /\ ~IsLetter(t, p - 1)
  <1> DEFINE m == mn[1]
             n == mn[2]
             L == Len(term)
  <1>1. /\ m \in 1..Len(t) /\ n \in m..Len(t) /\ Len(t) \in Nat
        /\ \A k \in m..n : IsLetter(t, k)
        /\ ~IsLetter(t, m - 1) /\ ~IsLetter(t, n + 1)
    <2>1. DOMAIN t = 1..Len(t) /\ Len(t) \in Nat
      OBVIOUS
    <2>2. /\ m \in DOMAIN t /\ n \in DOMAIN t /\ m <= n
          /\ \A k \in m..n : IsLetter(t, k)
          /\ ~IsLetter(t, m - 1) /\ ~IsLetter(t, n + 1)
      BY Zenon DEF Words
    <2> QED
      BY <2>1, <2>2
  <1>2. /\ L = n - m + 1 /\ term \in Seq(T)
        /\ \A i \in 1..L : term[i] = t[m + i - 1]
        /\ SubSeq(Lower(t), m, n) = Lower(term)
    BY <1>1, LowerPart, SMTT(30)
  <1>3. \A k \in m..n : t[k] \in Letters
    BY <1>1 DEF IsLetter
  <1>4. L \in Nat /\ L > 0 /\ n = m + L - 1
    BY <1>1, <1>2
  <1> HIDE DEF L, m, n
  <1>5. \A i \in 1..L : term[i] \in Letters
    <2>1. ASSUME NEW i \in 1..L
          PROVE  m + i - 1 \in m..n
      BY <1>1, <1>4
    <2> QED
      BY <1>2, <1>3, <2>1
  <1>6. term \in Seq(Letters)
    <2>1. Len(term) = L /\ term \in [1..L -> T]
      BY <1>2, LenProperties DEF L
    <2>2. term \in [1..L -> Letters]
      BY <1>5, <2>1
    <2> QED
      BY <1>4, <2>2, SeqDef
  <1>7. /\ Len(Lower(t)) = Len(t) /\ Len(Lower(term)) = L
        /\ \A k : IsLetter(Lower(t), k) <=> IsLetter(t, k)
        /\ \A i \in 1..L : Lower(term)[i] = LowerCase(term[i])
        /\ \A k \in 1..Len(t) : Lower(t)[k] = LowerCase(t[k])
    BY <1>2, LowerFacts DEF L
  <1>8. m \in Occurrences(Lower(term), Lower(t))
    <2>1. Boundary(Lower(t), m - 1)
      <3>1. IsLetter(t, m)
        BY <1>1
      <3>2. (m - 1) + 1 = m
        BY <1>1
      <3> QED
        BY <1>1, <1>7, <3>1, <3>2 DEF Boundary
    <2>2. Boundary(Lower(t), m + L - 1)
      <3>1. IsLetter(t, n)
        BY <1>1
      <3> QED
        BY <1>1, <1>4, <1>7, <3>1 DEF Boundary
    <2>3. m \in 1..(Len(t) - L + 1)
      BY <1>1, <1>4
    <2> QED
      BY <1>2, <1>4, <1>7, <2>1, <2>2, <2>3 DEF Occurrences
  <1>9. ASSUME NEW p \in Occurrences(Lower(term), Lower(t))
        PROVE  /\ p \in 1..Len(t) /\ p + L - 1 \in p..Len(t)
               /\ Lower(SubSeq(t, p, p + L - 1)) = Lower(term)
               /\ SubSeq(t, p, p + L - 1) \in Seq(Letters)
               /\ Len(SubSeq(t, p, p + L - 1)) = L
               /\ ~IsLetter(t, p - 1)
    <2>1. /\ p \in 1..(Len(t) - L + 1)
          /\ SubSeq(Lower(t), p, p + L - 1) = Lower(term)
          /\ Boundary(Lower(t), p - 1)
      BY <1>7 DEF Occurrences
    <2>2. p \in 1..Len(t) /\ p + L - 1 \in p..Len(t)
      BY <1>1, <1>4, <2>1
    <2> DEFINE word == SubSeq(t, p, p + L - 1)
    <2>3. /\ word \in Seq(T) /\ Len(word) = L
          /\ \A i \in 1..L : word[i] = t[p + i - 1]
          /\ Lower(word) = Lower(term)
      <3>1. (p + L - 1) - p + 1 = L
        BY <1>4, <2>1
      <3>2. /\ SubSeq(t, p, p + L - 1) \in Seq(T)
            /\ Len(SubSeq(t, p, p + L - 1)) = (p + L - 1) - p + 1
            /\ \A i \in 1..((p + L - 1) - p + 1) :
                  SubSeq(t, p, p + L - 1)[i] = t[p + i - 1]
            /\ SubSeq(Lower(t), p, p + L - 1) = Lower(SubSeq(t, p, p + L - 1))
        BY <2>2, LowerPart, ZenonT(30)
      <3>3. Lower(word) = Lower(term)
        BY <2>1, <3>2, Zenon DEF word
      <3> HIDE DEF word
      <3>4. word \in Seq(T) /\ Len(word) = L /\ \A i \in 1..L : word[i] = t[p + i - 1]
        BY <3>1, <3>2, Zenon DEF word
      <3> QED
        BY <3>3, <3>4
    <2> HIDE DEF word
    <2>4. \A i \in 1..L : word[i] \in Letters
      <3>1. \A i \in 1..L : Lower(word)[i] = LowerCase(word[i])
        BY <2>3, LowerFacts
      <3>2. \A i \in 1..L : LowerCase(word[i]) = LowerCase(term[i])
        BY <1>7, <2>3, <3>1
      <3>3. \A c : LowerCase(c) \in Letters <=> c \in Letters
        BY CharacterAssumption DEF LowerCase
      <3> QED
        BY <1>5, <3>2, <3>3
    <2>5. word \in Seq(Letters)
      BY <2>3, <2>4
    <2>6. ~IsLetter(t, p - 1)
      <3>1. IsLetter(t, p)
        <4>1. 1 \in 1..L /\ p + 1 - 1 = p
          BY <1>4, <2>2
        <4>2. word[1] = t[p] /\ word[1] \in Letters
          BY <2>3, <2>4, <4>1
        <4>3. DOMAIN t = 1..Len(t)
          OBVIOUS
        <4> QED
          BY <2>2, <4>2, <4>3 DEF IsLetter
      <3>2. (p - 1) + 1 = p
        BY <2>2
      <3>3. IsLetter(Lower(t), p - 1) # IsLetter(Lower(t), p)
        BY <2>1, <3>2, Zenon DEF Boundary
      <3>4. IsLetter(Lower(t), p)
        BY <1>7, <3>1
      <3>5. ~IsLetter(Lower(t), p - 1)
        BY <3>3, <3>4 DEF IsLetter
      <3> QED
        BY <1>7, <3>5
    <2> QED
      BY <2>2, <2>3, <2>5, <2>6 DEF word
  <1> QED
    BY <1>4, <1>6, <1>8, <1>9 DEF L, m, n

LEMMA SameButForCapitals ==
    ASSUME NEW w \in Seq(Letters), NEW v \in Seq(Letters), Lower(w) = Lower(v)
    PROVE  Normalise(w) = Normalise(v)
  <1>1. /\ DOMAIN Lower(w) = 1..Len(w) /\ DOMAIN Lower(v) = 1..Len(v)
        /\ Len(w) \in Nat /\ Len(v) \in Nat
        /\ Len(Lower(w)) = Len(w) /\ Len(Lower(v)) = Len(v)
        /\ \A n \in 1..Len(w) : Lower(w)[n] = LowerCase(w[n])
        /\ \A n \in 1..Len(v) : Lower(v)[n] = LowerCase(v[n])
    BY LowerFacts
  <1>2. Len(w) = Len(v) /\ DOMAIN w = 1..Len(w) /\ DOMAIN v = 1..Len(w)
    BY <1>1
  <1>3. \A c : Plain(LowerCase(c)) = Plain(c)
    BY CharacterAssumption DEF LowerCase
  <1>4. \A c : LowerCase(c) \in Punctuation <=> c \in Punctuation
    BY CharacterAssumption DEF LowerCase
  <1>5. \A n \in 1..Len(w) : LowerCase(w[n]) = LowerCase(v[n])
    BY <1>1, <1>2
  <1>6. \A n \in 1..Len(w) : /\ w[n] \in Punctuation <=> v[n] \in Punctuation
                            /\ Plain(w[n]) = Plain(v[n])
    BY <1>3, <1>4, <1>5
  <1> DEFINE x == Dropping(w, Punctuation)
             y == Dropping(v, Punctuation)
  <1>7. [n \in DOMAIN x |-> Plain(x[n])] = [n \in DOMAIN y |-> Plain(y[n])]
    BY <1>2, <1>6, DroppingAlike
  <1> QED
    BY <1>7, NormaliseWord, Zenon

LEMMA SameIsCorrect ==
    ASSUME NEW T, NEW given \in Seq(T), NEW wanted,
           Normalise(given) = Normalise(wanted)
    PROVE  Correct(given, wanted, "strict")
  <1>1. Similarity(Normalise(given), Normalise(wanted)) = <<1, 1>>
    BY DEF Similarity
  <1>2. Threshold["strict"] = 95
    BY DEF Threshold
  <1> QED
    BY <1>1, <1>2 DEF Correct

\* The gap of a word of the sentence.
LEMMA GapOfWord ==
    ASSUME NEW T, NEW t \in Seq(T), NEW mn \in Words(t),
           NEW term, term = SubSeq(t, mn[1], mn[2]),
           \A k \in 1..Len(t) : t[k] \notin {Brace} \union DOMAIN Opening
    PROVE  Hides(SplitCloze(t, term), term)
  <1> DEFINE found == Occurrences(Lower(term), Lower(t))
             p == Min(found)
             L == Len(term)
             word == SubSeq(t, p, p + L - 1)
             before == SubSeq(t, 1, p - 1)
  <1>1. /\ term \in Seq(Letters) /\ L \in Nat /\ L > 0 /\ Len(t) \in Nat
        /\ found # {}
        /\ \A q \in found :
              /\ q \in 1..Len(t) /\ q + L - 1 \in q..Len(t)
              /\ Lower(SubSeq(t, q, q + L - 1)) = Lower(term)
              /\ SubSeq(t, q, q + L - 1) \in Seq(Letters)
              /\ Len(SubSeq(t, q, q + L - 1)) = L
              /\ ~IsLetter(t, q - 1)
    <2>1. Len(t) \in Nat
      OBVIOUS
    <2>2. /\ term \in Seq(Letters) /\ L \in Nat /\ L > 0
          /\ mn[1] \in found
          /\ \A q \in found :
                /\ q \in 1..Len(t) /\ q + L - 1 \in q..Len(t)
                /\ Lower(SubSeq(t, q, q + L - 1)) = Lower(term)
                /\ SubSeq(t, q, q + L - 1) \in Seq(Letters)
                /\ Len(SubSeq(t, q, q + L - 1)) = L
                /\ ~IsLetter(t, q - 1)
      BY term = SubSeq(t, mn[1], mn[2]), OccurrenceFacts, Zenon
    <2> HIDE DEF found, L
    <2> QED
      BY <2>1, <2>2
  <1>2. p \in found /\ \A q \in found : p <= q
    <2>1. found \in SUBSET Nat
      BY <1>1
    <2> HIDE DEF found
    <2> QED
      BY <1>1, <2>1, MinOf
  <1>3. /\ p \in 1..Len(t) /\ p + L - 1 \in p..Len(t)
        /\ Lower(word) = Lower(term) /\ word \in Seq(Letters) /\ Len(word) = L
        /\ ~IsLetter(t, p - 1)
    BY <1>1, <1>2
  <1>4. Marks(t) = {}
    BY DEF Marks
  <1>5. term # <<>> /\ t # <<>>
    <2>1. Len(term) > 0 /\ Len(t) > 0
      BY <1>1, <1>3
    <2>2. Len(<<>>) = 0
      OBVIOUS
    <2>5. Len(term) # 0
      BY <1>1
    <2>3. term # <<>>
      BY <2>2, <2>5, Zenon
    <2>4. t # <<>>
      BY <2>1, <2>2
    <2> QED
      BY <2>3, <2>4
  <1>6. SplitCloze(t, term) = [before |-> before, word |-> word,
                               after |-> SubSeq(t, p + L - 1 + 1, Len(t))]
    BY <1>1, <1>4, <1>5, Zenon DEF SplitCloze, Gap
  <1>7. word # <<>>
    <2> HIDE DEF word, L, p
    <2> QED
      BY <1>1, <1>3
  <1>8. Correct(word, term, "strict")
    BY <1>1, <1>3, SameButForCapitals, SameIsCorrect
  <1>9. Occurrences(term, before) = {}
    <2> SUFFICES ASSUME NEW q \in Occurrences(term, before) PROVE FALSE
      OBVIOUS
    <2> HIDE DEF found, p, L, word
    <2>1. /\ Len(before) = p - 1 /\ before \in Seq(T) /\ p - 1 \in Nat
          /\ \A k \in 1..(p - 1) : before[k] = t[k]
      <3>1. p \in Int /\ 1 \in Int /\ \A k \in 1..(p - 1) : t[k] \in T
        BY <1>3
      <3> QED
        BY <1>3, <3>1, SubSeqProperties
    <2>2. /\ q \in 1..(p - 1 - L + 1) /\ SubSeq(before, q, q + L - 1) = term
          /\ Boundary(before, q - 1) /\ Boundary(before, q + L - 1)
      BY <2>1 DEF Occurrences, L
    <2> HIDE DEF before
    <2>3. /\ q \in 1..Len(t) /\ q + L - 1 \in q..Len(t) /\ q < p
          /\ q \in 1..Len(before) /\ q + L - 1 \in q..Len(before)
          /\ q + L - 1 <= p - 1
      <3>1. /\ p \in Nat /\ L \in Nat /\ L > 0 /\ Len(t) \in Nat /\ p <= Len(t)
            /\ q \in Nat /\ 1 <= q /\ q <= p - 1 - L + 1 /\ Len(before) = p - 1
        <4>1. L \in Nat /\ L > 0 /\ Len(t) \in Nat
          BY <1>1
        <4>2. p \in Nat /\ p <= Len(t)
          BY <1>3, <4>1
        <4> QED
          BY <2>1, <2>2, <4>1, <4>2
      <3> QED
        BY <3>1
    <2>4. SubSeq(t, q, q + L - 1) = term
      <3>1. /\ SubSeq(t, q, q + L - 1) \in Seq(T)
            /\ Len(SubSeq(t, q, q + L - 1)) = L
            /\ \A i \in 1..L : SubSeq(t, q, q + L - 1)[i] = t[q + i - 1]
        <4>1. (q + L - 1) - q + 1 = L
          BY <1>1, <2>3
        <4> QED
          BY <2>3, <4>1, LowerPart
      <3>2. /\ term \in Seq(T) /\ Len(term) = L
            /\ \A i \in 1..L : term[i] = before[q + i - 1]
        <4>1. (q + L - 1) - q + 1 = L
          BY <1>1, <2>3
        <4>2. /\ SubSeq(before, q, q + L - 1) \in Seq(T)
              /\ Len(SubSeq(before, q, q + L - 1)) = (q + L - 1) - q + 1
              /\ \A i \in 1..((q + L - 1) - q + 1) :
                    SubSeq(before, q, q + L - 1)[i] = before[q + i - 1]
          BY <2>1, <2>3, LowerPart
        <4> QED
          BY <2>2, <4>1, <4>2
      <3>3. ASSUME NEW i \in 1..L
            PROVE  before[q + i - 1] = t[q + i - 1]
        <4>1. q + i - 1 \in 1..(p - 1)
          <5>1. /\ L \in Nat /\ p \in Int /\ q \in Nat /\ 1 <= q
                /\ q + L - 1 <= p - 1 /\ i \in Nat /\ 1 <= i /\ i <= L
            BY <1>1, <1>3, <2>3
          <5> QED
            BY <5>1
        <4> QED
          BY <2>1, <4>1
      <3>4. \A i \in 1..L : SubSeq(t, q, q + L - 1)[i] = term[i]
        BY <3>1, <3>2, <3>3
      <3> QED
        BY <3>1, <3>2, <3>4, SeqEqual
    <2>5. SubSeq(Lower(t), q, q + L - 1) = Lower(term)
      <3>1. SubSeq(Lower(t), q, q + L - 1) = Lower(SubSeq(t, q, q + L - 1))
        BY <2>3, LowerPart
      <3> QED
        BY <2>4, <3>1
    <2>6. /\ Len(Lower(t)) = Len(t) /\ Len(Lower(term)) = L
          /\ \A k : IsLetter(Lower(t), k) <=> IsLetter(t, k)
      BY <1>1, LowerFacts DEF L
    <2>7. \A k \in 0..(p - 1) : IsLetter(before, k) <=> IsLetter(t, k)
      <3>1. DOMAIN before = 1..(p - 1) /\ DOMAIN t = 1..Len(t)
        BY <2>1
      <3> QED
        BY <1>3, <2>1, <3>1, SMTT(30) DEF IsLetter
    <2>8. ASSUME q + L - 1 = p - 1
          PROVE  FALSE
      <3>1. L \in 1..L /\ q + L - 1 = p - 1
        BY <1>1, <2>8
      <3>2. term[L] \in Letters
        <4>1. term \in Seq(Letters)
          BY <1>1
        <4>2. Len(term) = L
          BY DEF L
        <4>3. L \in 1..Len(term)
          BY <3>1, <4>2
        <4> QED
          BY <4>1, <4>3, ElementOfSeq, Zenon
      <3>3. t[p - 1] = term[L]
        <4>1. (q + L - 1) - q + 1 = L
          BY <1>1, <2>3
        <4>2. \A i \in 1..L : SubSeq(t, q, q + L - 1)[i] = t[q + i - 1]
          BY <2>3, <4>1, LowerPart
        <4> QED
          BY <2>4, <3>1, <4>2
      <3>4. p - 1 \in DOMAIN t
        BY <1>3, <2>3, <3>1
      <3> QED
        BY <1>3, <3>2, <3>3, <3>4 DEF IsLetter
    <2>9. Boundary(Lower(t), q - 1) /\ Boundary(Lower(t), q + L - 1)
      <3>1. /\ q - 1 \in 0..(p - 1) /\ (q - 1) + 1 \in 0..(p - 1)
            /\ q + L - 1 \in 0..(p - 1) /\ (q + L - 1) + 1 \in 0..(p - 1)
        <4>1. /\ L \in Nat /\ L > 0 /\ p \in Int /\ q \in Nat /\ 1 <= q
              /\ q < p /\ q + L - 1 <= p - 1 /\ q + L - 1 # p - 1
          BY <1>1, <1>3, <2>3, <2>8
        <4> QED
          BY <4>1
      <3>2. \A k : IsLetter(before, k) \in BOOLEAN /\ IsLetter(Lower(t), k) \in BOOLEAN
        BY DEF IsLetter
      <3>3. /\ IsLetter(Lower(t), q - 1) = IsLetter(before, q - 1)
            /\ IsLetter(Lower(t), (q - 1) + 1) = IsLetter(before, (q - 1) + 1)
            /\ IsLetter(Lower(t), q + L - 1) = IsLetter(before, q + L - 1)
            /\ IsLetter(Lower(t), (q + L - 1) + 1) = IsLetter(before, (q + L - 1) + 1)
        BY <2>6, <2>7, <3>1, <3>2
      <3> QED
        BY <2>2, <3>3, Zenon DEF Boundary
    <2>10. q \in found
      <3>1. q \in 1..(Len(t) - L + 1)
        BY <1>1, <2>3
      <3> QED
        BY <2>5, <2>6, <2>9, <3>1 DEF Occurrences, found
    <2> QED
      BY <1>2, <1>3, <2>3, <2>10
  <1> HIDE DEF word, before
  <1> QED
    BY <1>6, <1>7, <1>8, <1>9 DEF Hides

-----------------------------------------------------------------------------
(***************************************************************************)
(* The cards of a deck.                                                    *)
(***************************************************************************)
CardShape == [term : Text, context : Text]

\* Sequences put one after the other.
LEMMA FlattenType ==
    ASSUME NEW T, NEW seqs \in Seq(Seq(T))
    PROVE  FlattenSeq(seqs) \in Seq(T)
  <1> DEFINE N == Len(seqs)
             Table(f) == f = [i \in 1..N |->
                                IF i = 1 THEN seqs[i] ELSE f[i - 1] \o seqs[i]]
             c == CHOOSE f : Table(f)
  <1>1. N \in Nat /\ \A i \in 1..N : seqs[i] \in Seq(T)
    OBVIOUS
  <1>2. CASE N = 0
    <2>1. seqs = <<>>
      BY <1>2
    <2>2. FlattenSeq(seqs) = seqs
      BY <1>2, Zenon DEF FlattenSeq
    <2>3. <<>> \in Seq(T)
      OBVIOUS
    <2> QED
      BY <2>1, <2>2, <2>3, Zenon
  <1>3. CASE N # 0
    <2>1. FlattenSeq(seqs) = c[N]
      BY <1>3, Zenon DEF FlattenSeq
    <2> HIDE DEF N
    <2>2. \E f : Table(f)
      <3> DEFINE Value(f, i) == IF i = 1 THEN seqs[i] ELSE f[i - 1] \o seqs[i]
                 Upto(f, n) == f = [i \in 1..n |-> Value(f, i)]
                 S == {n \in 0..N : \E f : Upto(f, n)}
      <3>1. 0 \in S
        <4> DEFINE f == [i \in {} |-> {}]
        <4>1. 1..0 = {}
          OBVIOUS
        <4>2. f = [i \in 1..0 |-> Value(f, i)]
          BY <4>1
        <4>3. Upto(f, 0) /\ 0 \in 0..N
          BY <1>1, <4>2
        <4> HIDE DEF f, Upto
        <4> QED
          BY <4>3
      <3>2. ASSUME NEW n \in 0..N, n \in S, n < N
            PROVE  n + 1 \in S
        <4>1. PICK f : Upto(f, n)
          BY <3>2, Zenon
        <4> DEFINE h == [i \in 1..(n + 1) |-> Value(f, i)]
        <4>2. \A i \in 1..n : f[i] = Value(f, i)
          BY <4>1, Zenon
        <4>3. \A i \in 1..(n + 1) : h[i] = Value(f, i)
          OBVIOUS
        <4> HIDE DEF h
        <4>4. ASSUME NEW i \in 1..(n + 1)
              PROVE  Value(f, i) = Value(h, i)
          <5>1. CASE i = 1
            BY <5>1
          <5>2. CASE i # 1
            <6>1. i - 1 \in 1..n /\ i - 1 \in 1..(n + 1)
              BY <5>2
            <6>2. f[i - 1] = h[i - 1]
              BY <4>2, <4>3, <6>1, Zenon
            <6> QED
              BY <6>2, Zenon
          <5> QED
            BY <5>1, <5>2
        <4>5. h = [i \in 1..(n + 1) |-> Value(f, i)]
          BY DEF h
        <4> HIDE DEF Value
        <4>6. h = [i \in 1..(n + 1) |-> Value(h, i)]
          BY <4>4, <4>5
        <4>7. Upto(h, n + 1)
          BY <4>6, Zenon
        <4>8. n + 1 \in 0..N
          BY <1>1, <3>2
        <4> HIDE DEF Upto
        <4> QED
          BY <4>7, <4>8
      <3> HIDE DEF S
      <3>3. \A n \in 0..N : n \in S
        BY <1>1, <3>1, <3>2, CountUp
      <3>4. N \in S
        BY <1>1, <3>3
      <3> QED
        BY <3>4, Zenon DEF S
    <2>3. Table(c)
      BY <2>2, Zenon
    <2>4. \A i \in 1..N : c[i] = IF i = 1 THEN seqs[i] ELSE c[i - 1] \o seqs[i]
      BY <2>3, Zenon
    <2> HIDE DEF c
    <2> DEFINE S == {k \in 0..N : k # 0 => c[k] \in Seq(T)}
    <2>5. 0 \in S
      BY <1>1
    <2>6. ASSUME NEW k \in 0..N, k \in S, k < N
          PROVE  k + 1 \in S
      <3>1. k + 1 \in 1..N /\ k + 1 \in 0..N /\ (k + 1) - 1 = k
        BY <1>1, <2>6
      <3>2. CASE k = 0
        BY <1>1, <2>4, <3>1, <3>2
      <3>3. CASE k # 0
        <4>1. c[k + 1] = c[(k + 1) - 1] \o seqs[k + 1] /\ k + 1 # 1
          <5>1. k + 1 # 1
            BY <3>3
          <5> QED
            BY <2>4, <3>1, <5>1, Zenon
        <4>2. c[k] \in Seq(T) /\ seqs[k + 1] \in Seq(T)
          BY <1>1, <2>6, <3>1, <3>3
        <4>3. c[k + 1] \in Seq(T)
          BY <3>1, <4>1, <4>2
        <4> QED
          BY <3>1, <4>3
      <3> QED
        BY <3>2, <3>3
    <2>7. \A k \in 0..N : k \in S
      <3> HIDE DEF S
      <3> QED
        BY <1>1, <2>5, <2>6, CountUp
    <2>8. N \in 0..N
      BY <1>1
    <2> QED
      BY <1>3, <2>1, <2>7, <2>8
  <1> QED
    BY <1>2, <1>3

LEMMA PickedType ==
    ASSUME NEW T, NEW t \in Seq(T), NEW gone
    PROVE  LET kept == Dropping([n \in DOMAIN t |-> n], gone)
           IN  /\ kept \in Seq((DOMAIN t) \ gone)
               /\ [k \in DOMAIN kept |-> t[kept[k]]] \in Seq(T)
  <1> DEFINE places == [n \in DOMAIN t |-> n]
             kept == Dropping(places, gone)
             picked == [k \in DOMAIN kept |-> t[kept[k]]]
  <1>1. DOMAIN t = 1..Len(t) /\ Len(t) \in Nat
    OBVIOUS
  <1>2. places \in Seq(DOMAIN t)
    BY <1>1
  <1>3. kept \in Seq((DOMAIN t) \ gone)
    <2> HIDE DEF places
    <2> QED
      BY <1>2, DroppingType
  <1> HIDE DEF kept
  <1>4. DOMAIN kept = 1..Len(kept) /\ Len(kept) \in Nat
    BY <1>3
  <1>5. \A k \in 1..Len(kept) : kept[k] \in DOMAIN t
    BY <1>3
  <1>6. \A k \in 1..Len(kept) : t[kept[k]] \in T
    BY <1>1, <1>5
  <1>7. picked \in Seq(T)
    BY <1>4, <1>6
  <1> QED
    BY <1>3, <1>7 DEF kept

LEMMA InsideType ==
    ASSUME NEW t \in Text, NEW tag \in Tags(t)
    PROVE  Inside(t, tag) \in Text
  <1>1. DOMAIN t = 1..Len(t) /\ Len(t) \in Nat
    BY DEF Text
  <1>2. /\ tag.open \in DOMAIN t /\ tag.stop \in DOMAIN t
        /\ tag.open + 1 < tag.stop
    BY Zenon DEF Tags
  <1>3. SubSeq(t, tag.open + 1, tag.stop - 1) \in Text
    <2>1. /\ tag.open + 1 \in Int /\ tag.stop - 1 \in Int
          /\ \A i \in (tag.open + 1)..(tag.stop - 1) : i \in 1..Len(t)
      BY <1>1, <1>2
    <2>2. \A i \in (tag.open + 1)..(tag.stop - 1) : t[i] \in STRING
      BY <2>1 DEF Text
    <2> QED
      BY <2>1, <2>2, SubSeqProperties DEF Text
  <1> QED
    BY <1>3, StripType DEF Inside, Text

LEMMA ClozeType ==
    ASSUME NEW t \in Text
    PROVE  ClozeCards(t) \in Seq(CardShape)
  <1> DEFINE texts  == {tag \in Tags(t) : Inside(t, tag) # <<>>}
             firsts == {tag \in texts : \A other \in texts :
                          Opening[t[other.open]] = Opening[t[tag.open]]
                              => tag.open <= other.open}
             opens  == {tag.open : tag \in firsts}
             order  == Dropping([n \in DOMAIN t |-> n], (DOMAIN t) \ opens)
             clean  == Strip(StripMarkup(t))
             Tag(n) == CHOOSE tag \in firsts : tag.open = n
             Made(n) == [term |-> Inside(t, Tag(n)),
                         context |-> IF clean = Inside(t, Tag(n)) THEN <<>> ELSE clean]
             cards  == [k \in DOMAIN order |-> Made(order[k])]
  <1>1. ClozeCards(t) = cards
    BY Zenon DEF ClozeCards
  <1>2. order \in Seq((DOMAIN t) \ ((DOMAIN t) \ opens))
    <2> HIDE DEF opens
    <2> QED
      BY PickedType DEF Text
  <1>3. clean \in Text
    <2>1. StripMarkup(t) \in Text
      BY PickedType DEF StripMarkup, Text
    <2> QED
      BY <2>1, StripType DEF Text
  <1> HIDE DEF order, clean
  <1>4. DOMAIN order = 1..Len(order) /\ Len(order) \in Nat
    BY <1>2
  <1>5. \A k \in 1..Len(order) : order[k] \in opens
    <2> HIDE DEF opens
    <2>1. \A k \in 1..Len(order) : order[k] \in (DOMAIN t) \ ((DOMAIN t) \ opens)
      BY <1>2
    <2> QED
      BY <2>1
  <1>6. ASSUME NEW n \in opens
        PROVE  Made(n) \in CardShape
    <2>1. \E tag \in firsts : tag.open = n
      BY Zenon
    <2>2. Tag(n) \in firsts
      <3> HIDE DEF firsts
      <3> QED
        BY <2>1
    <2>3. Tag(n) \in Tags(t)
      <3> HIDE DEF Tag
      <3> QED
        BY <2>2
    <2>4. Inside(t, Tag(n)) \in Text
      BY <2>3, InsideType
    <2>5. <<>> \in Text
      BY DEF Text
    <2> HIDE DEF Tag
    <2> QED
      BY <1>3, <2>4, <2>5 DEF CardShape
  <1> HIDE DEF Made, opens
  <1>7. \A k \in 1..Len(order) : Made(order[k]) \in CardShape
    BY <1>5, <1>6
  <1>8. cards \in Seq(CardShape)
    BY <1>4, <1>7
  <1> QED
    BY <1>1, <1>8

LEMMA CardsType ==
    ASSUME NEW notes \in Seq(Note)
    PROVE  CardsOf(notes) \in Seq(CardShape)
  <1> DEFINE Of(note) ==
               IF IsCloze(note) THEN ClozeCards(note.term)
               ELSE <<[term    |-> Strip(note.term),
                       context |-> Strip(note.context)]>>
             lists == [k \in DOMAIN notes |-> Of(notes[k])]
  <1>1. DOMAIN notes = 1..Len(notes) /\ Len(notes) \in Nat
    OBVIOUS
  <1>2. ASSUME NEW note \in Note
        PROVE  Of(note) \in Seq(CardShape)
    <2>1. note.term \in Text /\ note.context \in Text
      BY DEF Note
    <2>2. ClozeCards(note.term) \in Seq(CardShape)
      BY <2>1, ClozeType
    <2>3. Strip(note.term) \in Text /\ Strip(note.context) \in Text
      BY <2>1, StripType DEF Text
    <2>4. [term |-> Strip(note.term), context |-> Strip(note.context)] \in CardShape
      BY <2>3 DEF CardShape
    <2>5. <<[term |-> Strip(note.term), context |-> Strip(note.context)]>>
            \in Seq(CardShape)
      BY <2>4
    <2> QED
      BY <2>2, <2>5
  <1> HIDE DEF Of
  <1>3. \A k \in 1..Len(notes) : Of(notes[k]) \in Seq(CardShape)
    BY <1>1, <1>2
  <1>4. lists \in Seq(Seq(CardShape))
    BY <1>1, <1>3
  <1>5. CardsOf(notes) = FlattenSeq(lists)
    BY Zenon DEF CardsOf, Of
  <1> HIDE DEF lists
  <1> QED
    BY <1>4, <1>5, FlattenType

\* What is found for a term is a word of the sentence.
LEMMA SurfaceIsWord ==
    ASSUME NEW context \in Text, NEW term, FindSurface(term, context) # <<>>
    PROVE  \E mn \in Words(context) :
               FindSurface(term, context) = SubSeq(context, mn[1], mn[2])
  <1> DEFINE wanted == Lower(Strip(term))
             forms == {mn \in Words(context) :
                         IsFormOf(Lower(SubSeq(context, mn[1], mn[2])), wanted)}
             first == CHOOSE mn \in forms : \A other \in forms : mn[1] <= other[1]
  <1>1. /\ forms # {}
        /\ FindSurface(term, context) = SubSeq(context, first[1], first[2])
    BY FindSurface(term, context) # <<>>, Zenon DEF FindSurface
  <1>2. forms \subseteq Words(context)
    OBVIOUS
  <1> HIDE DEF forms
  <1>3. \A mn \in forms : mn[1] \in Nat
    <2>1. DOMAIN context = 1..Len(context) /\ Len(context) \in Nat
      BY DEF Text
    <2> QED
      BY <1>2, <2>1 DEF Words
  <1>4. \E mn \in forms : \A other \in forms : mn[1] <= other[1]
    <2> DEFINE starts == {mn[1] : mn \in forms}
    <2>1. starts \in SUBSET Nat /\ starts # {}
      BY <1>1, <1>3
    <2>2. PICK n \in starts : \A k \in starts : n <= k
      BY <2>1, LeastNumber
    <2>3. PICK mn \in forms : mn[1] = n
      BY <2>2
    <2>4. \A other \in forms : other[1] \in starts
      OBVIOUS
    <2> QED
      BY <2>2, <2>3, <2>4
  <1>5. first \in forms
    BY <1>4
  <1> HIDE DEF first
  <1> QED
    BY <1>1, <1>2, <1>5

\* The gap check of the import is the one practice needs.
LEMMA CardsHide ==
    ASSUME NEW d \in Anki, NEW c \in ToSet(ValidCards(d)),
           ToSet(c.context) \intersect ({Brace} \union DOMAIN Opening) = {}
    PROVE  Hides(SplitCloze(c.context, c.term), c.term)
  <1> DEFINE parsed == CardsOf(NotesOf[d])
             cards == [n \in DOMAIN parsed |-> Normalised(parsed[n])]
             gone == {x \in ToSet(cards) : x.term = <<>>}
  <1>1. parsed \in Seq(CardShape)
    BY ImportAssumption, CardsType
  <1>2. ValidCards(d) = Dropping(cards, gone)
    BY Zenon DEF ValidCards
  <1> HIDE DEF parsed
  <1>3. DOMAIN parsed = 1..Len(parsed) /\ Len(parsed) \in Nat
    BY <1>1
  <1>4. cards \in Seq(ToSet(cards))
    <2>1. DOMAIN cards = 1..Len(parsed)
      BY <1>3
    <2>2. cards \in [1..Len(parsed) -> ToSet(cards)]
      <3>1. \A n \in 1..Len(parsed) : cards[n] \in ToSet(cards)
        BY <2>1 DEF ToSet
      <3>2. cards = [n \in 1..Len(parsed) |-> cards[n]]
        BY <2>1
      <3> HIDE DEF cards
      <3> QED
        BY <3>1, <3>2
    <2> HIDE DEF cards
    <2> QED
      BY <1>3, <2>2, SeqDef
  <1>5. ASSUME NEW x \in ToSet(cards)
        PROVE  \E card \in CardShape : x = Normalised(card)
    <2>1. PICK n \in DOMAIN cards : x = cards[n]
      BY DEF ToSet
    <2>2. x = Normalised(parsed[n]) /\ parsed[n] \in CardShape
      BY <1>1, <1>3, <2>1
    <2> QED
      BY <2>2
  <1> HIDE DEF cards
  <1>6. c \in ToSet(cards) /\ c \notin gone
    <2> HIDE DEF gone
    <2>1. Dropping(cards, gone) \in Seq(ToSet(cards) \ gone)
      BY <1>4, DroppingType
    <2>2. ToSet(Dropping(cards, gone)) \subseteq ToSet(cards) \ gone
      BY <2>1 DEF ToSet
    <2> QED
      BY <1>2, <2>2
  <1>7. c.term # <<>>
    BY <1>6
  <1>8. PICK card \in CardShape : c = Normalised(card)
    BY <1>5, <1>6
  <1>9. card.context \in Text
    BY DEF CardShape
  <1>10. c.term = FindSurface(card.term, card.context) /\ c.context = card.context
    BY <1>8 DEF Normalised, CardShape
  <1>11. PICK mn \in Words(card.context) :
            c.term = SubSeq(card.context, mn[1], mn[2])
    BY <1>7, <1>9, <1>10, SurfaceIsWord
  <1>12. \A k \in 1..Len(card.context) :
            card.context[k] \notin {Brace} \union DOMAIN Opening
    <2>1. DOMAIN card.context = 1..Len(card.context)
      BY <1>9 DEF Text
    <2> QED
      BY <1>10, <2>1 DEF ToSet
  <1> HIDE DEF gone
  <1>13. Hides(SplitCloze(card.context, c.term), c.term)
    BY <1>9, <1>11, <1>12, GapOfWord DEF Text
  <1> QED
    BY <1>10, <1>13

\* A card that an Anki deck made can be practised.
THEOREM CardsCanBePractised == Spec => []GapHidesAnswer
  <1>1. CardsWithoutGap = {}
    BY CardsHide DEF CardsWithoutGap
  <1>2. HashesWithoutGap = {}
    BY <1>1 DEF HashesWithoutGap
  <1>3. GapHidesAnswer
    BY <1>2 DEF GapHidesAnswer
  <1> QED
    BY <1>3, PTL
=============================================================================
