------------------------- MODULE Catalogue_proofs ---------------------------
(***************************************************************************)
(* Theorems about what the catalogue holds: SetLibrary, for any number of  *)
(* requests, users, sets, items and languages and for any set of routes,   *)
(* and Moderation, for any number of requests and entries.                 *)
(***************************************************************************)
EXTENDS SetLibrary, Moderation, TLAPS

(***************************************************************************)
(* What a request has at hand between its check and its write, and that no *)
(* row refers to a row that was never inserted.                            *)
(***************************************************************************)
SetPlaces == {"setLang", "dropSet", "copySet", "newItem", "insert"}
ItemPlaces == {"dropItem", "insert"}

HandOK ==
    \A r \in Requests :
        /\ req[r].at \in SetPlaces =>
              req[r].set \in Sets /\ sets[req[r].set].is # "none"
        /\ req[r].at \in ItemPlaces =>
              req[r].item \in Items /\ items[req[r].item].is # "none"

MembersExist ==
    \A s \in Sets, i \in Items :
        <<s, i>> \in members => sets[s].is # "none" /\ items[i].is # "none"

LibraryInv == LibraryTypeOK /\ HandOK /\ MembersExist

\* What a check has established still holds if none of the rows it names was
\* written since.
Checked(r) ==
    LET u == req[r].user
        s == req[r].set
        i == req[r].item
    IN  /\ At(r, "setLang") =>
              \A j \in Items : LiveItem(j) /\ <<s, j>> \in members =>
                  items[j].lang = req[r].lang
        /\ req[r].at \in {"copySet", "newItem"} =>
              LiveSet(s) /\ sets[s].lang = req[r].lang
        /\ At(r, "insert") =>
              LiveItem(i) /\ LiveSet(s) /\ items[i].lang = sets[s].lang
        /\ At(r, "dropItem") =>
              /\ items[i].owner = u
              /\ \A t \in Sets : <<t, i>> \in members /\ LiveSet(t) =>
                     sets[t].owner = u
        /\ At(r, "dropSet") =>
              /\ sets[s].owner = u
              /\ \A j \in req[r].orphans :
                    /\ items[j].owner = u
                    /\ \A t \in Sets \ {s} : <<t, j>> \notin members

ChecksHold == ~ raced => \A r \in Requests : ~ req[r].stale => Checked(r)

LanguageInv == LibraryInv /\ SameLanguage /\ ChecksHold

LEMMA IdleType == Idle \in Local /\ Idle.at = "idle"
  BY DEF Idle, Local, Places

LEMMA InitInv == Init => LanguageInv
  <1> SUFFICES ASSUME Init PROVE LanguageInv
    OBVIOUS
  <1>1. NoRow \in SetRow /\ NoRow \in ItemRow /\ NoRow.is = "none"
    BY DEF NoRow, SetRow, ItemRow, Presence
  <1>2. LibraryTypeOK
    BY <1>1, IdleType DEF Init, LibraryTypeOK
  <1>3. \A r \in Requests : req[r].at = "idle"
    BY IdleType DEF Init
  <1>4. HandOK /\ MembersExist /\ SameLanguage
    BY <1>3 DEF Init, HandOK, MembersExist, SameLanguage, At, SetPlaces, ItemPlaces
  <1>5. \A r \in Requests : Checked(r)
    BY <1>3 DEF Checked, At
  <1> QED
    BY <1>2, <1>4, <1>5 DEF LanguageInv, LibraryInv, ChecksHold

-----------------------------------------------------------------------------
(***************************************************************************)
(* Reads: a request goes on, and no row changes.                           *)
(***************************************************************************)
LEMMA GoesOn ==
    ASSUME LanguageInv, NEW r \in Requests, NEW local \in Local,
           req' = [req EXCEPT ![r] = local], OnlyReq,
           local.at \in SetPlaces =>
               local.set \in Sets /\ sets[local.set].is # "none",
           local.at \in ItemPlaces =>
               local.item \in Items /\ items[local.item].is # "none",
           ~ raced => Checked(r)'
    PROVE  LanguageInv'
  <1> USE DEF LanguageInv, LibraryInv, OnlyReq
  <1>1. /\ \A q \in Requests : q # r => req'[q] = req[q]
        /\ req'[r] = local /\ req' \in [Requests -> Local]
    BY DEF LibraryTypeOK
  <1>2. LibraryTypeOK'
    BY <1>1 DEF LibraryTypeOK
  <1>3. HandOK'
    BY <1>1 DEF HandOK, At, SetPlaces, ItemPlaces
  <1>4. MembersExist' /\ SameLanguage'
    BY DEF MembersExist, SameLanguage, LiveSet, LiveItem
  <1>5. \A q \in Requests : q # r /\ Checked(q) => Checked(q)'
    BY <1>1 DEF Checked, At, LiveSet, LiveItem
  <1>6. ChecksHold'
    BY <1>1, <1>5 DEF ChecksHold
  <1> QED
    BY <1>2, <1>3, <1>4, <1>6

LEMMA Proceeds ==
    ASSUME LanguageInv, NEW r \in Requests, NEW place \in Places,
           NEW u \in Users, NEW s \in Sets \union {None},
           NEW i \in Items \union {None}, NEW l \in Langs \union {None},
           Proceed(r, place, u, s, i, l), OnlyReq,
           place \in SetPlaces => s \in Sets /\ sets[s].is # "none",
           place \in ItemPlaces => i \in Items /\ items[i].is # "none",
           ~ raced => Checked(r)'
    PROVE  LanguageInv'
  <1> DEFINE local == [Idle EXCEPT !.at = place, !.user = u, !.set = s,
                                   !.item = i, !.lang = l]
  <1>1. local \in Local /\ local.at = place /\ local.set = s /\ local.item = i
    BY DEF Idle, Local
  <1>2. req' = [req EXCEPT ![r] = local]
    BY DEF Proceed
  <1> HIDE DEF local
  <1> QED
    BY <1>1, <1>2, GoesOn

Reads(r, u) ==
    \/ \E s \in Sets :
          \/ DeleteSet(r, u, s) \/ ForkSet(r, u, s) \/ CreateItem(r, u, s)
          \/ \E l \in Langs : UpdateSet(r, u, s, l)
          \/ \E i \in Items : ForkItem(r, u, s, i) \/ AddItem(r, u, s, i)
    \/ \E i \in Items : OnItem(r, u, i)

LEMMA ReadsKeepInv ==
    ASSUME LanguageInv, NEW r \in Requests, NEW u \in Users, Reads(r, u)
    PROVE  LanguageInv'
  <1> USE DEF LanguageInv, LibraryInv
  <1>1. /\ req \in [Requests -> Local] /\ sets \in [Sets -> SetRow]
        /\ items \in [Items -> ItemRow]
    BY DEF LibraryTypeOK
  \* What a request holds after Proceed.
  <1>2. ASSUME NEW place, NEW s, NEW i, NEW l, Proceed(r, place, u, s, i, l)
        PROVE  /\ req'[r].at = place /\ req'[r].user = u /\ req'[r].set = s
               /\ req'[r].item = i /\ req'[r].lang = l
    BY <1>1, <1>2 DEF Proceed, Idle
  <1>3. ASSUME NEW s \in Sets, NEW l \in Langs, UpdateSet(r, u, s, l)
        PROVE  LanguageInv'
    <2>1. /\ OwnsSet(u, s) /\ Proceed(r, "setLang", u, s, None, l) /\ OnlyReq
          /\ ItemLanguages(s) = {} \/ l \in ItemLanguages(s)
      BY <1>3 DEF UpdateSet
    <2>2. ASSUME ~ raced
          PROVE  \A j \in Items : LiveItem(j) /\ <<s, j>> \in members => items[j].lang = l
      BY <2>1, <2>2 DEF SameLanguage, ItemLanguages, OwnsSet
    <2>3. ~ raced => Checked(r)'
      BY <1>2, <2>1, <2>2 DEF Checked, At, LiveItem, OnlyReq
    <2> QED
      BY <2>1, <2>3, Proceeds DEF OwnsSet, LiveSet, Places, SetPlaces, ItemPlaces
  <1>4. ASSUME NEW s \in Sets, DeleteSet(r, u, s)
        PROVE  LanguageInv'
    <2> DEFINE local == [Idle EXCEPT !.at = "dropSet", !.user = u, !.set = s,
                                     !.orphans = Orphans(s, u)]
    <2>1. /\ local \in Local /\ local.at = "dropSet" /\ local.user = u
          /\ local.set = s /\ local.orphans = Orphans(s, u)
      BY DEF Idle, Local, Places, Orphans
    <2>2. OwnsSet(u, s) /\ req' = [req EXCEPT ![r] = local] /\ OnlyReq
      BY <1>4 DEF DeleteSet
    <2>3. req'[r] = local
      BY <1>1, <2>2
    <2> HIDE DEF local
    <2>4. Checked(r)'
      BY <2>1, <2>2, <2>3 DEF Checked, At, OwnsSet, OwnsItem, Orphans, OnlyReq
    <2> QED
      BY <2>1, <2>2, <2>4, GoesOn DEF OwnsSet, LiveSet, SetPlaces, ItemPlaces
  <1>5. ASSUME NEW s \in Sets, ForkSet(r, u, s) \/ CreateItem(r, u, s)
        PROVE  LanguageInv'
    <2>1. PICK place \in {"copySet", "newItem"} :
             Proceed(r, place, u, s, None, sets[s].lang)
      BY <1>5 DEF ForkSet, CreateItem
    <2>2. LiveSet(s) /\ OnlyReq
      BY <1>5 DEF ForkSet, CreateItem, Visible, OwnsSet
    <2>3. Checked(r)'
      BY <1>2, <2>1, <2>2 DEF Checked, At, LiveSet, OnlyReq
    <2>4. sets[s].lang \in Langs \union {None}
      BY <1>1 DEF SetRow
    <2> QED
      BY <2>1, <2>2, <2>3, <2>4, Proceeds DEF LiveSet, Places, SetPlaces, ItemPlaces
  <1>6. ASSUME NEW s \in Sets, NEW i \in Items, ForkItem(r, u, s, i)
        PROVE  LanguageInv'
    <2>1. /\ Proceed(r, "newItem", u, s, None, items[i].lang)
          /\ LiveSet(s) /\ sets[s].lang = items[i].lang /\ OnlyReq
      BY <1>6 DEF ForkItem, OwnsSet
    <2>2. Checked(r)'
      BY <1>2, <2>1 DEF Checked, At, LiveSet, OnlyReq
    <2>3. items[i].lang \in Langs \union {None}
      BY <1>1 DEF ItemRow
    <2> QED
      BY <2>1, <2>2, <2>3, Proceeds DEF LiveSet, Places, SetPlaces, ItemPlaces
  <1>7. ASSUME NEW s \in Sets, NEW i \in Items, AddItem(r, u, s, i)
        PROVE  LanguageInv'
    <2>1. /\ Proceed(r, "insert", u, s, i, None)
          /\ LiveSet(s) /\ LiveItem(i) /\ sets[s].lang = items[i].lang /\ OnlyReq
      BY <1>7 DEF AddItem, OwnsSet
    <2>2. Checked(r)'
      BY <1>2, <2>1 DEF Checked, At, LiveSet, LiveItem, OnlyReq
    <2> QED
      BY <2>1, <2>2, Proceeds DEF LiveSet, LiveItem, Places, SetPlaces, ItemPlaces
  <1>8. ASSUME NEW i \in Items, SubmitItem(r, u, i)
        PROVE  LanguageInv'
    <2>1. Proceed(r, "publish", u, None, i, None) /\ OnlyReq
      BY <1>8 DEF SubmitItem
    <2>2. Checked(r)'
      BY <1>2, <2>1 DEF Checked, At
    <2> QED
      BY <2>1, <2>2, Proceeds DEF Places, SetPlaces, ItemPlaces
  <1>9. ASSUME NEW i \in Items, DeleteItem(r, u, i)
         PROVE  LanguageInv'
    <2>1. /\ OwnsItem(u, i) /\ OnlyReq
          /\ \/ Proceed(r, "release", u, None, i, None)
             \/ Proceed(r, "dropItem", u, None, i, None) /\ ExternalSets(i, u) = {}
      BY <1>9 DEF DeleteItem
    <2>2. Checked(r)'
      BY <1>2, <2>1
      DEF Checked, At, OnlyReq, OwnsItem, LiveSet, LiveItem, ExternalSets
    <2> QED
      BY <2>1, <2>2, Proceeds DEF OwnsItem, LiveItem, Places, SetPlaces, ItemPlaces
  <1> QED
    BY <1>3, <1>4, <1>5, <1>6, <1>7, <1>8, <1>9 DEF Reads, OnItem

-----------------------------------------------------------------------------
(***************************************************************************)
(* Writes: Wrote marks every request that has read a written row.          *)
(***************************************************************************)
LEMMA OthersAfter ==
    ASSUME LibraryInv, NEW r \in Requests, NEW ss, NEW ii, Wrote(r, ss, ii)
    PROVE  /\ req' \in [Requests -> Local] /\ req'[r] = Idle
           /\ raced' \in BOOLEAN /\ (~ raced' => ~ raced /\ ~ req[r].stale)
           /\ \A q \in Requests : q # r =>
                 /\ req'[q].at = req[q].at /\ req'[q].set = req[q].set
                 /\ req'[q].item = req[q].item
                 /\ ~ req'[q].stale =>
                       /\ req'[q] = req[q] /\ req[q].set \notin ss
                       /\ req[q].item \notin ii
                       /\ req[q].orphans \intersect ii = {}
  <1>1. req \in [Requests -> Local] /\ raced \in BOOLEAN /\ req[r].stale \in BOOLEAN
    BY DEF LibraryInv, LibraryTypeOK, Local
  <1>2. raced' \in BOOLEAN /\ (~ raced' => ~ raced /\ ~ req[r].stale)
    BY <1>1 DEF Wrote
  <1>3. req' = [q \in Requests |->
                 IF q = r THEN Idle
                 ELSE IF \/ req[q].set \in ss
                         \/ req[q].item \in ii
                         \/ req[q].orphans \intersect ii # {}
                 THEN [req[q] EXCEPT !.stale = TRUE]
                 ELSE req[q]]
    BY DEF Wrote
  <1>4. ASSUME NEW q \in Requests
        PROVE  /\ [req[q] EXCEPT !.stale = TRUE] \in Local
               /\ [req[q] EXCEPT !.stale = TRUE].at = req[q].at
               /\ [req[q] EXCEPT !.stale = TRUE].set = req[q].set
               /\ [req[q] EXCEPT !.stale = TRUE].item = req[q].item
               /\ [req[q] EXCEPT !.stale = TRUE].stale
    BY <1>1 DEF Local
  <1>5. req' \in [Requests -> Local] /\ req'[r] = Idle
    BY <1>1, <1>3, <1>4, IdleType
  <1> QED
    BY <1>1, <1>2, <1>3, <1>4, <1>5

\* What a write does to rows, seen from a request that it has not marked: a row
\* is never taken up again, and no other row has changed or is shared anew.
RowsGrow ==
    /\ \A s \in Sets : sets[s].is # "none" =>
          /\ sets'[s].is # "none"
          /\ sets'[s].is = "live" => LiveSet(s) /\ sets'[s].owner = sets[s].owner
    /\ \A i \in Items : items[i].is # "none" =>
          /\ items'[i].is # "none"
          /\ items'[i].is = "live" => LiveItem(i) /\ items'[i].lang = items[i].lang

OnlyMarked(ss, ii) ==
    /\ \A s \in Sets \ ss : sets[s].is # "none" =>
          /\ sets'[s].is = sets[s].is /\ sets'[s].owner = sets[s].owner
          /\ sets'[s].lang = sets[s].lang
    /\ \A i \in Items \ ii : items'[i] = items[i]
    /\ \A s \in Sets, i \in Items : <<s, i>> \in members' \ members =>
          i \in ii /\ (s \in ss \/ sets[s].is = "none")

LEMMA CheckStays ==
    ASSUME LibraryInv, RowsGrow, NEW ss, NEW ii, OnlyMarked(ss, ii),
           NEW q \in Requests, req'[q] = req[q], req[q].set \notin ss,
           req[q].item \notin ii, req[q].orphans \intersect ii = {}, Checked(q)
    PROVE  Checked(q)'
  <1> DEFINE u == req[q].user
             s == req[q].set
             i == req[q].item
  <1>1. req[q] \in Local
    BY DEF LibraryInv, LibraryTypeOK
  <1>2. CASE At(q, "setLang")
    <2>1. s \in Sets /\ sets[s].is # "none"
      BY <1>2 DEF LibraryInv, HandOK, At, SetPlaces, ItemPlaces
    <2>2. \A j \in Items : <<s, j>> \in members' =>
              <<s, j>> \in members /\ items[j].is # "none"
      BY <2>1 DEF OnlyMarked, LibraryInv, MembersExist
    <2> QED
      BY <1>2, <2>1, <2>2 DEF Checked, At, RowsGrow, LiveItem
  <1>3. CASE req[q].at \in {"copySet", "newItem"}
    <2>1. s \in Sets /\ sets[s].is # "none"
      BY <1>3 DEF LibraryInv, HandOK, At, SetPlaces, ItemPlaces
    <2> QED
      BY <1>3, <2>1 DEF Checked, At, OnlyMarked, LiveSet
  <1>4. CASE At(q, "insert")
    <2>1. s \in Sets /\ sets[s].is # "none" /\ i \in Items
      BY <1>4 DEF LibraryInv, HandOK, At, SetPlaces, ItemPlaces
    <2> QED
      BY <1>4, <2>1 DEF Checked, At, OnlyMarked, LiveSet, LiveItem
  <1>5. CASE At(q, "dropItem")
    <2>1. i \in Items
      BY <1>5 DEF LibraryInv, HandOK, At, ItemPlaces
    <2>2. \A t \in Sets : <<t, i>> \in members' =>
              <<t, i>> \in members /\ sets[t].is # "none"
      BY <2>1 DEF OnlyMarked, LibraryInv, MembersExist
    <2> QED
      BY <1>5, <2>1, <2>2 DEF Checked, At, OnlyMarked, RowsGrow, LiveSet
  <1>6. CASE At(q, "dropSet")
    <2>1. s \in Sets /\ sets[s].is # "none" /\ req[q].orphans \subseteq Items
      BY <1>1, <1>6 DEF LibraryInv, HandOK, At, SetPlaces, ItemPlaces, Local
    <2>2. \A j \in req[q].orphans : j \notin ii
      OBVIOUS
    <2> QED
      BY <1>6, <2>1, <2>2 DEF Checked, At, OnlyMarked
  <1>7. CASE req[q].at \notin {"setLang", "copySet", "newItem", "insert", "dropItem",
                               "dropSet"}
    BY <1>7 DEF Checked, At
  <1> QED
    BY <1>2, <1>3, <1>4, <1>5, <1>6, <1>7 DEF At

\* So a write has only its own rows to look at.
LEMMA WritesFrom ==
    ASSUME LanguageInv, NEW r \in Requests, NEW ss, NEW ii, Wrote(r, ss, ii),
           sets' \in [Sets -> SetRow], items' \in [Items -> ItemRow],
           members' \subseteq Sets \X Items,
           library' \in [Users -> [Sets -> {"no", "saved", "pinned"}]],
           RowsGrow, OnlyMarked(ss, ii),
           \A s \in Sets, i \in Items : <<s, i>> \in members' \ members =>
               sets'[s].is # "none" /\ items'[i].is # "none",
           ~ raced /\ ~ req[r].stale => SameLanguage'
    PROVE  LanguageInv'
  <1> USE DEF LanguageInv
  <1>1. /\ req' \in [Requests -> Local] /\ req'[r] = Idle
        /\ raced' \in BOOLEAN /\ (~ raced' => ~ raced /\ ~ req[r].stale)
        /\ \A q \in Requests : q # r =>
              /\ req'[q].at = req[q].at /\ req'[q].set = req[q].set
              /\ req'[q].item = req[q].item
              /\ ~ req'[q].stale =>
                    /\ req'[q] = req[q] /\ req[q].set \notin ss
                    /\ req[q].item \notin ii
                    /\ req[q].orphans \intersect ii = {}
    BY OthersAfter
  <1>2. LibraryTypeOK'
    BY <1>1 DEF LibraryTypeOK
  <1>3. HandOK'
    BY <1>1, IdleType DEF LibraryInv, HandOK, At, SetPlaces, ItemPlaces, RowsGrow
  <1>4. MembersExist'
    BY DEF LibraryInv, MembersExist, RowsGrow
  <1>5. SameLanguage'
    BY <1>1 DEF SameLanguage
  <1>6. Checked(r)'
    BY <1>1, IdleType DEF Checked, At
  <1>7. ASSUME ~ raced', NEW q \in Requests, ~ req'[q].stale, q # r
        PROVE  Checked(q)'
    <2>1. ~ raced /\ ~ req[q].stale
      BY <1>1, <1>7
    <2> QED
      BY <1>1, <1>7, <2>1, CheckStays DEF ChecksHold
  <1>8. ChecksHold'
    BY <1>6, <1>7 DEF ChecksHold
  <1> QED
    BY <1>2, <1>3, <1>4, <1>5, <1>8 DEF LibraryInv

LEMMA WritesKeepInv ==
    ASSUME LanguageInv, NEW r \in Requests, Write(r)
    PROVE  LanguageInv'
  <1> DEFINE u == req[r].user
             s == req[r].set
             i == req[r].item
  <1> USE DEF LanguageInv, LibraryInv
  <1>1. /\ req[r] \in Local /\ sets \in [Sets -> SetRow]
        /\ items \in [Items -> ItemRow] /\ members \subseteq Sets \X Items
        /\ library \in [Users -> [Sets -> {"no", "saved", "pinned"}]]
    BY DEF LibraryTypeOK
  <1>2. /\ req[r].at \in SetPlaces => s \in Sets /\ sets[s].is # "none"
        /\ req[r].at \in ItemPlaces => i \in Items /\ items[i].is # "none"
    BY DEF HandOK
  <1>3. ~ raced /\ ~ req[r].stale => SameLanguage /\ Checked(r)
    BY DEF ChecksHold
  <1>4. CASE SetLanguage(r)
    <2>1. /\ sets' = [sets EXCEPT ![s].lang = req[r].lang]
          /\ Wrote(r, {s}, {}) /\ UNCHANGED <<items, members, library>>
          /\ At(r, "setLang") /\ s \in Sets
      BY <1>2, <1>4 DEF SetLanguage, At, SetPlaces
    <2>2. sets' \in [Sets -> SetRow]
      BY <1>1, <2>1 DEF SetRow, Local
    <2>3. /\ \A t \in Sets : sets'[t].is = sets[t].is /\ sets'[t].owner = sets[t].owner
          /\ \A t \in Sets \ {s} : sets'[t] = sets[t]
          /\ sets'[s].lang = req[r].lang
      BY <1>1, <2>1 DEF SetRow
    <2>4. RowsGrow /\ OnlyMarked({s}, {})
      BY <2>1, <2>3 DEF RowsGrow, OnlyMarked, LiveSet, LiveItem
    <2>5. ~ raced /\ ~ req[r].stale => SameLanguage'
      BY <1>3, <2>1, <2>3 DEF SameLanguage, Checked, LiveSet, LiveItem
    <2> QED
      BY <1>1, <2>1, <2>2, <2>4, <2>5, WritesFrom
  <1>5. CASE DropSet(r)
    <2> DEFINE gone == req[r].orphans
    <2>1. /\ sets' = [sets EXCEPT ![s] = Deleted]
          /\ items' = [j \in Items |-> IF j \in gone THEN Deleted ELSE items[j]]
          /\ Wrote(r, {s}, gone) /\ UNCHANGED <<members, library>>
          /\ s \in Sets
      BY <1>2, <1>5 DEF DropSet, At, SetPlaces
    <2>2. Deleted \in SetRow /\ Deleted \in ItemRow /\ Deleted.is = "deleted"
      BY DEF Deleted, NoRow, SetRow, ItemRow, Presence
    <2>3. sets' \in [Sets -> SetRow] /\ items' \in [Items -> ItemRow]
      BY <1>1, <2>1, <2>2
    <2>4. RowsGrow /\ OnlyMarked({s}, gone)
      BY <1>1, <2>1, <2>2 DEF RowsGrow, OnlyMarked, LiveSet, LiveItem
    <2>5. ~ raced /\ ~ req[r].stale => SameLanguage'
      BY <1>1, <1>3, <2>1, <2>2 DEF SameLanguage, LiveSet, LiveItem
    <2> QED
      BY <1>1, <2>1, <2>3, <2>4, <2>5, WritesFrom
  <1>6. CASE CopySet(r)
    <2> DEFINE copied == {j \in Items : <<s, j>> \in members}
               row == [is |-> "live", owner |-> u, lang |-> req[r].lang,
                       public |-> FALSE]
    <2>1. PICK f \in NewSets :
             /\ sets' = [sets EXCEPT ![f] = row]
             /\ members' = members \union {<<f, j>> : j \in copied}
             /\ library' = [library EXCEPT ![u] =
                   [@ EXCEPT ![s] = "no",
                             ![f] = IF library[u][s] = "pinned"
                                    THEN "pinned" ELSE "saved"]]
             /\ Wrote(r, {}, copied)
      BY <1>6 DEF CopySet
    <2>2. /\ UNCHANGED items /\ s \in Sets /\ f \in Sets /\ sets[f].is = "none"
          /\ sets[s].is # "none" /\ At(r, "copySet")
      BY <1>2, <1>6 DEF CopySet, At, SetPlaces, NewSets
    <2>3. row \in SetRow /\ row.is = "live" /\ row.lang = req[r].lang
      BY <1>1 DEF SetRow, Presence, Local
    <2> HIDE DEF row
    <2>4. /\ sets' \in [Sets -> SetRow] /\ members' \subseteq Sets \X Items
          /\ library' \in [Users -> [Sets -> {"no", "saved", "pinned"}]]
      <3>1. sets' \in [Sets -> SetRow]
        BY <1>1, <2>1, <2>2, <2>3
      <3>2. members' \subseteq Sets \X Items
        <4>1. \A j \in copied : <<f, j>> \in Sets \X Items
          BY <2>2
        <4> QED
          BY <1>1, <2>1, <4>1
      <3>3. PICK pin \in {"pinned", "saved"} :
               library' = [library EXCEPT ![u] = [@ EXCEPT ![s] = "no", ![f] = pin]]
        BY <2>1
      <3>4. u \in Users => library[u] \in [Sets -> {"no", "saved", "pinned"}]
        BY <1>1
      <3>5. u \in Users => [library[u] EXCEPT ![s] = "no", ![f] = pin]
                              \in [Sets -> {"no", "saved", "pinned"}]
        BY <3>4
      <3>6. library' \in [Users -> [Sets -> {"no", "saved", "pinned"}]]
        BY <1>1, <3>3, <3>5
      <3> QED
        BY <3>1, <3>2, <3>6
    <2>5. sets'[f] = row /\ \A t \in Sets \ {f} : sets'[t] = sets[t]
      BY <1>1, <2>1, <2>2
    <2>6. RowsGrow /\ OnlyMarked({}, copied)
      BY <2>1, <2>2, <2>5 DEF RowsGrow, OnlyMarked, LiveSet, LiveItem
    <2>7. \A t \in Sets, j \in Items : <<t, j>> \in members' \ members =>
              t = f /\ <<s, j>> \in members
      BY <2>1
    <2>8. ~ raced /\ ~ req[r].stale => SameLanguage'
      <3> SUFFICES ASSUME ~ raced, ~ req[r].stale, NEW t \in Sets, NEW j \in Items,
                          LiveSet(t)', LiveItem(j)', <<t, j>> \in members'
                   PROVE  items[j].lang = sets'[t].lang
        BY <2>2 DEF SameLanguage
      <3>1. CASE t = f
        <4>1. <<f, j>> \notin members
          BY <2>2 DEF MembersExist
        <4>2. <<s, j>> \in members
          BY <2>7, <3>1, <4>1
        <4> QED
          BY <1>3, <2>2, <2>3, <2>5, <3>1, <4>2
          DEF SameLanguage, Checked, At, LiveItem
      <3>2. CASE t # f
        BY <1>3, <2>2, <2>5, <2>7, <3>2 DEF SameLanguage, LiveSet, LiveItem
      <3> QED
        BY <3>1, <3>2
    <2>9. \A t \in Sets, j \in Items : <<t, j>> \in members' \ members =>
              sets'[t].is # "none" /\ items'[j].is # "none"
      BY <2>2, <2>3, <2>5, <2>7 DEF MembersExist
    <2> HIDE DEF copied
    <2> QED
      BY <1>1, <2>1, <2>2, <2>4, <2>6, <2>8, <2>9, WritesFrom
  <1>7. CASE InsertNewItem(r)
    <2> DEFINE row == [is |-> "live", owner |-> u, lang |-> req[r].lang,
                       public |-> FALSE]
    <2>1. PICK n \in NewItems :
             /\ items' = [items EXCEPT ![n] = row]
             /\ members' = members \union {<<s, n>>}
             /\ Wrote(r, {s}, {n})
      BY <1>7 DEF InsertNewItem
    <2>2. /\ UNCHANGED <<sets, library>> /\ s \in Sets /\ sets[s].is # "none"
          /\ n \in Items /\ items[n].is = "none" /\ At(r, "newItem")
      BY <1>2, <1>7 DEF InsertNewItem, At, SetPlaces, NewItems
    <2>3. row \in ItemRow /\ row.is = "live" /\ row.lang = req[r].lang
      BY <1>1 DEF ItemRow, Presence, Local
    <2> HIDE DEF row
    <2>4. items' \in [Items -> ItemRow] /\ members' \subseteq Sets \X Items
      BY <1>1, <2>1, <2>2, <2>3
    <2>5. items'[n] = row /\ \A j \in Items \ {n} : items'[j] = items[j]
      BY <1>1, <2>1, <2>2
    <2>6. RowsGrow /\ OnlyMarked({s}, {n})
      BY <2>1, <2>2, <2>5 DEF RowsGrow, OnlyMarked, LiveSet, LiveItem
    <2>7. ~ raced /\ ~ req[r].stale => SameLanguage'
      <3> SUFFICES ASSUME ~ raced, ~ req[r].stale, NEW t \in Sets, NEW j \in Items,
                          LiveSet(t)', LiveItem(j)', <<t, j>> \in members'
                   PROVE  items'[j].lang = sets[t].lang
        BY <2>2 DEF SameLanguage
      <3>1. CASE j = n
        <4>1. t = s
          BY <2>1, <2>2, <3>1 DEF MembersExist
        <4> QED
          BY <1>3, <2>2, <2>3, <2>5, <3>1, <4>1 DEF Checked, At
      <3>2. CASE j # n
        BY <1>3, <2>1, <2>2, <2>5, <3>2 DEF SameLanguage, LiveSet, LiveItem
      <3> QED
        BY <3>1, <3>2
    <2>8. \A t \in Sets, j \in Items : <<t, j>> \in members' \ members =>
              sets'[t].is # "none" /\ items'[j].is # "none"
      BY <2>1, <2>2, <2>3, <2>5
    <2> QED
      BY <1>1, <2>1, <2>2, <2>4, <2>6, <2>7, <2>8, WritesFrom
  <1>8. CASE PublishItem(r) \/ ReleaseItem(r) \/ DropItem(r)
    <2>1. /\ \/ items' = [items EXCEPT ![i].public = TRUE]
             \/ items' = [items EXCEPT ![i].owner = None]
             \/ items' = [items EXCEPT ![i] = Deleted] /\ At(r, "dropItem")
          /\ Wrote(r, {}, {i}) /\ UNCHANGED <<sets, members, library>>
      BY <1>8 DEF PublishItem, ReleaseItem, DropItem
    <2>2. Deleted \in ItemRow /\ Deleted.is = "deleted"
      BY DEF Deleted, NoRow, ItemRow, Presence
    <2>3. /\ items' \in [Items -> ItemRow]
          /\ \A j \in Items \ {i} : items'[j] = items[j]
      <3>1. i \in Items => /\ [items[i] EXCEPT !.public = TRUE] \in ItemRow
                           /\ [items[i] EXCEPT !.owner = None] \in ItemRow
        BY <1>1 DEF ItemRow
      <3> QED
        BY <1>1, <2>1, <2>2, <3>1
    <2>4. i \in Items => \/ items'[i].is = items[i].is /\ items'[i].lang = items[i].lang
                         \/ items'[i].is = "deleted"
      BY <1>1, <2>1, <2>2 DEF ItemRow
    <2>5. RowsGrow /\ OnlyMarked({}, {i})
      BY <2>1, <2>3, <2>4 DEF RowsGrow, OnlyMarked, LiveSet, LiveItem
    <2>6. ~ raced /\ ~ req[r].stale => SameLanguage'
      BY <1>3, <2>1, <2>3, <2>4 DEF SameLanguage, LiveSet, LiveItem
    <2> QED
      BY <1>1, <2>1, <2>3, <2>5, <2>6, WritesFrom
  <1>9. CASE InsertMember(r)
    <2>1. /\ members' = members \union {<<s, i>>} /\ Wrote(r, {s}, {i})
          /\ UNCHANGED <<sets, items, library>> /\ At(r, "insert")
          /\ s \in Sets /\ sets[s].is # "none" /\ i \in Items /\ items[i].is # "none"
      BY <1>2, <1>9 DEF InsertMember, At, SetPlaces, ItemPlaces
    <2>2. RowsGrow /\ OnlyMarked({s}, {i})
      BY <2>1 DEF RowsGrow, OnlyMarked, LiveSet, LiveItem
    <2>3. ~ raced /\ ~ req[r].stale => SameLanguage'
      BY <1>3, <2>1 DEF SameLanguage, Checked, LiveSet, LiveItem
    <2> QED
      BY <1>1, <2>1, <2>2, <2>3, WritesFrom
  <1> QED
    BY <1>4, <1>5, <1>6, <1>7, <1>8, <1>9 DEF Write

-----------------------------------------------------------------------------
(***************************************************************************)
(* Handlers of one step.                                                   *)
(***************************************************************************)
Others ==
    \/ \E r \in Requests, u \in Users :
          \/ \E l \in Langs : CreateSet(r, u, l)
          \/ \E s \in Sets, i \in Items : RemoveItem(r, u, s, i)
    \/ \E s \in Sets : ApproveSet(s) \/ \E u \in Users : OnLibrary(u, s)

\* A step that begins no request and writes no row that one has read.
LEMMA UnmarkedFrom ==
    ASSUME LanguageInv, sets' \in [Sets -> SetRow],
           library' \in [Users -> [Sets -> {"no", "saved", "pinned"}]],
           RowsGrow, OnlyMarked({}, {}), UNCHANGED <<items, members, req, raced>>
    PROVE  LanguageInv'
  <1> USE DEF LanguageInv, LibraryInv
  <1>1. LibraryTypeOK'
    BY DEF LibraryTypeOK
  <1>2. HandOK' /\ MembersExist'
    BY DEF HandOK, MembersExist, RowsGrow, At, SetPlaces, ItemPlaces
  <1>3. SameLanguage'
    BY DEF SameLanguage, MembersExist, OnlyMarked, LiveSet, LiveItem
  <1>4. ASSUME NEW q \in Requests, Checked(q)
        PROVE  Checked(q)'
    BY <1>4, CheckStays
  <1>5. ChecksHold'
    BY <1>4 DEF ChecksHold
  <1> QED
    BY <1>1, <1>2, <1>3, <1>5

LEMMA OthersKeepInv ==
    ASSUME LanguageInv, Others
    PROVE  LanguageInv'
  <1> USE DEF LanguageInv, LibraryInv
  <1>1. /\ sets \in [Sets -> SetRow] /\ items \in [Items -> ItemRow]
        /\ members \subseteq Sets \X Items
        /\ library \in [Users -> [Sets -> {"no", "saved", "pinned"}]]
    BY DEF LibraryTypeOK
  <1>2. ASSUME NEW r \in Requests, NEW u \in Users, NEW l \in Langs,
               CreateSet(r, u, l)
        PROVE  LanguageInv'
    <2> DEFINE row == [is |-> "live", owner |-> u, lang |-> l, public |-> FALSE]
    <2>1. PICK s \in NewSets :
             /\ sets' = [sets EXCEPT ![s] = row]
             /\ library' = [library EXCEPT ![u][s] = "saved"]
      BY <1>2 DEF CreateSet
    <2>2. /\ UNCHANGED <<items, members, req, raced>>
          /\ s \in Sets /\ sets[s].is = "none"
      BY <1>2 DEF CreateSet, NewSets
    <2>3. row \in SetRow
      BY DEF SetRow, Presence
    <2> HIDE DEF row
    <2>4. /\ sets' \in [Sets -> SetRow]
          /\ library' \in [Users -> [Sets -> {"no", "saved", "pinned"}]]
      BY <1>1, <2>1, <2>2, <2>3
    <2>5. \A t \in Sets \ {s} : sets'[t] = sets[t]
      BY <1>1, <2>1, <2>2
    <2>6. RowsGrow /\ OnlyMarked({}, {})
      BY <2>2, <2>5 DEF RowsGrow, OnlyMarked, LiveSet, LiveItem
    <2> QED
      BY <2>2, <2>4, <2>6, UnmarkedFrom
  <1>3. ASSUME NEW s \in Sets, ApproveSet(s)
        PROVE  LanguageInv'
    <2>1. /\ sets' = [sets EXCEPT ![s].public = TRUE]
          /\ UNCHANGED <<items, members, library, req, raced>>
      BY <1>3 DEF ApproveSet
    <2>2. sets' \in [Sets -> SetRow]
      BY <1>1, <2>1 DEF SetRow
    <2>3. \A t \in Sets : /\ sets'[t].is = sets[t].is /\ sets'[t].owner = sets[t].owner
                          /\ sets'[t].lang = sets[t].lang
      BY <1>1, <2>1 DEF SetRow
    <2>4. RowsGrow /\ OnlyMarked({}, {})
      BY <2>1, <2>3 DEF RowsGrow, OnlyMarked, LiveSet, LiveItem
    <2> QED
      BY <1>1, <2>1, <2>2, <2>4, UnmarkedFrom
  <1>4. ASSUME NEW u \in Users, NEW s \in Sets, OnLibrary(u, s)
        PROVE  LanguageInv'
    <2>1. PICK mark \in {"no", "saved", "pinned"} :
             library' = [library EXCEPT ![u][s] = mark]
      BY <1>4 DEF OnLibrary, SaveSet, RemoveSet, TogglePin
    <2>2. UNCHANGED <<sets, items, members, req, raced>>
      BY <1>4 DEF OnLibrary, SaveSet, RemoveSet, TogglePin
    <2>3. library' \in [Users -> [Sets -> {"no", "saved", "pinned"}]]
      BY <1>1, <2>1
    <2>4. RowsGrow /\ OnlyMarked({}, {})
      BY <2>2 DEF RowsGrow, OnlyMarked, LiveSet, LiveItem
    <2> QED
      BY <1>1, <2>2, <2>3, <2>4, UnmarkedFrom
  <1>5. ASSUME NEW r \in Requests, NEW u \in Users, NEW s \in Sets, NEW i \in Items,
               RemoveItem(r, u, s, i)
        PROVE  LanguageInv'
    <2>1. /\ members' = members \ {<<s, i>>} /\ Wrote(r, {s}, {i})
          /\ UNCHANGED <<sets, items, library>>
      BY <1>5 DEF RemoveItem
    <2>2. RowsGrow /\ OnlyMarked({s}, {i})
      BY <2>1 DEF RowsGrow, OnlyMarked, LiveSet, LiveItem
    <2>3. ~ raced => SameLanguage'
      BY <2>1 DEF SameLanguage, LiveSet, LiveItem
    <2> QED
      BY <1>1, <2>1, <2>2, <2>3, WritesFrom
  <1> QED
    BY <1>2, <1>3, <1>4, <1>5 DEF Others

LEMMA NextSplits ==
    ASSUME Next
    PROVE  \/ \E r \in Requests : Write(r)
           \/ \E r \in Requests, u \in Users : Reads(r, u)
           \/ Others
  BY DEF Next, Reads, Others, OnSet

LEMMA InvStep == LanguageInv /\ [Next]_vars => LanguageInv'
  <1>1. ASSUME LanguageInv, UNCHANGED vars
        PROVE  LanguageInv'
    BY <1>1
    DEF vars, LanguageInv, LibraryInv, LibraryTypeOK, HandOK, At, MembersExist,
        SameLanguage, LiveSet, LiveItem, ChecksHold, Checked
  <1> QED
    BY <1>1, NextSplits, WritesKeepInv, ReadsKeepInv, OthersKeepInv

\* Rows, memberships, libraries and what a request has read have their types,
\* in any order of the routes, stale checks included.
THEOREM LibraryTypeCorrect == Spec => []LibraryTypeOK
  <1>1. LanguageInv => LibraryTypeOK
    BY DEF LanguageInv, LibraryInv
  <1> QED
    BY <1>1, InitInv, InvStep, PTL DEF Spec

\* The items of a set have its language as long as no request has written on a
\* stale check: the checks of update_set, create_item, add_item_to_set,
\* fork_item_into_set and fork_set are enough, and nothing but the staleness
\* of one can mix two languages in a set.
THEOREM LanguagesAgree == Spec => []SameLanguage
  <1>1. LanguageInv => SameLanguage
    BY DEF LanguageInv
  <1> QED
    BY <1>1, InitInv, InvStep, PTL DEF Spec

-----------------------------------------------------------------------------
Unshared ==
    ~ raced' =>
        \A i \in Items : items[i].is = "live" /\ items'[i].is = "deleted" =>
            \A s \in Sets : <<s, i>> \in members /\ LiveSet(s) =>
                sets[s].owner = items[i].owner

LEMMA UnsharedStep ==
    ASSUME LanguageInv, [Next]_vars
    PROVE  Unshared
  <1> SUFFICES ASSUME ~ raced', NEW i \in Items, items[i].is = "live",
                      items'[i].is = "deleted", NEW s \in Sets, <<s, i>> \in members,
                      LiveSet(s)
               PROVE  sets[s].owner = items[i].owner
    BY DEF Unshared
  <1> USE DEF LanguageInv, LibraryInv
  <1>1. items \in [Items -> ItemRow] /\ req \in [Requests -> Local]
    BY DEF LibraryTypeOK
  <1>2. items' # items
    OBVIOUS
  <1>3. CASE \E r \in Requests : Write(r)
    <2>1. PICK r \in Requests : Write(r)
      BY <1>3
    <2>2. \E ss, ii : Wrote(r, ss, ii)
      BY <2>1 DEF Write, SetLanguage, DropSet, CopySet, InsertNewItem, PublishItem,
                  ReleaseItem, DropItem, InsertMember
    <2>3. ~ raced /\ ~ req[r].stale
      BY <2>2, OthersAfter
    <2>4. Checked(r)
      BY <2>3 DEF ChecksHold
    <2>5. CASE DropSet(r)
      <3>1. i \in req[r].orphans
        BY <1>1, <2>5 DEF DropSet
      <3>2. /\ sets[req[r].set].owner = req[r].user /\ items[i].owner = req[r].user
            /\ \A t \in Sets \ {req[r].set} : <<t, i>> \notin members
        BY <2>4, <2>5, <3>1 DEF DropSet, Checked, At
      <3> QED
        BY <3>2
    <2>6. CASE DropItem(r)
      <3>1. req[r].item = i
        BY <1>1, <2>6 DEF DropItem
      <3> QED
        BY <2>4, <2>6, <3>1 DEF DropItem, Checked, At
    <2>7. CASE PublishItem(r) \/ ReleaseItem(r)
      <3>1. items'[i].is = items[i].is
        BY <1>1, <2>7 DEF PublishItem, ReleaseItem, ItemRow
      <3> QED
        BY <3>1
    <2>8. CASE InsertNewItem(r)
      <3>1. items'[i].is \in {"live", items[i].is}
        BY <1>1, <2>8 DEF InsertNewItem
      <3> QED
        BY <3>1
    <2>9. CASE SetLanguage(r) \/ CopySet(r) \/ InsertMember(r)
      BY <1>2, <2>9 DEF SetLanguage, CopySet, InsertMember
    <2> QED
      BY <2>1, <2>5, <2>6, <2>7, <2>8, <2>9 DEF Write
  <1>4. CASE \E r \in Requests, u \in Users : Reads(r, u)
    <2>1. PICK r \in Requests, u \in Users : Reads(r, u)
      BY <1>4
    <2>2. OnlyReq
      BY <2>1 DEF Reads, UpdateSet, DeleteSet, ForkSet, CreateItem, ForkItem, AddItem,
                  OnItem, SubmitItem, DeleteItem
    <2> QED
      BY <1>2, <2>2 DEF OnlyReq
  <1>5. CASE Others
    BY <1>2, <1>5 DEF Others, CreateSet, ApproveSet, RemoveItem, OnLibrary, SaveSet,
                      RemoveSet, TogglePin
  <1> QED
    BY <1>2, <1>3, <1>4, <1>5, NextSplits DEF vars

\* Whoever deletes an item, or a set with its orphans, deletes no card that is
\* in a live set of somebody else, if nothing the check looked at was written
\* since (delete_item, delete_set).
THEOREM NobodyLosesACard == Spec => DeletedIsUnshared
  <1>1. LanguageInv /\ [Next]_vars
          => [~ raced' =>
                \A i \in Items : items[i].is = "live" /\ items'[i].is = "deleted" =>
                    \A s \in Sets : <<s, i>> \in members /\ LiveSet(s) =>
                        sets[s].owner = items[i].owner]_vars
    BY UnsharedStep DEF Unshared
  <1> QED
    BY <1>1, InitInv, InvStep, PTL DEF Spec, DeletedIsUnshared
-----------------------------------------------------------------------------
(***************************************************************************)
(* Types, and where a request is.  A verdict in progress is on an open     *)
(* entry because no two moderators have the same entry locked, and because *)
(* whoever writes an entry waits for its lock.                             *)
(***************************************************************************)
PlaceOK ==
    /\ \A p \in Admins : pc[p] = "resolve" => picked[p] \in EntryIds
    /\ \A p \in Authors : pc[p] = "publish" => kind = "item"

OneHolder ==
    \A p, q \in Admins :
        pc[p] = "decide" /\ pc[q] = "decide" /\ picked[p] = picked[q] => p = q

ModerationInv == ModerationTypeOK /\ PlaceOK /\ OneHolder

LEMMA ModerationStarts == ModerationInit => ModerationInv
  <1> SUFFICES ASSUME ModerationInit PROVE ModerationInv
    OBVIOUS
  <1>1. target \in Targets
    BY DEF ModerationInit, Targets, ContentStatus
  <1>2. \A p \in Processes : pc[p] = "idle"
    BY DEF ModerationInit
  <1>3. ModerationTypeOK
    BY <1>1, <1>2 DEF ModerationInit, ModerationTypeOK, EntryStates, Processes
  <1> QED
    BY <1>2, <1>3 DEF ModerationInv, PlaceOK, OneHolder, Processes

LEMMA AuthorInv ==
    ASSUME ModerationInv, NEW p \in Authors, AuthorStep(p)
    PROVE  ModerationInv'
  <1> USE ModerationAssumption
      DEF ModerationInv, ModerationTypeOK, PlaceOK, OneHolder, Processes, Targets,
          ContentStatus, EntryStates, Verdicts
  <1>1. CASE SubmitRead(p)
    BY <1>1 DEF SubmitRead, Continue, Rows, Open
  <1>2. CASE SubmitCommit(p)
    <2>1. PICK new \in Unused : entry' = Submitted(picked[p], new)
      BY <1>2 DEF SubmitCommit
    <2>2. entry' \in [EntryIds -> EntryStates]
      BY <2>1 DEF Submitted
    <2>3. /\ pc' = [pc EXCEPT ![p] = "idle"]
          /\ picked' = [picked EXCEPT ![p] = NoEntry]
          /\ target' = [target EXCEPT !.status = "community"]
          /\ UNCHANGED <<kind, complaints, saw, restored>>
      BY <1>2 DEF SubmitCommit, Done
    <2>4. ASSUME NEW q \in Admins, pc'[q] = "decide"
          PROVE  picked'[q] \in Open'
      <3>1. pc[q] = "decide" /\ picked[q] \in Open /\ picked'[q] = picked[q]
        BY <2>3, <2>4
      <3>2. picked[q] # picked[p]
        BY <3>1, <1>2 DEF SubmitCommit, Locked
      <3> QED
        BY <2>1, <3>1, <3>2 DEF Submitted, Open, Unused
    <2> QED
      BY <2>2, <2>3, <2>4
  <1>3. CASE PublishRead(p)
    BY <1>3 DEF PublishRead, Continue, Rows, Open
  <1>4. CASE PublishCommit(p)
    BY <1>4 DEF PublishCommit, Done, Open
  <1>5. CASE AuthorDelete(p)
    <2>1. target' \in Targets
      BY <1>5 DEF AuthorDelete
    <2>2. UNCHANGED <<kind, entry, complaints, pc, picked, saw, restored>>
      BY <1>5 DEF AuthorDelete
    <2> QED
      BY <2>1, <2>2 DEF Open
  <1> QED
    BY <1>1, <1>2, <1>3, <1>4, <1>5 DEF AuthorStep

LEMMA AdminInv ==
    ASSUME ModerationInv, NEW p \in Admins, AdminStep(p)
    PROVE  ModerationInv'
  <1> USE ModerationAssumption
      DEF ModerationInv, ModerationTypeOK, PlaceOK, OneHolder, Processes, Targets,
          ContentStatus, EntryStates, Verdicts
  <1>1. CASE DecideRead(p)
    BY <1>1 DEF DecideRead, Continue, Rows, Open
  <1>2. CASE DecideResolve(p)
    <2>1. CASE ~ (Resolvable(picked[p]) /\ PassesAssert)
      BY <1>2, <2>1 DEF DecideResolve, Done, Open
    <2>2. CASE Resolvable(picked[p]) /\ PassesAssert
      <3>1. /\ pc' = [pc EXCEPT ![p] = "decide"]
            /\ picked' = [picked EXCEPT ![p] = picked[p]]
            /\ UNCHANGED <<kind, target, entry, complaints, restored, saw>>
        BY <1>2, <2>2 DEF DecideResolve, Continue, Rows
      <3>2. picked[p] \in Open
        BY <1>2, <2>2 DEF DecideResolve, Resolvable, Open
      <3>3. \A q \in Admins : pc[q] = "decide" => picked[q] # picked[p]
        BY <1>2 DEF DecideResolve, Locked
      <3> QED
        BY <3>1, <3>2, <3>3 DEF Open
    <2> QED
      BY <2>1, <2>2
  <1>3. ASSUME NEW v \in Verdicts, DecideCommit(p, v)
        PROVE  ModerationInv'
    <2>1. /\ pc' = [pc EXCEPT ![p] = "idle"]
          /\ picked' = [picked EXCEPT ![p] = NoEntry]
          /\ entry' = [entry EXCEPT ![picked[p]] = v]
          /\ target' \in Targets
          /\ UNCHANGED <<kind, complaints, saw, restored>>
      BY <1>3 DEF DecideCommit, Done
    <2>2. ASSUME NEW q \in Admins, pc'[q] = "decide"
          PROVE  picked'[q] \in Open'
      BY <1>3, <2>1, <2>2 DEF DecideCommit, Open
    <2>3. /\ entry' \in [EntryIds -> EntryStates]
          /\ picked' \in [Processes -> EntryIds \union {NoEntry}]
      BY <2>1
    <2>4. PlaceOK' /\ OneHolder'
      BY <2>1
    <2> QED
      BY <2>1, <2>2, <2>3, <2>4
  <1>4. CASE PromoteRead(p)
    BY <1>4 DEF PromoteRead, Continue, Rows, Open
  <1>5. CASE PromoteCommit(p)
    BY <1>5 DEF PromoteCommit, Done, Open
  <1>6. CASE RemoveRead(p)
    BY <1>6 DEF RemoveRead, Continue, Rows, Open
  <1>7. CASE RemoveCommit(p)
    <2>1. /\ pc' = [pc EXCEPT ![p] = "idle"]
          /\ picked' = [picked EXCEPT ![p] = NoEntry]
          /\ target' \in Targets
          /\ entry' \in [EntryIds -> EntryStates]
          /\ UNCHANGED <<kind, complaints, saw, restored>>
      BY <1>7 DEF RemoveCommit, Done
    <2>2. ASSUME NEW q \in Admins, pc'[q] = "decide"
          PROVE  picked'[q] \in Open'
      <3>1. picked[q] \in Open /\ picked'[q] = picked[q] /\ picked[q] # picked[p]
        BY <1>7, <2>1, <2>2 DEF RemoveCommit, Locked
      <3> QED
        BY <1>7, <3>1 DEF RemoveCommit, Open
    <2> QED
      BY <2>1, <2>2
  <1>8. CASE DismissComplaint(p)
    BY <1>8 DEF DismissComplaint, Open
  <1> QED
    BY <1>1, <1>2, <1>3, <1>4, <1>5, <1>6, <1>7, <1>8 DEF AdminStep

LEMMA ReporterInv ==
    ASSUME ModerationInv, NEW p \in Reporters, ReporterStep(p)
    PROVE  ModerationInv'
  <1> USE ModerationAssumption
      DEF ModerationInv, ModerationTypeOK, PlaceOK, OneHolder, Processes, Targets,
          ContentStatus, EntryStates, Verdicts
  <1>1. CASE ComplainRead(p)
    BY <1>1 DEF ComplainRead, Continue, Rows, Open
  <1>2. CASE ComplainInsert(p)
    BY <1>2 DEF ComplainInsert, Continue, Done, Rows, Open
  <1>3. CASE Escalate(p)
    <2>1. /\ pc' = [pc EXCEPT ![p] = "idle"]
          /\ picked' = [picked EXCEPT ![p] = NoEntry]
          /\ target' \in Targets
          /\ complaints' \subseteq Reporters
          /\ UNCHANGED <<kind, saw, restored>>
      BY <1>3 DEF Escalate, Done
    <2>2. \/ UNCHANGED entry
          \/ \E new \in Unused : entry' = [entry EXCEPT ![new] = "pending"]
      BY <1>3 DEF Escalate, EnsurePending
    <2> QED
      BY <2>1, <2>2 DEF Open, Unused
  <1> QED
    BY <1>1, <1>2, <1>3 DEF ReporterStep

LEMMA ModerationStep == ModerationInv /\ [ModerationNext]_moderationVars => ModerationInv'
  <1> SUFFICES ASSUME ModerationInv, [ModerationNext]_moderationVars
               PROVE  ModerationInv'
    OBVIOUS
  <1>1. CASE Restore
    BY <1>1 DEF Restore, ModerationInv, ModerationTypeOK, PlaceOK, OneHolder,
                Targets, Open
  <1>2. CASE UNCHANGED moderationVars
    BY <1>2 DEF moderationVars, ModerationInv, ModerationTypeOK, PlaceOK, OneHolder, Open
  <1> QED
    BY <1>1, <1>2, AuthorInv, AdminInv, ReporterInv DEF ModerationNext

\* However many moderators and authors act at once, rows keep their types and
\* a verdict is only ever written to an entry that is still open (resolve).
THEOREM ModerationTypeCorrect == ModerationSpec => []ModerationTypeOK
  <1>1. ModerationInv => ModerationTypeOK
    BY DEF ModerationInv
  <1> QED
    BY <1>1, ModerationStarts, ModerationStep, PTL DEF ModerationSpec

-----------------------------------------------------------------------------
(***************************************************************************)
(* The queue.  A set becomes public only together with its entry, and the  *)
(* three ways to close an entry take the set out of the public at the same *)
(* commit: approval, rejection, removal.  PlaceOK says that the way around *)
(* the queue, ItemService.submit_item, is not open to a set.               *)
(***************************************************************************)
SetIsQueued ==
    kind = "set" /\ Live /\ target.status = "community" /\ ~ restored
      => Open # {}

QueueInv == ModerationInv /\ SetIsQueued

LEMMA QueueAuthor ==
    ASSUME QueueInv, NEW p \in Authors, AuthorStep(p)
    PROVE  SetIsQueued'
  <1> USE DEF QueueInv, ModerationInv, ModerationTypeOK, SetIsQueued, Live,
              Targets
  <1>1. CASE SubmitRead(p)
    BY <1>1 DEF SubmitRead, Rows, Open
  <1>2. CASE SubmitCommit(p)
    <2>1. PICK new \in Unused : entry' = Submitted(picked[p], new)
      BY <1>2 DEF SubmitCommit
    <2>2. new \in Open'
      BY <2>1 DEF Submitted, Open, Unused
    <2> QED
      BY <2>2
  <1>3. CASE PublishRead(p)
    BY <1>3 DEF PublishRead, Rows, Open
  <1>4. CASE PublishCommit(p)
    BY <1>4 DEF PublishCommit, Done, PlaceOK
  <1>5. CASE AuthorDelete(p)
    BY <1>5 DEF AuthorDelete, Open
  <1> QED
    BY <1>1, <1>2, <1>3, <1>4, <1>5 DEF AuthorStep

LEMMA QueueAdmin ==
    ASSUME QueueInv, NEW p \in Admins, AdminStep(p)
    PROVE  SetIsQueued'
  <1> USE DEF QueueInv, ModerationInv, ModerationTypeOK, SetIsQueued, Live,
              Targets
  <1>1. CASE DecideRead(p)
    BY <1>1 DEF DecideRead, Rows, Open
  <1>2. CASE DecideResolve(p)
    BY <1>2 DEF DecideResolve, Rows, Done, Open
  <1>3. ASSUME NEW v \in Verdicts, DecideCommit(p, v)
        PROVE  SetIsQueued'
    BY <1>3 DEF DecideCommit
  <1>4. CASE PromoteRead(p)
    BY <1>4 DEF PromoteRead, Rows, Open
  <1>5. CASE PromoteCommit(p)
    BY <1>5 DEF PromoteCommit
  <1>6. CASE RemoveRead(p)
    BY <1>6 DEF RemoveRead, Rows, Open
  <1>7. CASE RemoveCommit(p)
    BY <1>7 DEF RemoveCommit
  <1>8. CASE DismissComplaint(p)
    BY <1>8 DEF DismissComplaint, Open
  <1> QED
    BY <1>1, <1>2, <1>3, <1>4, <1>5, <1>6, <1>7, <1>8 DEF AdminStep

LEMMA QueueReporter ==
    ASSUME QueueInv, NEW p \in Reporters, ReporterStep(p)
    PROVE  SetIsQueued'
  <1> USE DEF QueueInv, ModerationInv, ModerationTypeOK, SetIsQueued, Live,
              Targets
  <1>1. CASE ComplainRead(p)
    BY <1>1 DEF ComplainRead, Rows, Open
  <1>2. CASE ComplainInsert(p)
    BY <1>2 DEF ComplainInsert, Rows, Done, Open
  <1>3. CASE Escalate(p)
    <2>1. CASE target' = [target EXCEPT !.status = "draft"]
      BY <2>1
    <2>2. CASE UNCHANGED <<target, entry, complaints>>
      BY <1>3, <2>2 DEF Escalate, Done, Open
    <2> QED
      BY <1>3, <2>1, <2>2 DEF Escalate
  <1> QED
    BY <1>1, <1>2, <1>3 DEF ReporterStep

LEMMA QueueStep == QueueInv /\ [ModerationNext]_moderationVars => QueueInv'
  <1> SUFFICES ASSUME QueueInv, [ModerationNext]_moderationVars
               PROVE  SetIsQueued'
    BY ModerationStep DEF QueueInv
  <1>1. CASE Restore
    BY <1>1 DEF Restore, SetIsQueued
  <1>2. CASE UNCHANGED moderationVars
    BY <1>2 DEF moderationVars, QueueInv, SetIsQueued, Live, Open
  <1> QED
    BY <1>1, <1>2, QueueAuthor, QueueAdmin, QueueReporter DEF ModerationNext

\* Whatever requests overlap, complaints included, a public set that was never
\* restored has an entry some moderator will find (submit_set, _revert_content,
\* admin_delete_set).
THEOREM PublicSetsAreQueued == ModerationSpec => []CommunitySetIsQueued
  <1>1. ModerationInit => QueueInv
    <2>1. ModerationInit => SetIsQueued
      BY DEF ModerationInit, SetIsQueued
    <2> QED
      BY <2>1, ModerationStarts DEF QueueInv
  <1>2. QueueInv => CommunitySetIsQueued
    BY DEF QueueInv, SetIsQueued, CommunitySetIsQueued, ListSubmissions, ListAll,
           Open
  <1> QED
    BY <1>1, <1>2, QueueStep, PTL DEF ModerationSpec

-----------------------------------------------------------------------------
(***************************************************************************)
(* One open entry.  Nothing in the database enforces it: submit deletes    *)
(* the entry it has read and creates another, and a complaint creates one  *)
(* if it finds none.  So it holds as long as nobody else creates an entry  *)
(* between the two halves of a submission.                                 *)
(***************************************************************************)
SubmissionsAlone == ComplaintsAlone /\ \A p, q \in Authors : p = q

ReporterAlone ==
    \A r \in Reporters, q \in Processes : pc[r] # "idle" /\ pc[q] # "idle" => q = r

SubmitSeesAll == \A p \in Authors : pc[p] = "submit" => Open \subseteq {picked[p]}

EntryInv == ModerationInv /\ ReporterAlone /\ SubmitSeesAll /\ OneOpenEntry

LEMMA EntryInit == ModerationInit => EntryInv
  <1> SUFFICES ASSUME ModerationInit PROVE EntryInv
    OBVIOUS
  <1>1. \A p \in Processes : pc[p] = "idle"
    BY DEF ModerationInit
  <1>2. Open = {}
    BY DEF ModerationInit, Open
  <1> QED
    BY <1>1, <1>2, ModerationStarts
    DEF EntryInv, ReporterAlone, SubmitSeesAll, OneOpenEntry, Processes

\* A step that starts, continues or ends one request keeps reporters alone.
LEMMA ReporterStaysAlone ==
    ASSUME ComplaintsAlone, EntryInv, NEW p \in Processes,
           NEW place, pc' = [pc EXCEPT ![p] = place],
           MayStart(p) \/ pc[p] # "idle" \/ place = "idle"
    PROVE  ReporterAlone'
  BY DEF EntryInv, ModerationInv, ModerationTypeOK, ReporterAlone, MayStart, Processes

\* Whoever opens no entry keeps the rest, wherever it leaves its request.
LEMMA EntriesOnlyClose ==
    ASSUME EntryInv, NEW p \in Processes, NEW place, NEW e,
           pc' = [pc EXCEPT ![p] = place],
           picked' = [picked EXCEPT ![p] = e],
           place # "submit",
           Open' \subseteq Open
    PROVE  SubmitSeesAll' /\ OneOpenEntry'
  <1>1. \A q \in Authors : pc'[q] = "submit" => pc[q] = "submit" /\ picked'[q] = picked[q]
    BY DEF EntryInv, ModerationInv, ModerationTypeOK, Processes
  <1> QED
    BY <1>1 DEF EntryInv, SubmitSeesAll, OneOpenEntry

LEMMA EntryAuthor ==
    ASSUME SubmissionsAlone, EntryInv, NEW p \in Authors, AuthorStep(p)
    PROVE  ReporterAlone' /\ SubmitSeesAll' /\ OneOpenEntry'
  <1>0. p \in Processes
    BY DEF Processes
  <1>1. CASE SubmitRead(p)
    <2>1. PICK e \in EntryIds \union {NoEntry} : GetActive(e) /\ Continue(p, "submit", e)
      BY <1>1 DEF SubmitRead
    <2>2. UNCHANGED entry
      BY <1>1 DEF SubmitRead, Rows
    <2>3. Open' = Open /\ Open \subseteq {e}
      BY <2>1, <2>2 DEF Open, GetActive
    <2>4. picked'[p] = e /\ \A q \in Authors : q = p
      BY <1>0, <2>1 DEF Continue, SubmissionsAlone, EntryInv, ModerationInv, ModerationTypeOK
    <2>5. ReporterAlone'
      BY <1>0, <1>1, <2>1, ReporterStaysAlone DEF SubmitRead, Continue, SubmissionsAlone
    <2> QED
      BY <2>3, <2>4, <2>5 DEF SubmitSeesAll, OneOpenEntry, EntryInv
  <1>2. CASE SubmitCommit(p)
    <2>1. PICK new \in Unused : entry' = Submitted(picked[p], new)
      BY <1>2 DEF SubmitCommit
    <2>2. Open \subseteq {picked[p]}
      BY <1>2 DEF SubmitCommit, EntryInv, SubmitSeesAll
    <2>3. Open' \subseteq {new}
      BY <2>1, <2>2 DEF Submitted, Open
    <2>4. pc' = [pc EXCEPT ![p] = "idle"]
      BY <1>2 DEF SubmitCommit, Done
    <2>5. \A q \in Authors : pc'[q] = "idle"
      BY <1>0, <2>4 DEF SubmissionsAlone, EntryInv, ModerationInv, ModerationTypeOK
    <2>6. ReporterAlone'
      BY <1>0, <2>4, ReporterStaysAlone DEF SubmissionsAlone
    <2> QED
      BY <2>3, <2>5, <2>6 DEF SubmitSeesAll, OneOpenEntry
  <1>3. CASE PublishRead(p)
    <2>1. MayStart(p) /\ Open' = Open
      BY <1>3 DEF PublishRead, Rows, Open
    <2> QED
      BY <1>0, <1>3, <2>1, ReporterStaysAlone, EntriesOnlyClose
      DEF PublishRead, Continue, SubmissionsAlone
  <1>4. CASE PublishCommit(p)
    <2>1. Open' = Open
      BY <1>4 DEF PublishCommit, Open
    <2> QED
      BY <1>0, <1>4, <2>1, ReporterStaysAlone, EntriesOnlyClose
      DEF PublishCommit, Done, SubmissionsAlone
  <1>5. CASE AuthorDelete(p)
    BY <1>5 DEF AuthorDelete, EntryInv, ReporterAlone, SubmitSeesAll, OneOpenEntry, Open
  <1> QED
    BY <1>1, <1>2, <1>3, <1>4, <1>5 DEF AuthorStep

LEMMA EntryAdmin ==
    ASSUME SubmissionsAlone, EntryInv, NEW p \in Admins, AdminStep(p)
    PROVE  ReporterAlone' /\ SubmitSeesAll' /\ OneOpenEntry'
  <1>0. p \in Processes
    BY DEF Processes
  <1>1. CASE DismissComplaint(p)
    BY <1>1 DEF DismissComplaint, EntryInv, ReporterAlone, SubmitSeesAll, OneOpenEntry,
                Open
  <1>2. CASE DecideRead(p) \/ PromoteRead(p) \/ RemoveRead(p)
    <2>1. MayStart(p) /\ Open' = Open
      BY <1>2 DEF DecideRead, PromoteRead, RemoveRead, Rows, Open
    <2>2. PICK place \in {"resolve", "promote", "remove"}, e \in EntryIds \union {NoEntry} :
             Continue(p, place, e)
      BY <1>2 DEF DecideRead, PromoteRead, RemoveRead, Open
    <2>3. place # "submit"
      OBVIOUS
    <2> QED
      BY <1>0, <2>1, <2>2, <2>3, ReporterStaysAlone, EntriesOnlyClose
      DEF Continue, SubmissionsAlone
  <1>3. CASE DecideResolve(p)
    <2>1. pc[p] # "idle" /\ Open' = Open
      BY <1>3 DEF DecideResolve, Rows, Open
    <2>2. CASE Continue(p, "decide", picked[p])
      BY <1>0, <2>1, <2>2, ReporterStaysAlone, EntriesOnlyClose
      DEF Continue, SubmissionsAlone
    <2>3. CASE Done(p)
      BY <1>0, <2>1, <2>3, ReporterStaysAlone, EntriesOnlyClose
      DEF Done, SubmissionsAlone
    <2> QED
      BY <1>3, <2>2, <2>3 DEF DecideResolve
  <1>4. ASSUME NEW v \in Verdicts, DecideCommit(p, v)
        PROVE  ReporterAlone' /\ SubmitSeesAll' /\ OneOpenEntry'
    <2>1. Open' \subseteq Open
      BY <1>4 DEF DecideCommit, Open, Verdicts, EntryInv, ModerationInv, ModerationTypeOK
    <2> QED
      BY <1>0, <1>4, <2>1, ReporterStaysAlone, EntriesOnlyClose
      DEF DecideCommit, Done, SubmissionsAlone
  <1>5. CASE PromoteCommit(p) \/ RemoveCommit(p)
    <2>1. Open' \subseteq Open
      BY <1>5 DEF PromoteCommit, RemoveCommit, Open
    <2>2. Done(p)
      BY <1>5 DEF PromoteCommit, RemoveCommit
    <2> QED
      BY <1>0, <2>1, <2>2, ReporterStaysAlone, EntriesOnlyClose
      DEF Done, SubmissionsAlone
  <1> QED
    BY <1>1, <1>2, <1>3, <1>4, <1>5 DEF AdminStep

LEMMA EntryReporter ==
    ASSUME SubmissionsAlone, EntryInv, NEW p \in Reporters, ReporterStep(p)
    PROVE  ReporterAlone' /\ SubmitSeesAll' /\ OneOpenEntry'
  <1>0. p \in Processes
    BY DEF Processes
  <1>1. CASE ComplainRead(p)
    <2>1. MayStart(p) /\ Open' = Open
      BY <1>1 DEF ComplainRead, Rows, Open
    <2> QED
      BY <1>0, <1>1, <2>1, ReporterStaysAlone, EntriesOnlyClose
      DEF ComplainRead, Continue, SubmissionsAlone
  <1>2. CASE ComplainInsert(p)
    <2>1. pc[p] # "idle" /\ Open' = Open
      BY <1>2 DEF ComplainInsert, Rows, Open
    <2>2. CASE Continue(p, "escalate", NoEntry)
      BY <1>0, <2>1, <2>2, ReporterStaysAlone, EntriesOnlyClose
      DEF Continue, SubmissionsAlone
    <2>3. CASE Done(p)
      BY <1>0, <2>1, <2>3, ReporterStaysAlone, EntriesOnlyClose
      DEF Done, SubmissionsAlone
    <2> QED
      BY <1>2, <2>2, <2>3 DEF ComplainInsert
  <1>3. CASE Escalate(p)
    <2>1. pc[p] # "idle" /\ pc' = [pc EXCEPT ![p] = "idle"]
      BY <1>3 DEF Escalate, Done
    <2>2. ReporterAlone'
      BY <1>0, <2>1, ReporterStaysAlone DEF SubmissionsAlone
    <2>3. \A q \in Authors : pc'[q] # "submit"
      BY <2>1, ModerationAssumption
      DEF EntryInv, ReporterAlone, Processes, ModerationInv, ModerationTypeOK
    <2>4. CASE UNCHANGED entry
      BY <2>2, <2>3, <2>4 DEF EntryInv, SubmitSeesAll, OneOpenEntry, Open
    <2>5. ASSUME Open = {}, NEW new \in Unused, entry' = [entry EXCEPT ![new] = "pending"]
          PROVE  OneOpenEntry'
      <3>1. Open' \subseteq {new}
        BY <2>5 DEF Open, Unused, EntryInv, ModerationInv, ModerationTypeOK
      <3> QED
        BY <3>1 DEF OneOpenEntry
    <2> QED
      BY <1>3, <2>2, <2>3, <2>4, <2>5 DEF Escalate, EnsurePending, SubmitSeesAll
  <1> QED
    BY <1>1, <1>2, <1>3 DEF ReporterStep

LEMMA EntryStep ==
    ASSUME SubmissionsAlone
    PROVE  EntryInv /\ [ModerationNext]_moderationVars => EntryInv'
  <1> SUFFICES ASSUME EntryInv, [ModerationNext]_moderationVars
               PROVE  ReporterAlone' /\ SubmitSeesAll' /\ OneOpenEntry'
    BY ModerationStep DEF EntryInv
  <1>1. CASE Restore
    BY <1>1 DEF Restore, EntryInv, ReporterAlone, SubmitSeesAll, OneOpenEntry, Open
  <1>2. CASE UNCHANGED moderationVars
    BY <1>2 DEF moderationVars, EntryInv, ReporterAlone, SubmitSeesAll, OneOpenEntry, Open
  <1> QED
    BY <1>1, <1>2, EntryAuthor, EntryAdmin, EntryReporter DEF ModerationNext

\* If the author submits once at a time and no complaint overlaps a request,
\* a target never has two open entries, so get_active_for_target never raises.
THEOREM EntriesAreReplaced ==
    ASSUME SubmissionsAlone
    PROVE  ModerationSpec => []OneOpenEntry
  <1>1. ModerationInit => EntryInv
    BY EntryInit
  <1>2. EntryInv /\ [ModerationNext]_moderationVars => EntryInv'
    BY EntryStep
  <1>3. EntryInv => OneOpenEntry
    BY DEF EntryInv
  <1> QED
    BY <1>1, <1>2, <1>3, PTL DEF ModerationSpec

-----------------------------------------------------------------------------
(***************************************************************************)
(* Verdicts.  The code writes rows by their keys on what it has read, so   *)
(* that an approval is safe only because of where the others can be while  *)
(* it is given: an author between the two halves of a submission has seen  *)
(* a draft, and a draft that is live cannot be decided; a moderator who is *)
(* about to promote has seen an approved item, for which no entry is open. *)
(* A deleted target passes _approve_content and may come back (Restore),   *)
(* after which nothing is known of the author.                             *)
(***************************************************************************)
Public == {"approved", "official"}

\* What a complaint has read is still so: it is alone.
SeenOK ==
    \A r \in Reporters :
        /\ pc[r] # "idle" => saw[r].status = target.status
        /\ pc[r] = "escalate" => saw[r].status = "community"

AuthorOK ==
    \A p \in Authors :
        /\ pc[p] \in {"submit", "publish"} =>
              target.status = "draft" /\ (Open # {} => Live)
        /\ pc[p] = "submit" /\ picked[p] # NoEntry /\ Live => picked[p] \in Open

AdminOK ==
    \A p \in Admins :
        /\ pc[p] = "decide" => ~ Live \/ target.status = "community"
        /\ pc[p] = "promote" => target.status \in Public
        /\ pc[p] = "remove" /\ target.status = "draft" /\ Open # {} =>
              picked[p] \in Open

PublicIsSettled == target.status \in Public => Open = {}

\* Only sets are restored, only items promoted.
OfKind ==
    /\ kind = "item" => ~ restored
    /\ \A p \in Admins : pc[p] = "promote" => kind = "item"

VerdictParts ==
    /\ OfKind /\ SeenOK /\ ApprovedHasVerdict
    /\ ~ restored => AuthorOK /\ AdminOK /\ PublicIsSettled

VerdictInv == EntryInv /\ VerdictParts

LEMMA VerdictInit == ModerationInit => VerdictInv
  <1> SUFFICES ASSUME ModerationInit PROVE VerdictInv
    OBVIOUS
  <1>1. \A p \in Processes : pc[p] = "idle"
    BY DEF ModerationInit
  <1>2. target.status = "draft" /\ ~ restored
    BY DEF ModerationInit
  <1> QED
    BY <1>1, <1>2, EntryInit
    DEF VerdictInv, VerdictParts, OfKind, SeenOK, AuthorOK, AdminOK, PublicIsSettled,
        Public, ApprovedHasVerdict, Processes

\* While an author or a moderator is at work, no complaint is.
LEMMA ReportersIdle ==
    ASSUME ComplaintsAlone, EntryInv, NEW p \in Authors \union Admins,
           MayStart(p) \/ pc[p] # "idle"
    PROVE  \A r \in Reporters : pc[r] = "idle"
  BY ModerationAssumption DEF EntryInv, ReporterAlone, MayStart, Processes

\* A request that changes no row keeps what is known of the others.
LEMMA VerdictRead ==
    ASSUME VerdictInv, NEW p \in Processes, NEW place, NEW e,
           pc' = [pc EXCEPT ![p] = place],
           picked' = [picked EXCEPT ![p] = e],
           UNCHANGED <<kind, target, entry, restored>>,
           SeenOK',
           p \in Authors => place \notin {"submit", "publish"},
           p \in Admins => place \notin {"decide", "promote", "remove"}
    PROVE  VerdictParts'
  <1> USE ModerationAssumption
      DEF VerdictInv, VerdictParts, EntryInv, ModerationInv, ModerationTypeOK, Processes
  <1>1. Open' = Open /\ Live' = Live
    BY DEF Open, Live
  <1>2. \A q \in Processes \ {p} : pc'[q] = pc[q] /\ picked'[q] = picked[q]
    OBVIOUS
  <1>3. pc'[p] = place
    OBVIOUS
  <1>4. OfKind'
    BY <1>2, <1>3 DEF OfKind
  <1>5. ASSUME ~ restored' PROVE AuthorOK' /\ AdminOK' /\ PublicIsSettled'
    BY <1>1, <1>2, <1>3, <1>5 DEF AuthorOK, AdminOK, PublicIsSettled
  <1>6. ApprovedHasVerdict'
    BY DEF ApprovedHasVerdict
  <1> QED
    BY <1>4, <1>5, <1>6

LEMMA VerdictAuthor ==
    ASSUME SubmissionsAlone, VerdictInv, NEW p \in Authors, AuthorStep(p)
    PROVE  VerdictParts'
  <1> USE ModerationAssumption
      DEF VerdictInv, EntryInv, ModerationInv, ModerationTypeOK, Processes
  <1>1. \A r \in Reporters : pc[r] = "idle"
    BY ReportersIdle
    DEF AuthorStep, SubmitRead, SubmitCommit, PublishRead, PublishCommit, AuthorDelete,
        SubmissionsAlone
  <1>2. \A q \in Authors : q = p
    BY DEF SubmissionsAlone
  <1>3. CASE SubmitRead(p)
    <2>1. PICK e \in EntryIds \union {NoEntry} : GetActive(e) /\ Continue(p, "submit", e)
      BY <1>3 DEF SubmitRead
    <2>2. /\ Live /\ target.status = "draft"
          /\ UNCHANGED <<kind, target, entry, restored, saw>>
          /\ Open' = Open /\ Live' = Live
      BY <1>3 DEF SubmitRead, Rows, Open, Live
    <2>3. /\ \A q \in Processes \ {p} : pc'[q] = pc[q] /\ picked'[q] = picked[q]
          /\ pc'[p] = "submit" /\ picked'[p] = e
      BY <2>1 DEF Continue
    <2>4. e # NoEntry => e \in Open
      BY <2>1 DEF GetActive
    <2>5. ASSUME ~ restored' PROVE AuthorOK' /\ AdminOK' /\ PublicIsSettled'
      BY <1>2, <2>2, <2>3, <2>4, <2>5
      DEF AuthorOK, AdminOK, PublicIsSettled, VerdictParts, Public
    <2>6. OfKind' /\ SeenOK' /\ ApprovedHasVerdict'
      BY <1>1, <2>2, <2>3 DEF OfKind, SeenOK, ApprovedHasVerdict, VerdictParts
    <2> QED
      BY <2>5, <2>6 DEF VerdictParts
  <1>4. CASE PublishRead(p)
    <2>1. /\ Live /\ target.status = "draft" /\ Continue(p, "publish", NoEntry)
          /\ UNCHANGED <<kind, target, entry, restored, saw>>
          /\ Open' = Open /\ Live' = Live
      BY <1>4 DEF PublishRead, Rows, Open, Live
    <2>2. /\ \A q \in Processes \ {p} : pc'[q] = pc[q] /\ picked'[q] = picked[q]
          /\ pc'[p] = "publish"
      BY <2>1 DEF Continue
    <2>3. ASSUME ~ restored' PROVE AuthorOK' /\ AdminOK' /\ PublicIsSettled'
      BY <1>2, <2>1, <2>2, <2>3
      DEF AuthorOK, AdminOK, PublicIsSettled, VerdictParts, Public
    <2>4. OfKind' /\ SeenOK' /\ ApprovedHasVerdict'
      BY <1>1, <2>1, <2>2 DEF OfKind, SeenOK, ApprovedHasVerdict, VerdictParts
    <2> QED
      BY <2>3, <2>4 DEF VerdictParts
  <1>5. CASE SubmitCommit(p) \/ PublishCommit(p)
    <2>1. /\ target' = [target EXCEPT !.status = "community"] /\ Done(p)
          /\ pc[p] \in {"submit", "publish"}
      BY <1>5 DEF SubmitCommit, PublishCommit
    <2>2. /\ \A q \in Processes \ {p} : pc'[q] = pc[q] /\ picked'[q] = picked[q]
          /\ pc'[p] = "idle" /\ UNCHANGED <<kind, saw, restored>>
          /\ target'.status = "community"
      BY <2>1 DEF Done, Targets
    <2>3. OfKind' /\ SeenOK' /\ ApprovedHasVerdict'
      BY <1>1, <2>2 DEF OfKind, SeenOK, ApprovedHasVerdict, VerdictParts
    <2>4. ASSUME ~ restored' PROVE AuthorOK' /\ AdminOK' /\ PublicIsSettled'
      <3>1. \A q \in Admins : pc[q] # "promote"
        BY <2>1, <2>2, <2>4 DEF VerdictParts, AuthorOK, AdminOK, Public
      <3> QED
        BY <1>2, <2>2, <3>1 DEF AuthorOK, AdminOK, PublicIsSettled, Public
    <2> QED
      BY <2>3, <2>4 DEF VerdictParts
  <1>6. CASE AuthorDelete(p)
    <2>1. /\ UNCHANGED <<kind, entry, pc, picked, saw, restored>> /\ pc[p] = "idle"
          /\ Live
          /\ target' = [target EXCEPT !.deleted = TRUE]
             \/ target' = [target EXCEPT !.owned = FALSE]
      BY <1>6 DEF AuthorDelete, MayStart
    <2>2. target'.status = target.status /\ Open' = Open
      BY <2>1 DEF Targets, Open
    <2>3. OfKind' /\ SeenOK' /\ ApprovedHasVerdict'
      BY <1>1, <2>1, <2>2 DEF OfKind, SeenOK, ApprovedHasVerdict, VerdictParts
    <2>4. ASSUME ~ restored' PROVE AuthorOK' /\ AdminOK' /\ PublicIsSettled'
      BY <1>2, <2>1, <2>2, <2>4
      DEF AuthorOK, AdminOK, PublicIsSettled, VerdictParts, Live
    <2> QED
      BY <2>3, <2>4 DEF VerdictParts
  <1> QED
    BY <1>3, <1>4, <1>5, <1>6 DEF AuthorStep

LEMMA VerdictAdmin ==
    ASSUME SubmissionsAlone, VerdictInv, NEW p \in Admins, AdminStep(p)
    PROVE  VerdictParts'
  <1> USE ModerationAssumption
      DEF VerdictInv, EntryInv, ModerationInv, ModerationTypeOK, Processes
  <1>1. \A r \in Reporters : pc[r] = "idle"
    BY ReportersIdle
    DEF AdminStep, DecideRead, DecideResolve, DecideCommit, PromoteRead, PromoteCommit,
        RemoveRead, RemoveCommit, DismissComplaint, SubmissionsAlone
  \* Whoever decides does it on the only open entry.
  <1>2. \A q \in Admins : pc[q] = "decide" => Open = {picked[q]}
    BY DEF OneOpenEntry
  <1>3. CASE DecideRead(p)
    <2>1. PICK e \in Open : Continue(p, "resolve", e)
      BY <1>3 DEF DecideRead
    <2>2. UNCHANGED <<kind, target, entry, restored, saw>>
      BY <1>3 DEF DecideRead, Rows
    <2>3. SeenOK'
      BY <1>1, <2>1 DEF SeenOK, Continue
    <2> QED
      BY <2>1, <2>2, <2>3, VerdictRead DEF Continue
  <1>4. CASE DecideResolve(p)
    <2>1. UNCHANGED <<kind, target, entry, restored, saw>>
      BY <1>4 DEF DecideResolve, Rows, Done
    <2>2. CASE Done(p)
      <3>1. SeenOK'
        BY <1>1, <2>2 DEF SeenOK, Done
      <3> QED
        BY <2>1, <2>2, <3>1, VerdictRead DEF Done
    <2>3. CASE PassesAssert /\ Continue(p, "decide", picked[p])
      <3>1. /\ \A q \in Processes \ {p} : pc'[q] = pc[q] /\ picked'[q] = picked[q]
            /\ pc'[p] = "decide" /\ Open' = Open /\ Live' = Live
        BY <2>1, <2>3 DEF Continue, Open, Live
      <3>2. OfKind' /\ SeenOK' /\ ApprovedHasVerdict'
        BY <1>1, <2>1, <3>1 DEF OfKind, SeenOK, ApprovedHasVerdict, VerdictParts
      <3>3. ASSUME ~ restored' PROVE AuthorOK' /\ AdminOK' /\ PublicIsSettled'
        BY <2>1, <2>3, <3>1, <3>3
        DEF AuthorOK, AdminOK, PublicIsSettled, VerdictParts, PassesAssert
      <3> QED
        BY <3>2, <3>3 DEF VerdictParts
    <2> QED
      BY <1>4, <2>2, <2>3 DEF DecideResolve
  <1>5. ASSUME NEW v \in Verdicts, DecideCommit(p, v)
        PROVE  VerdictParts'
    <2>1. /\ pc[p] = "decide" /\ picked[p] \in Open /\ Done(p)
          /\ entry' = [entry EXCEPT ![picked[p]] = v]
          /\ target' = [target EXCEPT !.status =
                          IF v = "approved" THEN "approved" ELSE "draft"]
      BY <1>5 DEF DecideCommit
    <2>2. /\ \A q \in Processes \ {p} : pc'[q] = pc[q] /\ picked'[q] = picked[q]
          /\ pc'[p] = "idle" /\ UNCHANGED <<kind, saw, restored>>
      BY <2>1 DEF Done
    <2>3. /\ target'.status = IF v = "approved" THEN "approved" ELSE "draft"
          /\ Open' = {}
      BY <1>2, <2>1 DEF Targets, Open, Verdicts
    <2>4. ApprovedHasVerdict'
      BY <2>1, <2>3 DEF ApprovedHasVerdict, Open
    <2>5. OfKind' /\ SeenOK'
      BY <1>1, <2>2 DEF OfKind, SeenOK, VerdictParts
    <2>6. ASSUME ~ restored' PROVE AuthorOK' /\ AdminOK' /\ PublicIsSettled'
      <3>1. \A q \in Authors : pc[q] \notin {"submit", "publish"}
        BY <1>2, <2>1, <2>2, <2>6 DEF VerdictParts, AuthorOK, AdminOK
      <3>2. \A q \in Admins : pc[q] = "decide" => q = p
        BY <1>2, <2>1 DEF OneHolder
      <3>3. \A q \in Admins : pc[q] # "promote"
        BY <2>1, <2>2, <2>6 DEF VerdictParts, AdminOK, PublicIsSettled
      <3> QED
        BY <2>2, <2>3, <3>1, <3>2, <3>3 DEF AuthorOK, AdminOK, PublicIsSettled
    <2> QED
      BY <2>4, <2>5, <2>6 DEF VerdictParts
  <1>6. CASE PromoteRead(p)
    <2>1. /\ kind = "item" /\ target.status = "approved" /\ Continue(p, "promote", NoEntry)
          /\ UNCHANGED <<kind, target, entry, restored, saw>>
          /\ Open' = Open /\ Live' = Live
      BY <1>6 DEF PromoteRead, Rows, Open, Live
    <2>2. /\ \A q \in Processes \ {p} : pc'[q] = pc[q] /\ picked'[q] = picked[q]
          /\ pc'[p] = "promote"
      BY <2>1 DEF Continue
    <2>3. OfKind' /\ SeenOK' /\ ApprovedHasVerdict'
      BY <1>1, <2>1, <2>2 DEF OfKind, SeenOK, ApprovedHasVerdict, VerdictParts
    <2>4. ASSUME ~ restored' PROVE AuthorOK' /\ AdminOK' /\ PublicIsSettled'
      BY <2>1, <2>2, <2>4 DEF AuthorOK, AdminOK, PublicIsSettled, VerdictParts, Public
    <2> QED
      BY <2>3, <2>4 DEF VerdictParts
  <1>7. CASE PromoteCommit(p)
    <2>1. /\ target' = [target EXCEPT !.status = "official"] /\ Done(p)
          /\ pc[p] = "promote" /\ UNCHANGED entry
          /\ target.status \in Public /\ Open = {} /\ ~ restored
      BY <1>7 DEF PromoteCommit, VerdictParts, OfKind, AdminOK, PublicIsSettled
    <2>2. /\ \A q \in Processes \ {p} : pc'[q] = pc[q] /\ picked'[q] = picked[q]
          /\ pc'[p] = "idle" /\ UNCHANGED <<kind, saw, restored>>
          /\ target'.status = "official" /\ Open' = {}
      BY <2>1 DEF Done, Targets, Open
    <2>3. OfKind' /\ SeenOK' /\ ApprovedHasVerdict'
      BY <1>1, <2>1, <2>2 DEF OfKind, SeenOK, ApprovedHasVerdict, VerdictParts, Public
    <2>4. AuthorOK' /\ AdminOK' /\ PublicIsSettled'
      <3>1. \A q \in Authors : pc[q] \notin {"submit", "publish"}
        BY <2>1 DEF VerdictParts, AuthorOK, Public
      <3> QED
        BY <1>2, <2>1, <2>2, <3>1 DEF AuthorOK, AdminOK, PublicIsSettled, Public
    <2> QED
      BY <2>3, <2>4 DEF VerdictParts
  <1>8. CASE RemoveRead(p)
    <2>1. PICK e \in EntryIds \union {NoEntry} : GetActive(e) /\ Continue(p, "remove", e)
      BY <1>8 DEF RemoveRead
    <2>2. /\ UNCHANGED <<kind, target, entry, restored, saw>>
          /\ Open' = Open /\ Live' = Live
      BY <1>8 DEF RemoveRead, Rows, Open, Live
    <2>3. /\ \A q \in Processes \ {p} : pc'[q] = pc[q] /\ picked'[q] = picked[q]
          /\ pc'[p] = "remove" /\ picked'[p] = e
      BY <2>1 DEF Continue
    <2>4. Open # {} => e \in Open
      BY <2>1 DEF GetActive
    <2>5. OfKind' /\ SeenOK' /\ ApprovedHasVerdict'
      BY <1>1, <2>2, <2>3 DEF OfKind, SeenOK, ApprovedHasVerdict, VerdictParts
    <2>6. ASSUME ~ restored' PROVE AuthorOK' /\ AdminOK' /\ PublicIsSettled'
      BY <2>2, <2>3, <2>4, <2>6 DEF AuthorOK, AdminOK, PublicIsSettled, VerdictParts
    <2> QED
      BY <2>5, <2>6 DEF VerdictParts
  <1>9. CASE RemoveCommit(p)
    <2>1. /\ pc[p] = "remove" /\ Done(p)
          /\ entry' = [e \in EntryIds |->
                IF e = picked[p] /\ Resolvable(e) THEN "rejected" ELSE entry[e]]
          /\ target' = [target EXCEPT !.deleted = TRUE]
      BY <1>9 DEF RemoveCommit
    <2>2. /\ \A q \in Processes \ {p} : pc'[q] = pc[q] /\ picked'[q] = picked[q]
          /\ pc'[p] = "idle" /\ UNCHANGED <<kind, saw, restored>>
          /\ target'.status = target.status /\ ~ Live'
      BY <2>1 DEF Done, Targets, Live
    <2>3. Open' = Open \ {picked[p]}
      BY <2>1 DEF Open, Resolvable
    <2>4. ApprovedHasVerdict'
      BY <2>1, <2>2 DEF ApprovedHasVerdict, Resolvable, VerdictParts
    <2>5. OfKind' /\ SeenOK'
      BY <1>1, <2>2 DEF OfKind, SeenOK, VerdictParts
    <2>6. ASSUME ~ restored' PROVE AuthorOK' /\ AdminOK' /\ PublicIsSettled'
      <3>1. target.status = "draft" => Open' = {}
        BY <2>1, <2>2, <2>3, <2>6 DEF VerdictParts, AdminOK, OneOpenEntry
      <3> QED
        BY <2>2, <2>3, <2>6, <3>1 DEF AuthorOK, AdminOK, PublicIsSettled, VerdictParts
    <2> QED
      BY <2>4, <2>5, <2>6 DEF VerdictParts
  <1>10. CASE DismissComplaint(p)
    <2>1. UNCHANGED <<kind, target, entry, pc, picked, saw, restored>>
      BY <1>10 DEF DismissComplaint
    <2> QED
      BY <2>1
      DEF VerdictParts, OfKind, SeenOK, ApprovedHasVerdict, AuthorOK, AdminOK,
          PublicIsSettled, Open, Live
  <1> QED
    BY <1>3, <1>4, <1>5, <1>6, <1>7, <1>8, <1>9, <1>10 DEF AdminStep

LEMMA VerdictReporter ==
    ASSUME SubmissionsAlone, VerdictInv, NEW p \in Reporters, ReporterStep(p)
    PROVE  VerdictParts'
  <1> USE ModerationAssumption
      DEF VerdictInv, EntryInv, ModerationInv, ModerationTypeOK, Processes
  <1>1. \A q \in Processes \ {p} : pc[q] = "idle"
    BY DEF ReporterStep, ComplainRead, ComplainInsert, Escalate, MayStart, ReporterAlone,
           SubmissionsAlone
  <1>2. CASE ComplainRead(p)
    <2>1. /\ Continue(p, "complain", NoEntry)
          /\ saw' = [saw EXCEPT ![p] = target]
          /\ UNCHANGED <<kind, target, entry, restored>>
      BY <1>2 DEF ComplainRead, Rows
    <2>2. SeenOK'
      BY <1>1, <2>1 DEF SeenOK, Continue
    <2> QED
      BY <2>1, <2>2, VerdictRead DEF Continue
  <1>3. CASE ComplainInsert(p)
    <2>1. pc[p] = "complain" /\ UNCHANGED <<kind, target, entry, restored, saw>>
      BY <1>3 DEF ComplainInsert, Rows, Done
    <2>2. CASE Done(p)
      <3>1. SeenOK'
        BY <1>1, <2>2 DEF SeenOK, Done
      <3> QED
        BY <2>1, <2>2, <3>1, VerdictRead DEF Done
    <2>3. CASE saw[p].status = "community" /\ Continue(p, "escalate", NoEntry)
      <3>1. SeenOK'
        BY <1>1, <2>1, <2>3 DEF SeenOK, Continue, VerdictParts
      <3> QED
        BY <2>1, <2>3, <3>1, VerdictRead DEF Continue
    <2> QED
      BY <1>3, <2>2, <2>3 DEF ComplainInsert, Escalates
  <1>4. CASE Escalate(p)
    <2>1. Done(p)
      BY <1>4 DEF Escalate
    <2>2. \A q \in Processes : pc'[q] = "idle"
      BY <1>1, <2>1 DEF Done
    <2>3. OfKind' /\ SeenOK' /\ AuthorOK' /\ AdminOK'
      BY <2>1, <2>2 DEF Done, VerdictParts, OfKind, SeenOK, AuthorOK, AdminOK
    <2>4. CASE target' = [target EXCEPT !.status = "draft"]
      <3>1. target'.status = "draft"
        BY <2>4 DEF Targets
      <3> QED
        BY <2>3, <3>1 DEF VerdictParts, ApprovedHasVerdict, PublicIsSettled, Public
    <2>5. CASE UNCHANGED <<target, entry, complaints>>
      BY <2>1, <2>3, <2>5
      DEF Done, VerdictParts, ApprovedHasVerdict, PublicIsSettled, Open
    <2> QED
      BY <1>4, <2>4, <2>5 DEF Escalate
  <1> QED
    BY <1>2, <1>3, <1>4 DEF ReporterStep

LEMMA VerdictStep ==
    ASSUME SubmissionsAlone
    PROVE  VerdictInv /\ [ModerationNext]_moderationVars => VerdictInv'
  <1> SUFFICES ASSUME VerdictInv, [ModerationNext]_moderationVars
               PROVE  VerdictParts'
    BY EntryStep DEF VerdictInv
  <1>1. CASE Restore
    <2>1. target'.status = target.status
      BY <1>1 DEF Restore, VerdictInv, EntryInv, ModerationInv, ModerationTypeOK, Targets
    <2> QED
      BY <1>1, <2>1 DEF Restore, VerdictInv, VerdictParts, OfKind, SeenOK, ApprovedHasVerdict
  <1>2. CASE UNCHANGED moderationVars
    BY <1>2
    DEF moderationVars, VerdictInv, VerdictParts, OfKind, SeenOK, ApprovedHasVerdict, AuthorOK,
        AdminOK, PublicIsSettled, Open, Live
  <1> QED
    BY <1>1, <1>2, VerdictAuthor, VerdictAdmin, VerdictReporter DEF ModerationNext

\* Nothing is shown as approved or official without the entry by which a
\* moderator has approved it, also after a deletion and a restore
\* (_approve_content, promote_to_official, submit_set).
THEOREM ApprovedWasJudged ==
    ASSUME SubmissionsAlone
    PROVE  ModerationSpec => []ApprovedHasVerdict
  <1>1. ModerationInit => VerdictInv
    BY VerdictInit
  <1>2. VerdictInv /\ [ModerationNext]_moderationVars => VerdictInv'
    BY VerdictStep
  <1>3. VerdictInv => ApprovedHasVerdict
    BY DEF VerdictInv, VerdictParts
  <1> QED
    BY <1>1, <1>2, <1>3, PTL DEF ModerationSpec

Kept ==
    Live /\ ~ restored => \A e \in EntryIds :
        entry[e] \in Verdicts => entry'[e] = entry[e]

LEMMA KeptStep ==
    ASSUME VerdictInv, [ModerationNext]_moderationVars
    PROVE  Kept
  <1> SUFFICES ASSUME Live, ~ restored, NEW e \in EntryIds, entry[e] \in Verdicts
               PROVE  entry'[e] = entry[e]
    BY DEF Kept
  <1> USE DEF VerdictInv, EntryInv, ModerationInv, ModerationTypeOK, Processes
  <1>1. e \notin Open /\ e \notin Unused
    BY DEF Open, Unused, Verdicts
  <1>2. ASSUME NEW p \in Authors, SubmitCommit(p)
        PROVE  entry'[e] = entry[e]
    <2>1. PICK new \in Unused : entry' = Submitted(picked[p], new)
      BY <1>2 DEF SubmitCommit
    <2>2. picked[p] # e
      BY <1>1, <1>2, ModerationAssumption DEF SubmitCommit, VerdictParts, AuthorOK
    <2> QED
      BY <1>1, <2>1, <2>2 DEF Submitted
  <1>3. ASSUME NEW p \in Admins, NEW v \in Verdicts, DecideCommit(p, v)
        PROVE  entry'[e] = entry[e]
    BY <1>1, <1>3 DEF DecideCommit
  <1>4. ASSUME NEW p \in Admins, RemoveCommit(p)
        PROVE  entry'[e] = entry[e]
    BY <1>1, <1>4 DEF RemoveCommit, Resolvable, Open
  <1>5. ASSUME NEW p \in Reporters, Escalate(p)
        PROVE  entry'[e] = entry[e]
    BY <1>1, <1>5 DEF Escalate, EnsurePending
  <1>6. UNCHANGED entry => entry'[e] = entry[e]
    OBVIOUS
  <1>7. ASSUME NEW p \in Authors, AuthorStep(p)
        PROVE  SubmitCommit(p) \/ UNCHANGED entry
    BY <1>7
    DEF AuthorStep, SubmitRead, PublishRead, PublishCommit, AuthorDelete, Rows
  <1>8. ASSUME NEW p \in Admins, AdminStep(p)
        PROVE  \/ \E v \in Verdicts : DecideCommit(p, v)
               \/ RemoveCommit(p)
               \/ UNCHANGED entry
    BY <1>8
    DEF AdminStep, DecideRead, DecideResolve, PromoteRead, PromoteCommit, RemoveRead,
        DismissComplaint, Rows
  <1>9. ASSUME NEW p \in Reporters, ReporterStep(p)
        PROVE  Escalate(p) \/ UNCHANGED entry
    BY <1>9 DEF ReporterStep, ComplainRead, ComplainInsert, Rows
  <1> QED
    BY <1>2, <1>3, <1>4, <1>5, <1>6, <1>7, <1>8, <1>9 DEF ModerationNext, Restore, moderationVars

\* A verdict on a target that was never deleted is neither changed nor deleted
\* by a request that had read its entry before (submit_set, admin_delete_set,
\* resolve, _ensure_pending_moderation).
THEOREM VerdictsStand ==
    ASSUME SubmissionsAlone
    PROVE  ModerationSpec => VerdictStands
  <1>1. ModerationInit => VerdictInv
    BY VerdictInit
  <1>2. VerdictInv /\ [ModerationNext]_moderationVars => VerdictInv'
    BY VerdictStep
  <1>3. VerdictInv /\ [ModerationNext]_moderationVars
          => [Live /\ ~ restored => \A e \in EntryIds :
                entry[e] \in Verdicts => entry'[e] = entry[e]]_moderationVars
    BY KeptStep DEF Kept
  <1> QED
    BY <1>1, <1>2, <1>3, PTL DEF ModerationSpec, VerdictStands

Moves ==
    Live /\ ~ restored /\ target'.status # target.status =>
        <<target.status, target'.status>> \in
            {<<"draft", "community">>, <<"community", "approved">>,
             <<"community", "draft">>, <<"approved", "official">>}

LEMMA MovesStep ==
    ASSUME VerdictInv, [ModerationNext]_moderationVars
    PROVE  Moves
  <1> SUFFICES ASSUME Live, ~ restored
               PROVE  Moves
    BY DEF Moves
  <1> USE ModerationAssumption
      DEF VerdictInv, EntryInv, ModerationInv, ModerationTypeOK, Processes, Targets
  <1>1. ASSUME NEW p \in Authors, AuthorStep(p)
        PROVE  Moves
    <2>1. CASE SubmitCommit(p) \/ PublishCommit(p)
      <3>1. target.status = "draft"
        BY <2>1 DEF SubmitCommit, PublishCommit, VerdictParts, AuthorOK
      <3>2. target'.status = "community"
        BY <2>1 DEF SubmitCommit, PublishCommit
      <3> QED
        BY <3>1, <3>2 DEF Moves
    <2>2. CASE SubmitRead(p) \/ PublishRead(p) \/ AuthorDelete(p)
      <3>1. target'.status = target.status
        BY <2>2 DEF SubmitRead, PublishRead, AuthorDelete, Rows
      <3> QED
        BY <3>1 DEF Moves
    <2> QED
      BY <1>1, <2>1, <2>2 DEF AuthorStep
  <1>2. ASSUME NEW p \in Admins, AdminStep(p)
        PROVE  Moves
    <2>1. ASSUME NEW v \in Verdicts, DecideCommit(p, v)
          PROVE  Moves
      <3>1. target.status = "community"
        BY <2>1 DEF DecideCommit, VerdictParts, AdminOK
      <3>2. target'.status \in {"approved", "draft"}
        BY <2>1 DEF DecideCommit
      <3> QED
        BY <3>1, <3>2 DEF Moves
    <2>2. CASE PromoteCommit(p)
      <3>1. target.status \in Public
        BY <2>2 DEF PromoteCommit, VerdictParts, AdminOK
      <3>2. target'.status = "official"
        BY <2>2 DEF PromoteCommit
      <3> QED
        BY <3>1, <3>2 DEF Moves, Public
    <2>3. CASE RemoveCommit(p)
      <3>1. target'.status = target.status
        BY <2>3 DEF RemoveCommit
      <3> QED
        BY <3>1 DEF Moves
    <2>4. CASE DecideRead(p) \/ DecideResolve(p) \/ PromoteRead(p) \/ RemoveRead(p)
               \/ DismissComplaint(p)
      <3>1. target' = target
        BY <2>4 DEF DecideRead, DecideResolve, PromoteRead, RemoveRead, DismissComplaint, Rows
      <3> QED
        BY <3>1 DEF Moves
    <2> QED
      BY <1>2, <2>1, <2>2, <2>3, <2>4 DEF AdminStep
  <1>3. ASSUME NEW p \in Reporters, ReporterStep(p)
        PROVE  Moves
    <2>1. CASE Escalate(p)
      <3>1. target.status = "community"
        BY <2>1 DEF Escalate, VerdictParts, SeenOK
      <3>2. target'.status \in {"draft", "community"}
        BY <2>1, <3>1 DEF Escalate
      <3> QED
        BY <3>1, <3>2 DEF Moves
    <2>2. CASE ComplainRead(p) \/ ComplainInsert(p)
      <3>1. target' = target
        BY <2>2 DEF ComplainRead, ComplainInsert, Rows
      <3> QED
        BY <3>1 DEF Moves
    <2> QED
      BY <1>3, <2>1, <2>2 DEF ReporterStep
  <1>4. CASE Restore
    BY <1>4 DEF Restore, Live
  <1>5. CASE UNCHANGED moderationVars
    BY <1>5 DEF moderationVars, Moves
  <1> QED
    BY <1>1, <1>2, <1>3, <1>4, <1>5 DEF ModerationNext

\* A target that was never deleted moves only as the state machine at the top
\* of moderation_service.py allows: no late request undoes an approval or
\* skips the review.
THEOREM StatusMovesAreAllowed ==
    ASSUME SubmissionsAlone
    PROVE  ModerationSpec => AllowedMoves
  <1>1. ModerationInit => VerdictInv
    BY VerdictInit
  <1>2. VerdictInv /\ [ModerationNext]_moderationVars => VerdictInv'
    BY VerdictStep
  <1>3. VerdictInv /\ [ModerationNext]_moderationVars
          => [Live /\ ~ restored /\ target'.status # target.status =>
                <<target.status, target'.status>> \in
                  {<<"draft", "community">>, <<"community", "approved">>,
                   <<"community", "draft">>, <<"approved", "official">>}]_moderationVars
    BY MovesStep DEF Moves
  <1> QED
    BY <1>1, <1>2, <1>3, PTL DEF ModerationSpec, AllowedMoves
=============================================================================
