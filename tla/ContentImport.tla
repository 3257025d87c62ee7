--------------------------- MODULE ContentImport ---------------------------
(***************************************************************************)
(* Importing decks (anki_import_service.py) and bundles                    *)
(* (lpset_import_service.py): one long transaction that makes a set and    *)
(* fills it with cards, reusing the items that are there already.  Items   *)
(* are told apart by a hash of their normalised text, unique among those   *)
(* not deleted, and have one translation into the language of the set.     *)
(*                                                                         *)
(* PostgreSQL is READ COMMITTED: an import sees what is committed and what *)
(* it inserted itself; an insert of a key that another transaction has     *)
(* inserted and not committed waits for that transaction.  Media and       *)
(* titles are left out.                                                    *)
(***************************************************************************)
EXTENDS ClozeCard, FiniteSets

CONSTANTS
    Requests,
    Users,
    UserOf,         \* who sends a request
    Hashes,
    Digest,         \* the hashes of the texts that there are
    Decks,
    Anki, Bundles,  \* which of them are Anki decks and which are bundles
    NotesOf,        \* the notes of a deck, in order
    CardsIn,        \* the cards of a bundle, in order
    MaxCards,       \* the cards a bundle may have
    Items,          \* bound: the rows of items
    Sets,           \* bound: the rows of sets
    MaxFaults,      \* bound: failed commits and crashes
    MaxEdits,       \* bound: what users do to the content meanwhile
    None

Text == Seq(STRING)
Note == [type : {"basic", "cloze"}, term : Text, context : Text]

ASSUME ImportAssumption ==
    /\ UserOf \in [Requests -> Users]
    /\ \A text \in DOMAIN Digest : Digest[text] \in Hashes
    /\ Anki \subseteq Decks /\ Bundles \subseteq Decks
    /\ Anki \intersect Bundles = {}
    /\ DOMAIN NotesOf = Anki /\ DOMAIN CardsIn = Bundles
    /\ \A d \in Anki : NotesOf[d] \in Seq(Note)
    /\ MaxCards \in Nat
    /\ MaxFaults \in Nat /\ MaxEdits \in Nat
    /\ None \notin Users \union Hashes \union Decks \union Items \union Sets

VARIABLES
    items,          \* the rows of items; "new": inserted, not committed
    translated,     \* the items with a live translation, committed
    sets,           \* the rows of sets, with their rows of set_items
    preview,        \* the parsed deck in Redis, one upload per deck
    req,            \* the imports that are running
    overlapped,     \* history: bundles imported by two requests at a time
    faults, edits   \* how many so far

content == <<items, translated, sets>>
bounds == <<faults, edits>>
vars == <<content, preview, req, overlapped, bounds>>

ItemRow == [is : {"none", "new", "live", "deleted"},
            hash : Hashes \union {None}, owner : Users \union {None}]
NoItem == [is |-> "none", hash |-> None, owner |-> None]

SetRow == [is : {"none", "live", "deleted"}, title : Decks \union {None},
           owner : Users \union {None}, rows : Seq(Items), bundle : BOOLEAN]
NoSet == [is |-> "none", title |-> None, owner |-> None, rows |-> <<>>,
          bundle |-> FALSE]

\* existing: the items found by hash; made, added: the items and translations
\* inserted so far; rows: the rows of set_items; left: the hashes of the
\* cards to come.
Places == {"idle", "card", "insert", "translate", "add", "commit", "forget"}
Local == [at : Places,
          deck : Decks \union {None}, bundle : BOOLEAN,
          owner : Users \union {None}, left : Seq(Hashes),
          existing : [Hashes -> Items \union {None}],
          item : Items \union {None},
          made : SUBSET Items, added : SUBSET Items, rows : Seq(Items),
          restore : Sets \union {None}]
Idle == [at |-> "idle", deck |-> None, bundle |-> FALSE, owner |-> None,
         left |-> <<>>, existing |-> [h \in Hashes |-> None], item |-> None,
         made |-> {}, added |-> {}, rows |-> <<>>, restore |-> None]

ImportTypeOK ==
    /\ items \in [Items -> ItemRow]
    /\ translated \subseteq Items
    /\ sets \in [Sets -> SetRow]
    /\ preview \in [Anki -> {"none", "stored", "expired", "forgotten"}]
    /\ req \in [Requests -> Local]
    /\ overlapped \subseteq Decks
    /\ faults \in 0..MaxFaults /\ edits \in 0..MaxEdits

Init ==
    /\ items = [i \in Items |-> NoItem]
    /\ translated = {}
    /\ sets = [s \in Sets |-> NoSet]
    /\ preview = [d \in Anki |-> "none"]
    /\ req = [r \in Requests |-> Idle]
    /\ overlapped = {}
    /\ faults = 0 /\ edits = 0

-----------------------------------------------------------------------------
At(r, place) == req[r].at = place
Hash(r) == Head(req[r].left)

LiveItem(i) == items[i].is = "live"

\* compute_item_content_hash: case and spaces do not tell texts apart.
Fold(text) == Collapse(Strip(Lower(text)))
ContentHash(card) == Digest[<<Fold(card.term), Fold(card.context)>>]
HashesOf(cards) == [n \in DOMAIN cards |-> ContentHash(cards[n])]

\* Mutant: the card keeps the term as it was typed.
AsTyped(card) ==
    [card EXCEPT !.term = IF FindSurface(card.term, card.context) = <<>>
                            THEN <<>> ELSE @]

\* The term as the sentence has it.
Normalised(card) == [card EXCEPT !.term = FindSurface(@, card.context)]

\* Phase 0: cards without a gap are skipped.
ValidCards(d) ==
    LET parsed == CardsOf(NotesOf[d])
        cards  == [n \in DOMAIN parsed |-> Normalised(parsed[n])]
    IN  Dropping(cards, {c \in ToSet(cards) : c.term = <<>>})

\* What an import goes through.
DeckHashes == [d \in Decks |-> IF d \in Anki THEN HashesOf(ValidCards(d))
                                             ELSE HashesOf(CardsIn[d])]

\* Every text has a hash; LpsetManifest bounds the cards of a bundle.
ASSUME DeckAssumption ==
    /\ \A d \in Decks : DeckHashes[d] \in Seq(Hashes)
    /\ \A d \in Bundles : Len(DeckHashes[d]) \in 1..MaxCards

\* find_by_content_hash, find_by_content_hashes: committed or its own.
FindByHash(h, own) ==
    {i \in Items : /\ items[i].hash = h
                   /\ LiveItem(i) \/ i \in own}

Existing == [h \in Hashes |-> IF FindByHash(h, {}) = {} THEN None
                              ELSE CHOOSE i \in FindByHash(h, {}) : TRUE]

\* get_ordered_item_hashes: of all rows, deleted items included.
OrderedHashes(s) == [n \in DOMAIN sets[s].rows |-> items[sets[s].rows[n]].hash]

\* export_set: as get_set_items lists them, without those deleted, and no more
\* than an import will take.
Nth(n, S) == CHOOSE m \in S : Cardinality({k \in S : k <= m}) = n
SetItems(s) ==
    LET rows == sets[s].rows
        live == {n \in DOMAIN rows : LiveItem(rows[n])}
    IN  [n \in 1..Cardinality(live) |-> rows[Nth(n, live)]]
ExportSet(s) ==
    LET cards == [n \in DOMAIN SetItems(s) |-> items[SetItems(s)[n]].hash]
    IN  IF Len(cards) > MaxCards THEN SubSeq(cards, 1, MaxCards) ELSE cards

\* Mutant: deleted sets are not looked at.
IdenticalLive(d) ==
    {s \in Sets : sets[s].is = "live" /\ sets[s].title = d
                                      /\ OrderedHashes(s) = DeckHashes[d]}

\* _find_identical_set: of any user, deleted ones included.
Identical(d) ==
    {s \in Sets : sets[s].title = d /\ OrderedHashes(s) = DeckHashes[d]}

\* The transaction that a request has to wait for, before it can insert.
WaitsFor(r, q) ==
    /\ q # r
    /\ \/ At(r, "insert") /\ \E i \in req[q].made : items[i].hash = Hash(r)
       \/ At(r, "add") /\ req[r].item \in req[q].added
Blocked(r) == \E q \in Requests : WaitsFor(r, q)

\* The transaction ends without a trace.
Rollback(r) ==
    /\ req' = [req EXCEPT ![r] = Idle]
    /\ items' = [i \in Items |-> IF i \in req[r].made THEN NoItem ELSE items[i]]

Fault == faults < MaxFaults /\ faults' = faults + 1
OnlyItems ==
    UNCHANGED <<translated, sets, preview, overlapped, bounds>>
OnlyReq == OnlyItems /\ UNCHANGED items

-----------------------------------------------------------------------------
(***************************************************************************)
(* Anki: a preview, kept for half an hour, and its confirmation.           *)
(***************************************************************************)
StorePreview(d) ==
    /\ preview[d] = "none"
    /\ preview' = [preview EXCEPT ![d] = "stored"]
    /\ UNCHANGED <<content, req, overlapped, bounds>>

PreviewExpires(d) ==
    /\ preview[d] = "stored"
    /\ preview' = [preview EXCEPT ![d] = "expired"]
    /\ UNCHANGED <<content, req, overlapped, bounds>>

\* A set is made, all cards are to come, and the hashes are looked up at once.
Begun(d, bundle, owner) ==
    [Idle EXCEPT !.at = "card", !.deck = d, !.bundle = bundle, !.owner = owner,
                 !.left = DeckHashes[d], !.existing = Existing]

\* The preview is read.
ConfirmImport(r, d) ==
    /\ At(r, "idle")
    /\ preview[d] = "stored"
    /\ req' = [req EXCEPT ![r] = Begun(d, FALSE, UserOf[r])]
    /\ OnlyReq

-----------------------------------------------------------------------------
(***************************************************************************)
(* A bundle: it is imported once, and restored when it was deleted.  Its   *)
(* set is the importer's, or nobody's when it is official.                 *)
(***************************************************************************)
StartBundle(r, d, owner) ==
    /\ At(r, "idle")
    /\ \/ /\ Identical(d) = {}
          /\ req' = [req EXCEPT ![r] = Begun(d, TRUE, owner)]
       \/ \E s \in Identical(d) :
             req' = [req EXCEPT ![r] = [Idle EXCEPT !.at = "commit", !.deck = d,
                        !.bundle = TRUE, !.restore = s]]
    /\ overlapped' = overlapped \union
          {e \in {d} : \E q \in Requests : req[q].deck = e /\ req[q].bundle}
    /\ UNCHANGED <<content, preview, bounds>>

ImportBundle(r, d) == StartBundle(r, d, UserOf[r])

\* admin_import_set.
ImportOfficial(r, d) == StartBundle(r, d, None)

\* seed_official.py: titles that a live set has are skipped.
SeedOfficial(r, d) ==
    /\ \A s \in Sets : sets[s].is = "live" => sets[s].title # d
    /\ StartBundle(r, d, None)

-----------------------------------------------------------------------------
(***************************************************************************)
(* Card by card.                                                           *)
(***************************************************************************)
\* The card in hand is done with.
NextCard(local) == [local EXCEPT !.at = "card", !.item = None, !.left = Tail(@)]
Use(local, i) == [local EXCEPT !.at = "translate", !.item = i]

\* A bundle has a new row of items for each card not found before; a deck
\* meets its own new items again, and skips a card it has linked.
TakeCard(r) ==
    LET local == req[r]
        found == local.existing[Hash(r)]
    IN  /\ At(r, "card")
        /\ local.left # <<>>
        /\ req' = [req EXCEPT ![r] =
              IF found = None THEN [local EXCEPT !.at = "insert"]
              ELSE IF ~local.bundle /\ found \in ToSet(local.rows)
                THEN NextCard(local)
              ELSE Use(local, found)]
        /\ OnlyReq

LastCard(r) ==
    /\ At(r, "card")
    /\ req[r].left = <<>>
    /\ req' = [req EXCEPT ![r].at = "commit"]
    /\ OnlyReq

\* Nobody has the hash: the item is new.
InsertItem(r) ==
    /\ At(r, "insert")
    /\ ~Blocked(r)
    /\ FindByHash(Hash(r), req[r].made) = {}
    /\ \E i \in Items :
          /\ items[i].is = "none"
          /\ items' = [items EXCEPT ![i] =
                [is |-> "new", hash |-> Hash(r), owner |-> req[r].owner]]
          /\ req' = [req EXCEPT ![r] =
                [Use(req[r], i) EXCEPT !.made = @ \union {i},
                   !.existing = IF req[r].bundle THEN @
                                ELSE [@ EXCEPT ![Hash(r)] = i]]]
    /\ OnlyItems

\* Mutant: the card is given up.
RecoverNothing(r, i) == req' = [req EXCEPT ![r] = NextCard(@)]

\* "Concurrent import won the race on this hash -- reuse it."
Recover(r, i) ==
    req' = [req EXCEPT ![r] = [Use(@, i) EXCEPT !.existing[Hash(r)] = i]]

\* A unique violation: a deck goes back to its savepoint, a bundle fails.
InsertClashes(r) ==
    /\ At(r, "insert")
    /\ ~Blocked(r)
    /\ \E i \in FindByHash(Hash(r), req[r].made) :
          \/ /\ ~req[r].bundle
             /\ Recover(r, i)
             /\ UNCHANGED items
          \/ /\ req[r].bundle
             /\ Rollback(r)
    /\ OnlyItems

\* A row of set_items; the second one for an item is a primary key violation.
Link(r, added) ==
    IF req[r].item \in ToSet(req[r].rows)
      THEN Rollback(r)
      ELSE /\ req' = [req EXCEPT ![r] = [NextCard(req[r]) EXCEPT
                          !.rows = Append(@, req[r].item), !.added = added]]
           /\ UNCHANGED items

\* _resolve_translation: the one there is, or a new one.
Translate(r) ==
    /\ At(r, "translate")
    /\ \/ /\ req[r].item \in translated \union req[r].added
          /\ Link(r, req[r].added)
       \/ /\ req[r].item \notin translated \union req[r].added
          /\ req' = [req EXCEPT ![r].at = "add"]
          /\ UNCHANGED items
    /\ OnlyItems

\* create_translation has no savepoint: a clash ends the import.
AddTranslation(r) ==
    /\ At(r, "add")
    /\ ~Blocked(r)
    /\ IF req[r].item \in translated
         THEN Rollback(r)
         ELSE Link(r, req[r].added \union {req[r].item})
    /\ OnlyItems

\* PostgreSQL ends one of two transactions that wait for each other.
DeadlockAbort(r) ==
    /\ \E q \in Requests : WaitsFor(r, q) /\ WaitsFor(q, r)
    /\ Rollback(r)
    /\ OnlyItems

-----------------------------------------------------------------------------
\* Everything becomes visible.
CommitSet(r) ==
    /\ \E s \in Sets :
          /\ sets[s].is = "none"
          /\ sets' = [sets EXCEPT ![s] = [is |-> "live", title |-> req[r].deck,
                        owner |-> req[r].owner, rows |-> req[r].rows,
                        bundle |-> req[r].bundle]]
    /\ items' = [i \in Items |-> IF i \in req[r].made
                                 THEN [items[i] EXCEPT !.is = "live"]
                                 ELSE items[i]]
    /\ translated' = translated \union req[r].added

RestoreSet(r) ==
    /\ sets' = [sets EXCEPT ![req[r].restore].is = "live"]
    /\ UNCHANGED <<items, translated>>

Commit(r) ==
    /\ At(r, "commit")
    /\ \/ /\ req[r].restore = None
          /\ CommitSet(r)
          /\ req' = [req EXCEPT ![r] = IF req[r].bundle THEN Idle
                ELSE [Idle EXCEPT !.at = "forget", !.deck = req[r].deck]]
          /\ UNCHANGED faults
       \/ /\ req[r].restore # None
          /\ RestoreSet(r)
          /\ req' = [req EXCEPT ![r] = Idle]
          /\ UNCHANGED faults
       \/ /\ Fault
          /\ Rollback(r)
          /\ UNCHANGED <<translated, sets>>
    /\ UNCHANGED <<preview, overlapped, edits>>

\* "Clean up only after a successful commit -- failure must allow retry."
Forget(r) ==
    /\ At(r, "forget")
    /\ preview' = [preview EXCEPT ![req[r].deck] =
                     IF @ = "stored" THEN "forgotten" ELSE @]
    /\ req' = [req EXCEPT ![r] = Idle]
    /\ UNCHANGED <<content, overlapped, bounds>>

-----------------------------------------------------------------------------
(***************************************************************************)
(* What users do to the content meanwhile (each is a short transaction;    *)
(* how those overlap each other is the subject of SetLibrary).             *)
(***************************************************************************)
Edit == edits < MaxEdits /\ edits' = edits + 1
InSets(i) == {s \in Sets : i \in ToSet(sets[s].rows)}

\* An item in the live set of another user is released, which changes
\* nothing here but its owner; any other one is deleted.
DeleteItem(i) ==
    /\ LiveItem(i)
    /\ items[i].owner # None
    /\ items' = [items EXCEPT ![i] =
          IF \E s \in InSets(i) : sets[s].is = "live" /\ sets[s].owner # @.owner
            THEN [@ EXCEPT !.owner = None]
            ELSE [@ EXCEPT !.is = "deleted"]]
    /\ Edit
    /\ UNCHANGED <<translated, sets, preview, req, overlapped, faults>>

\* The own items of the set that are in no other one go with it.
DeleteSet(s) ==
    /\ sets[s].is = "live"
    /\ sets[s].owner # None
    /\ sets' = [sets EXCEPT ![s].is = "deleted"]
    /\ items' = [i \in Items |->
          IF LiveItem(i) /\ items[i].owner = sets[s].owner /\ InSets(i) = {s}
            THEN [items[i] EXCEPT !.is = "deleted"]
            ELSE items[i]]
    /\ Edit
    /\ UNCHANGED <<translated, preview, req, overlapped, faults>>

\* A moderator removes any set; its items stay.
RemoveSet(s) ==
    /\ sets[s].is = "live"
    /\ sets' = [sets EXCEPT ![s].is = "deleted"]
    /\ Edit
    /\ UNCHANGED <<items, translated, preview, req, overlapped, faults>>

\* ItemService.add_translation; an insert of the same key makes it wait.
TranslateItem(i) ==
    /\ LiveItem(i)
    /\ i \notin translated
    /\ \A q \in Requests : i \notin req[q].added
    /\ translated' = translated \union {i}
    /\ Edit
    /\ UNCHANGED <<items, sets, preview, req, overlapped, faults>>

DeleteTranslation(i) ==
    /\ LiveItem(i)
    /\ i \in translated
    /\ translated' = translated \ {i}
    /\ Edit
    /\ UNCHANGED <<items, sets, preview, req, overlapped, faults>>

Crash ==
    /\ Fault
    /\ req' = [r \in Requests |-> Idle]
    /\ items' = [i \in Items |-> IF items[i].is = "new" THEN NoItem
                                                        ELSE items[i]]
    /\ UNCHANGED <<translated, sets, preview, overlapped, edits>>

-----------------------------------------------------------------------------
Import(r) ==
    \/ TakeCard(r) \/ LastCard(r) \/ InsertItem(r) \/ InsertClashes(r)
    \/ Translate(r) \/ AddTranslation(r) \/ DeadlockAbort(r)
    \/ Commit(r) \/ Forget(r)

Next ==
    \/ \E d \in Anki :
          \/ StorePreview(d)
          \/ PreviewExpires(d)
          \/ \E r \in Requests : ConfirmImport(r, d)
    \/ \E r \in Requests, d \in Bundles :
          ImportBundle(r, d) \/ ImportOfficial(r, d) \/ SeedOfficial(r, d)
    \/ \E r \in Requests : Import(r)
    \/ \E i \in Items :
          DeleteItem(i) \/ TranslateItem(i) \/ DeleteTranslation(i)
    \/ \E s \in Sets : DeleteSet(s) \/ RemoveSet(s)
    \/ Crash

Spec == Init /\ [][Next]_vars

-----------------------------------------------------------------------------
(***************************************************************************)
(* Properties.                                                             *)
(***************************************************************************)
\* The set an import makes has each card of the deck that can be practised,
\* once, whoever imports the same cards at the same time; what it made itself
\* is live and translated; and while all its items are live, exporting the set
\* a bundle made gives that bundle, so that it is not imported twice.
HasItsCards ==
    [][\A s \in Sets : sets[s].is = "none" /\ sets'[s].is = "live" =>
          LET rows == sets'[s].rows
              d    == sets'[s].title
          IN  /\ \A m, n \in DOMAIN rows : rows[m] = rows[n] => m = n
              /\ {items'[i].hash : i \in ToSet(rows)} = ToSet(DeckHashes[d])
              /\ \A i \in ToSet(rows) : items[i].is = "new" =>
                    items'[i].is = "live" /\ i \in translated'
              /\ sets'[s].bundle /\ (\A i \in ToSet(rows) : LiveItem(i)')
                    => ExportSet(s)' = DeckHashes[d]]_vars

\* A bundle becomes one set, however often it is imported, deleted and imported
\* again, unless two imports of it ran at the same time.
OneSetPerBundle ==
    \A s, t \in Sets :
        /\ s # t
        /\ sets[s].bundle /\ sets[t].bundle
        /\ sets[s].title = sets[t].title
        => sets[s].title \in overlapped

\* A card that a deck made can be practised: the sentence has a gap, the gap
\* hides the answer, and what was in it is right when typed; unless a tag was
\* not understood, or is of another kind, and is still in the sentence.
Hides(gap, term) ==
    /\ gap.word # <<>>
    /\ Correct(gap.word, term, "strict")
    /\ Occurrences(term, gap.before) = {}
CardsWithoutGap ==
    {c \in UNION {ToSet(ValidCards(d)) : d \in Anki} :
        /\ ToSet(c.context) \intersect ({Brace} \union DOMAIN Opening) = {}
        /\ ~Hides(SplitCloze(c.context, c.term), c.term)}
HashesWithoutGap == {ContentHash(c) : c \in CardsWithoutGap}

GapHidesAnswer ==
    \A i \in Items : LiveItem(i) => items[i].hash \notin HashesWithoutGap
=============================================================================
