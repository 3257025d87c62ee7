----------------------------- MODULE SetLibrary -----------------------------
(***************************************************************************)
(* Study sets, the items in them, and the users' libraries                 *)
(* (set_service.py, item_service.py and their repositories).               *)
(*                                                                         *)
(* A handler first reads (ownership, language, memberships), then writes   *)
(* and commits.  These are two steps, and other requests commit in between *)
(* (READ COMMITTED, no row is locked by the reads).  Titles, texts, media  *)
(* and sort orders are left out; deleting is setting deleted_at.           *)
(***************************************************************************)
EXTENDS FiniteSets

CONSTANTS
    Requests,
    Users,
    Sets,
    Items,
    Langs,
    Handlers,       \* the routes an instance exercises
    None

AllHandlers == {"create_set", "update_set", "delete_set", "fork_set",
                "library", "create_item", "submit_item", "delete_item",
                "add_item", "remove_item", "fork_item", "approve"}

ASSUME LibraryAssumption ==
    /\ None \notin Users \union Sets \union Items \union Langs
    /\ Handlers \subseteq AllHandlers

VARIABLES
    sets,       \* the rows of sets
    items,      \* the rows of items
    members,    \* the rows of set_items
    library,    \* the rows of user_set_library, per user
    req,        \* what each request has read; stale: a row it names was
                \* written since (history)
    raced       \* history: a request wrote on a stale check

vars == <<sets, items, members, library, req, raced>>

Presence == {"none", "live", "deleted"}
SetRow == [is : Presence, owner : Users \union {None},
           lang : Langs \union {None}, public : BOOLEAN]
ItemRow == [is : Presence, owner : Users \union {None},
            lang : Langs \union {None}, public : BOOLEAN]
NoRow == [is |-> "none", owner |-> None, lang |-> None, public |-> FALSE]

\* A row with deleted_at: every read leaves it out, so its columns are dropped.
Deleted == [NoRow EXCEPT !.is = "deleted"]

Places == {"idle", "setLang", "dropSet", "copySet", "newItem", "publish",
           "release", "dropItem", "insert"}
Local == [at : Places, user : Users \union {None}, set : Sets \union {None},
          item : Items \union {None}, lang : Langs \union {None},
          orphans : SUBSET Items, stale : BOOLEAN]
Idle == [at |-> "idle", user |-> None, set |-> None, item |-> None,
         lang |-> None, orphans |-> {}, stale |-> FALSE]

LibraryTypeOK ==
    /\ sets \in [Sets -> SetRow]
    /\ items \in [Items -> ItemRow]
    /\ members \subseteq Sets \X Items
    /\ library \in [Users -> [Sets -> {"no", "saved", "pinned"}]]
    /\ req \in [Requests -> Local]
    /\ raced \in BOOLEAN

Init ==
    /\ sets = [s \in Sets |-> NoRow]
    /\ items = [i \in Items |-> NoRow]
    /\ members = {}
    /\ library = [u \in Users |-> [s \in Sets |-> "no"]]
    /\ req = [r \in Requests |-> Idle]
    /\ raced = FALSE

-----------------------------------------------------------------------------
(***************************************************************************)
(* What the repositories answer.                                           *)
(***************************************************************************)
LiveSet(s) == sets[s].is = "live"
LiveItem(i) == items[i].is = "live"

\* _require_owned_set, _require_owned_item
OwnsSet(u, s) == LiveSet(s) /\ sets[s].owner = u
OwnsItem(u, i) == LiveItem(i) /\ items[i].owner = u

\* _is_visible_to: own, APPROVED or OFFICIAL.
Visible(u, s) == LiveSet(s) /\ (sets[s].owner = u \/ sets[s].public)

\* get_distinct_item_languages, of the live items of a set.
ItemLanguages(s) == {items[i].lang : i \in {j \in Items : /\ <<s, j>> \in members
                                                          /\ LiveItem(j)}}

\* Mutant: only the first other set, the user's own included, is looked at.
OwnSharing(i, u) == {s \in Sets : /\ <<s, i>> \in members
                                  /\ LiveSet(s)
                                  /\ sets[s].owner = u}

\* count_external_set_memberships: live sets of other users.
ExternalSets(i, u) == {s \in Sets : /\ <<s, i>> \in members
                                    /\ LiveSet(s)
                                    /\ sets[s].owner # u}

\* get_orphaned_item_ids: own items with no row in another set; the rows of
\* deleted sets count, too.
Orphans(s, u) == {i \in Items : /\ <<s, i>> \in members
                                /\ OwnsItem(u, i)
                                /\ \A t \in Sets \ {s} : <<t, i>> \notin members}

NewSets == {s \in Sets : sets[s].is = "none"}
NewItems == {i \in Items : items[i].is = "none"}

At(r, place) == req[r].at = place
Begin(r, handler) == handler \in Handlers /\ At(r, "idle")

\* A request goes on to write what it has read is allowed.
Proceed(r, place, u, s, i, l) ==
    req' = [req EXCEPT ![r] = [Idle EXCEPT !.at = place, !.user = u, !.set = s,
                                           !.item = i, !.lang = l]]

\* A commit: what others have read of these rows is stale.
Wrote(r, ss, ii) ==
    /\ req' = [q \in Requests |->
                 IF q = r THEN Idle
                 ELSE IF \/ req[q].set \in ss
                         \/ req[q].item \in ii
                         \/ req[q].orphans \intersect ii # {}
                 THEN [req[q] EXCEPT !.stale = TRUE]
                 ELSE req[q]]
    /\ raced' = (raced \/ req[r].stale)

OnlyReq == UNCHANGED <<sets, items, members, library, raced>>

-----------------------------------------------------------------------------
(***************************************************************************)
(* Sets.                                                                   *)
(***************************************************************************)
CreateSet(r, u, l) ==
    /\ Begin(r, "create_set")
    /\ \E s \in NewSets :
          /\ sets' = [sets EXCEPT ![s] = [is |-> "live", owner |-> u,
                                          lang |-> l, public |-> FALSE]]
          /\ library' = [library EXCEPT ![u][s] = "saved"]
    /\ UNCHANGED <<items, members, req, raced>>

\* Moderation approves a set.
ApproveSet(s) ==
    /\ "approve" \in Handlers
    /\ LiveSet(s)
    /\ sets' = [sets EXCEPT ![s].public = TRUE]
    /\ UNCHANGED <<items, members, library, req, raced>>

\* Mutant: the languages of the items are not looked at.
ChangeLanguageUnasked(r, u, s, l) ==
    /\ Begin(r, "update_set")
    /\ OwnsSet(u, s)
    /\ Proceed(r, "setLang", u, s, None, l)
    /\ OnlyReq

\* The source language may change to one the items have, or if there are none.
UpdateSet(r, u, s, l) ==
    /\ Begin(r, "update_set")
    /\ OwnsSet(u, s)
    /\ ItemLanguages(s) = {} \/ l \in ItemLanguages(s)
    /\ Proceed(r, "setLang", u, s, None, l)
    /\ OnlyReq

SetLanguage(r) ==
    /\ At(r, "setLang")
    /\ sets' = [sets EXCEPT ![req[r].set].lang = req[r].lang]
    /\ Wrote(r, {req[r].set}, {})
    /\ UNCHANGED <<items, members, library>>

\* The orphans are read before they are deleted with the set.
DeleteSet(r, u, s) ==
    /\ Begin(r, "delete_set")
    /\ OwnsSet(u, s)
    /\ req' = [req EXCEPT ![r] = [Idle EXCEPT !.at = "dropSet", !.user = u,
                                     !.set = s, !.orphans = Orphans(s, u)]]
    /\ OnlyReq

DropSet(r) ==
    /\ At(r, "dropSet")
    /\ sets' = [sets EXCEPT ![req[r].set] = Deleted]
    /\ items' = [i \in Items |-> IF i \in req[r].orphans
                                 THEN Deleted
                                 ELSE items[i]]
    /\ Wrote(r, {req[r].set}, req[r].orphans)
    /\ UNCHANGED <<members, library>>

\* fork_set: the metadata is read first, the rows are copied later.
ForkSet(r, u, s) ==
    /\ Begin(r, "fork_set")
    /\ Visible(u, s)
    /\ NewSets # {}
    /\ Proceed(r, "copySet", u, s, None, sets[s].lang)
    /\ OnlyReq

\* The fork shares the items, those deleted included, and takes the place of
\* the original in the library, pin and all.
CopySet(r) ==
    LET u == req[r].user
        s == req[r].set
    IN  /\ At(r, "copySet")
        /\ \E f \in NewSets :
              /\ sets' = [sets EXCEPT ![f] = [is |-> "live", owner |-> u,
                                  lang |-> req[r].lang, public |-> FALSE]]
              /\ members' = members \union
                    {<<f, i>> : i \in {j \in Items : <<s, j>> \in members}}
              /\ library' = [library EXCEPT ![u] =
                    [@ EXCEPT ![s] = "no",
                              ![f] = IF library[u][s] = "pinned"
                                     THEN "pinned" ELSE "saved"]]
              /\ Wrote(r, {}, {i \in Items : <<s, i>> \in members})
        /\ UNCHANGED items

-----------------------------------------------------------------------------
(***************************************************************************)
(* The library of a user: rows of the user's own, each handler one step.   *)
(***************************************************************************)
SaveSet(u, s) ==
    /\ "library" \in Handlers
    /\ Visible(u, s)
    /\ library[u][s] = "no"
    /\ library' = [library EXCEPT ![u][s] = "saved"]
    /\ UNCHANGED <<sets, items, members, req, raced>>

RemoveSet(u, s) ==
    /\ "library" \in Handlers
    /\ library[u][s] # "no"
    /\ library' = [library EXCEPT ![u][s] = "no"]
    /\ UNCHANGED <<sets, items, members, req, raced>>

\* toggle_pin makes an entry if there is none, of any set.
TogglePin(u, s, pinned) ==
    /\ "library" \in Handlers
    /\ sets[s].is # "none"
    /\ library' = [library EXCEPT ![u][s] = IF pinned THEN "pinned"
                                                      ELSE "saved"]
    /\ UNCHANGED <<sets, items, members, req, raced>>

-----------------------------------------------------------------------------
(***************************************************************************)
(* Items.                                                                  *)
(***************************************************************************)
\* create_item: of the language of the set.
CreateItem(r, u, s) ==
    /\ Begin(r, "create_item")
    /\ OwnsSet(u, s)
    /\ NewItems # {}
    /\ Proceed(r, "newItem", u, s, None, sets[s].lang)
    /\ OnlyReq

\* fork_item_into_set: a copy of a public item, owned by the user.
ForkItem(r, u, s, i) ==
    /\ Begin(r, "fork_item")
    /\ OwnsSet(u, s)
    /\ LiveItem(i) /\ items[i].public
    /\ items[i].lang = sets[s].lang
    /\ NewItems # {}
    /\ Proceed(r, "newItem", u, s, None, items[i].lang)
    /\ OnlyReq

InsertNewItem(r) ==
    /\ At(r, "newItem")
    /\ \E i \in NewItems :
          /\ items' = [items EXCEPT ![i] =
                [is |-> "live", owner |-> req[r].user, lang |-> req[r].lang,
                 public |-> FALSE]]
          /\ members' = members \union {<<req[r].set, i>>}
          /\ Wrote(r, {req[r].set}, {i})
    /\ UNCHANGED <<sets, library>>

\* submit_item: DRAFT becomes COMMUNITY.
SubmitItem(r, u, i) ==
    /\ Begin(r, "submit_item")
    /\ OwnsItem(u, i)
    /\ ~items[i].public
    /\ Proceed(r, "publish", u, None, i, None)
    /\ OnlyReq

PublishItem(r) ==
    /\ At(r, "publish")
    /\ items' = [items EXCEPT ![req[r].item].public = TRUE]
    /\ Wrote(r, {}, {req[r].item})
    /\ UNCHANGED <<sets, members, library>>

\* delete_item: an item that others use is released, not deleted.
DeleteItem(r, u, i) ==
    /\ Begin(r, "delete_item")
    /\ OwnsItem(u, i)
    /\ Proceed(r, IF ExternalSets(i, u) # {} THEN "release" ELSE "dropItem",
               u, None, i, None)
    /\ OnlyReq

ReleaseItem(r) ==
    /\ At(r, "release")
    /\ items' = [items EXCEPT ![req[r].item].owner = None]
    /\ Wrote(r, {}, {req[r].item})
    /\ UNCHANGED <<sets, members, library>>

DropItem(r) ==
    /\ At(r, "dropItem")
    /\ items' = [items EXCEPT ![req[r].item] = Deleted]
    /\ Wrote(r, {}, {req[r].item})
    /\ UNCHANGED <<sets, members, library>>

\* add_item_to_set: an own or a public item of the language of the set.
AddItem(r, u, s, i) ==
    /\ Begin(r, "add_item")
    /\ OwnsSet(u, s)
    /\ LiveItem(i)
    /\ items[i].owner = u \/ items[i].public
    /\ items[i].lang = sets[s].lang
    /\ <<s, i>> \notin members
    /\ Proceed(r, "insert", u, s, i, None)
    /\ OnlyReq

\* A row that is there by now is a primary key violation, and changes nothing.
InsertMember(r) ==
    /\ At(r, "insert")
    /\ members' = members \union {<<req[r].set, req[r].item>>}
    /\ Wrote(r, {req[r].set}, {req[r].item})
    /\ UNCHANGED <<sets, items, library>>

\* remove_item_from_set deletes the row, whatever happened since the check.
RemoveItem(r, u, s, i) ==
    /\ Begin(r, "remove_item")
    /\ OwnsSet(u, s)
    /\ <<s, i>> \in members
    /\ members' = members \ {<<s, i>>}
    /\ Wrote(r, {s}, {i})
    /\ UNCHANGED <<sets, items, library>>

-----------------------------------------------------------------------------
Write(r) ==
    \/ SetLanguage(r) \/ DropSet(r) \/ CopySet(r) \/ InsertNewItem(r)
    \/ PublishItem(r) \/ ReleaseItem(r) \/ DropItem(r) \/ InsertMember(r)

OnSet(r, u, s) ==
    \/ DeleteSet(r, u, s) \/ ForkSet(r, u, s) \/ CreateItem(r, u, s)
    \/ \E l \in Langs : UpdateSet(r, u, s, l)
    \/ \E i \in Items : \/ ForkItem(r, u, s, i) \/ AddItem(r, u, s, i)
                        \/ RemoveItem(r, u, s, i)

OnItem(r, u, i) == SubmitItem(r, u, i) \/ DeleteItem(r, u, i)

OnLibrary(u, s) ==
    \/ SaveSet(u, s) \/ RemoveSet(u, s)
    \/ \E pinned \in BOOLEAN : TogglePin(u, s, pinned)

Next ==
    \/ \E r \in Requests : Write(r)
    \/ \E r \in Requests, u \in Users :
          \/ \E l \in Langs : CreateSet(r, u, l)
          \/ \E s \in Sets : OnSet(r, u, s)
          \/ \E i \in Items : OnItem(r, u, i)
    \/ \E s \in Sets : ApproveSet(s) \/ \E u \in Users : OnLibrary(u, s)

Spec == Init /\ [][Next]_vars

-----------------------------------------------------------------------------
(***************************************************************************)
(* Properties.                                                             *)
(***************************************************************************)
\* The live items of a live set have its language, unless a request wrote on
\* a check of rows that were written since.
SameLanguage ==
    ~raced =>
        \A s \in Sets, i \in Items :
            LiveSet(s) /\ LiveItem(i) /\ <<s, i>> \in members =>
                items[i].lang = sets[s].lang

\* Nobody loses a card to another user: when an item is deleted, it is in no
\* live set of another user, unless the check was stale (delete_item, and
\* delete_set, which also deletes the orphans of the set).
DeletedIsUnshared ==
    [][~raced' =>
          \A i \in Items : items[i].is = "live" /\ items'[i].is = "deleted" =>
              \A s \in Sets : <<s, i>> \in members /\ LiveSet(s) =>
                  sets[s].owner = items[i].owner]_vars
=============================================================================
