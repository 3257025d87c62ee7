-------------------------- MODULE UserPreferences --------------------------
(***************************************************************************)
(* The settings and the learning languages of one user                     *)
(* (user_settings_service.py, user_language_service.py and their           *)
(* repositories; routes/user_settings.py, routes/users.py).                *)
(*                                                                         *)
(* Each request is one READ COMMITTED transaction: a statement sees what   *)
(* was committed when it began and waits for rows that others have         *)
(* written.  What a transaction has written is in its `req' record until   *)
(* it commits.                                                             *)
(***************************************************************************)
EXTENDS Naturals, FiniteSets

CONSTANTS
    Requests,
    Langs,          \* the rows of languages
    Amounts,        \* the values a numeric setting may have
    DefaultGoal,    \* daily_study_goal (20)
    DefaultSession, \* new_items_per_session (10)
    DefaultDay,     \* new_items_per_day_limit (20)
    Patches,        \* the bodies an instance sends
    Handlers,       \* the routes an instance exercises
    Unset,          \* a field that a request does not name
    None

AllHandlers == {"get", "patch", "reset", "add", "activate", "remove"}

Fields == {"goal", "session", "day", "max"}

Settings == [goal : Amounts, session : Amounts, day : Amounts,
             max : Amounts \union {None}]
\* The fields a body names; only the review load may be null.
Patch == {p \in [Fields -> Amounts \union {None, Unset}] :
            \A f \in Fields \ {"max"} : p[f] # None}

ASSUME PreferencesAssumption ==
    /\ Amounts \subseteq Nat \ {0}
    /\ {DefaultGoal, DefaultSession, DefaultDay} \subseteq Amounts
    /\ DefaultSession <= DefaultDay
    /\ None \notin Langs \union Amounts \union Settings
    /\ Unset \notin Amounts \union {None}
    /\ Patches \subseteq Patch
    /\ Handlers \subseteq AllHandlers

VARIABLES
    settings,   \* the row of user_settings, or None
    langs,      \* the rows of user_languages, as committed
    req,        \* where each request is, and what its transaction holds
    raced,      \* history: settings were written between a request's read and
                \* its own write
    unseen      \* history: a new language was committed while a
                \* set_active that could not see it was under way

vars == <<settings, langs, req, raced, unseen>>

Places == {"idle", "create", "read", "createDefault", "update", "insert",
           "deactivate", "lock", "delete", "remaining", "commit"}
Local == [at : Places, op : AllHandlers \union {None},
          seen : Settings \union {None}, patch : Patches \union {None},
          lang : Langs \union {None}, target : Langs \union {None},
          inserted : SUBSET Langs, deleted : SUBSET Langs,
          todo : SUBSET Langs, locked : SUBSET Langs, wasActive : BOOLEAN]
Idle == [at |-> "idle", op |-> None, seen |-> None, patch |-> None,
         lang |-> None, target |-> None, inserted |-> {}, deleted |-> {},
         todo |-> {}, locked |-> {}, wasActive |-> FALSE]

\* get_default_settings
Defaults == [goal |-> DefaultGoal, session |-> DefaultSession,
             day |-> DefaultDay, max |-> None]

PreferencesTypeOK ==
    /\ settings \in Settings \union {None}
    /\ langs \in [Langs -> {"none", "inactive", "active"}]
    /\ req \in [Requests -> Local]
    /\ raced \in BOOLEAN
    /\ unseen \in BOOLEAN

\* Signup creates both; a user from before that has neither.
Init ==
    /\ settings \in {Defaults, None}
    /\ \E l \in Langs \union {None} :
          langs = [k \in Langs |-> IF k = l THEN "active" ELSE "none"]
    /\ req = [r \in Requests |-> Idle]
    /\ raced = FALSE
    /\ unseen = FALSE

At(r, place) == req[r].at = place
Goto(r, place) == req' = [req EXCEPT ![r].at = place]
Return(r) == req' = [req EXCEPT ![r] = Idle]
Begin(r, op, place) ==
    /\ op \in Handlers
    /\ At(r, "idle")
    /\ req' = [req EXCEPT ![r] = [Idle EXCEPT !.at = place, !.op = op]]

OnlyReq == UNCHANGED <<settings, langs, raced, unseen>>
OnlySettings == UNCHANGED <<langs, unseen>>
OnlyLangs == UNCHANGED <<settings, raced>>

-----------------------------------------------------------------------------
(***************************************************************************)
(* Settings.                                                               *)
(***************************************************************************)
Merge(row, patch) ==
    [f \in Fields |-> IF patch[f] = Unset THEN row[f] ELSE patch[f]]

\* Mutant: only the patch is looked at.
PatchConsistent(row) == row.goal \in Amounts

\* _validate_cross_field
CrossField(row) ==
    /\ row.session <= row.day
    /\ row.max # None => row.goal <= row.max

\* get_or_create
GetSettings(r) ==
    /\ settings = None
    /\ Begin(r, "get", "create")
    /\ OnlyReq

\* INSERT and commit; two at once, and the second hits the primary key.
CreateSettings(r) ==
    /\ At(r, "create")
    /\ IF settings = None
       THEN settings' = Defaults /\ raced' = raced
       ELSE UNCHANGED <<settings, raced>>
    /\ Return(r)
    /\ OnlySettings

\* The body; an empty one is a get.
PatchSettings(r, patch) ==
    /\ "patch" \in Handlers
    /\ At(r, "idle")
    /\ \E f \in Fields : patch[f] # Unset
    /\ req' = [req EXCEPT ![r] = [Idle EXCEPT !.at = "read", !.op = "patch",
                                              !.patch = patch]]
    /\ OnlyReq

\* get_by_user_id, the merge and the check: 422 leaves the row alone.
ReadSettings(r) ==
    /\ At(r, "read")
    /\ \/ /\ settings = None
          /\ Goto(r, "createDefault")
       \/ /\ settings # None
          /\ CrossField(Merge(settings, req[r].patch))
          /\ req' = [req EXCEPT ![r].at = "update", ![r].seen = settings]
       \/ /\ settings # None
          /\ ~CrossField(Merge(settings, req[r].patch))
          /\ Return(r)
    /\ OnlyReq

\* The row is missing: create_for_user and commit, then read it.
CreateDefault(r) ==
    /\ At(r, "createDefault")
    /\ IF settings = None
       THEN settings' = Defaults /\ Goto(r, "read")
       ELSE Return(r) /\ UNCHANGED settings      \* the primary key: 500
    /\ raced' = raced
    /\ OnlySettings

\* Mutant: the merged row is written, not the patch.
WriteMerged(r) ==
    /\ At(r, "update")
    /\ settings' = Merge(req[r].seen, req[r].patch)
    /\ raced' = (raced \/ settings # req[r].seen)
    /\ Return(r)
    /\ OnlySettings

\* UPDATE of the fields in the patch, and commit.
UpdateSettings(r) ==
    /\ At(r, "update")
    /\ settings' = Merge(settings, req[r].patch)
    /\ raced' = (raced \/ settings # req[r].seen)
    /\ Return(r)
    /\ OnlySettings

\* reset_settings: every field; a missing row is created.
ResetSettings(r) ==
    /\ "reset" \in Handlers
    /\ At(r, "idle")
    /\ \/ /\ settings # None
          /\ settings' = Defaults
          /\ UNCHANGED req
       \/ /\ settings = None
          /\ req' = [req EXCEPT ![r] = [Idle EXCEPT !.at = "create",
                                                    !.op = "reset"]]
          /\ UNCHANGED settings
    /\ UNCHANGED raced
    /\ OnlySettings

-----------------------------------------------------------------------------
(***************************************************************************)
(* Languages.                                                              *)
(***************************************************************************)
Rows == {l \in Langs : langs[l] # "none"}
Active == {l \in Langs : langs[l] = "active"}

\* Rows another transaction has inserted, or has written and thus locked.
InsertedByOthers(r) == UNION {req[q].inserted : q \in Requests \ {r}}
LockedByOthers(r) == UNION {req[q].locked : q \in Requests \ {r}}

\* add_language: a language already in the list is refused.
AddLanguage(r, l, setActive) ==
    /\ "add" \in Handlers
    /\ At(r, "idle")
    /\ l \notin Rows
    /\ req' = [req EXCEPT ![r] =
                 [Idle EXCEPT !.at = "insert", !.op = "add", !.lang = l,
                              !.target = IF setActive THEN l ELSE None]]
    /\ OnlyReq

\* activate_language adds a language that is not in the list.
ActivateLanguage(r, l) ==
    /\ "activate" \in Handlers
    /\ At(r, "idle")
    /\ req' = [req EXCEPT ![r] =
                 [Idle EXCEPT !.at = IF l \in Rows THEN "deactivate"
                                                   ELSE "insert",
                              !.op = "activate", !.lang = l, !.target = l]]
    /\ OnlyReq

\* INSERT: waits for a rival's uncommitted row, and fails if it is there.
InsertLanguage(r) ==
    /\ At(r, "insert")
    /\ req[r].lang \notin InsertedByOthers(r)
    /\ \/ /\ req[r].lang \in Rows
          /\ Return(r)
       \/ /\ req[r].lang \notin Rows
          /\ req' = [req EXCEPT ![r].inserted = {req[r].lang},
                                ![r].locked = {req[r].lang},
                                ![r].at = IF req[r].target = None
                                          THEN "commit" ELSE "deactivate"]
    /\ OnlyReq

\* Mutant: the rows of the others are left active.
DeactivateNone(r) ==
    /\ At(r, "deactivate")
    /\ req' = [req EXCEPT ![r].at = "lock", ![r].todo = {req[r].target}]
    /\ OnlyReq

\* set_active: UPDATE ... SET is_active = false for the rows it can see.
DeactivateAll(r) ==
    /\ At(r, "deactivate")
    /\ req' = [req EXCEPT ![r].at = "lock",
                          ![r].todo = (Rows \ req[r].deleted)
                                          \union req[r].inserted]
    /\ OnlyReq

\* Each row in turn, once no other transaction has it locked; then the
\* second UPDATE, which makes the target active.
LockRow(r) ==
    /\ At(r, "lock")
    /\ \/ \E l \in req[r].todo \ LockedByOthers(r) :
             req' = [req EXCEPT ![r].todo = @ \ {l},
                                ![r].locked = @ \union {l}]
       \/ /\ req[r].todo = {}
          /\ Goto(r, "commit")
    /\ OnlyReq

\* remove_language, which notes whether the language is active now.
RemoveLanguage(r, l) ==
    /\ "remove" \in Handlers
    /\ At(r, "idle")
    /\ l \in Rows
    /\ req' = [req EXCEPT ![r] =
                 [Idle EXCEPT !.at = "delete", !.op = "remove", !.lang = l,
                              !.wasActive = (langs[l] = "active")]]
    /\ OnlyReq

\* DELETE; a row that went in the meantime is a 404.
DeleteLanguage(r) ==
    /\ At(r, "delete")
    /\ req[r].lang \notin LockedByOthers(r)
    /\ \/ /\ req[r].lang \notin Rows
          /\ Return(r)
       \/ /\ req[r].lang \in Rows
          /\ req' = [req EXCEPT ![r].deleted = {req[r].lang},
                                ![r].locked = {req[r].lang},
                                ![r].at = IF req[r].wasActive
                                          THEN "remaining" ELSE "commit"]
    /\ OnlyReq

\* get_all: the oldest of the rows left becomes the active one.
PickRemaining(r) ==
    /\ At(r, "remaining")
    /\ \/ /\ Rows \ req[r].deleted = {}
          /\ Goto(r, "commit")
       \/ \E l \in Rows \ req[r].deleted :
             req' = [req EXCEPT ![r].at = "deactivate", ![r].target = l]
    /\ OnlyReq

\* Its first UPDATE has begun, and sees no row that is committed later.
SettingActive(q) == req[q].at \in {"lock", "commit"} /\ req[q].target # None

\* What the transaction wrote becomes visible, and its locks are free.
CommitLanguages(r) ==
    /\ At(r, "commit")
    /\ langs' = [l \in Langs |->
                   IF l \in req[r].deleted THEN "none"
                   ELSE IF l \notin Rows \union req[r].inserted THEN "none"
                   ELSE IF l = req[r].target THEN "active"
                   ELSE IF l \in req[r].locked THEN "inactive"
                   ELSE langs[l]]
    /\ unseen' = (unseen \/ (/\ req[r].inserted # {}
                             /\ \E q \in Requests \ {r} : SettingActive(q)))
    /\ Return(r)
    /\ OnlyLangs

\* Two transactions wait for each other: PostgreSQL aborts one of them.
DeadlockAbort(r) ==
    /\ At(r, "lock")
    /\ \E q \in Requests \ {r} :
          /\ At(q, "lock")
          /\ req[r].todo \intersect req[q].locked # {}
          /\ req[q].todo \intersect req[r].locked # {}
    /\ Return(r)
    /\ OnlyReq

-----------------------------------------------------------------------------
Next ==
    \E r \in Requests :
        \/ GetSettings(r) \/ CreateSettings(r)
        \/ \E patch \in Patches : PatchSettings(r, patch)
        \/ ReadSettings(r) \/ CreateDefault(r) \/ UpdateSettings(r)
        \/ ResetSettings(r)
        \/ \E l \in Langs :
              \/ ActivateLanguage(r, l) \/ RemoveLanguage(r, l)
              \/ \E setActive \in BOOLEAN : AddLanguage(r, l, setActive)
        \/ InsertLanguage(r) \/ DeactivateAll(r) \/ LockRow(r)
        \/ DeleteLanguage(r) \/ PickRemaining(r) \/ CommitLanguages(r)
        \/ DeadlockAbort(r)

Spec == Init /\ [][Next]_vars

-----------------------------------------------------------------------------
(***************************************************************************)
(* Properties.                                                             *)
(***************************************************************************)
\* The settings satisfy the cross-field rules unless two updates overlapped:
\* the rules are checked against a row that may change before the UPDATE.
ConsistentUnlessRaced ==
    settings # None /\ ~raced =>
        /\ settings.session <= settings.day
        /\ settings.max = None \/ settings.goal <= settings.max

\* A setting changes only by a request that names it, or a reset: a patch
\* does not undo what another one has written since the patch was read.
NoLostUpdate ==
    [][\A f \in Fields :
          settings # None /\ settings'[f] # settings[f] =>
             \/ settings' = Defaults
             \/ \E r \in Requests : /\ At(r, "update")
                                    /\ req[r].patch[f] # Unset
                                    /\ req'[r] = Idle]_vars

\* At most one language is active, as log-in needs (it reads the active one
\* with scalar_one_or_none), unless a language was added while a set_active
\* that could not see it was under way.
OneActiveUnlessUnseen == unseen \/ Cardinality(Active) <= 1
=============================================================================
