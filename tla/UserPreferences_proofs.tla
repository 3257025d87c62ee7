----------------------- MODULE UserPreferences_proofs -----------------------
(***************************************************************************)
(* Theorems about UserPreferences, for any number of requests, languages   *)
(* and amounts, and for any bodies.                                        *)
(***************************************************************************)
EXTENDS UserPreferences, FiniteSetTheorems, TLAPS

(***************************************************************************)
(* Types, and what a request has at hand where it needs it.                *)
(***************************************************************************)
Hand(local) ==
    /\ local.at \in {"read", "createDefault", "update"} => local.patch \in Patches
    /\ local.at = "update" => local.seen \in Settings
    /\ local.at \in {"insert", "delete"} => local.lang \in Langs
    /\ local.at = "deactivate" => local.target \in Langs

HandOK ==
    \A r \in Requests :
        Hand(req[r]) /\ (req[r].at = "update" => settings # None)

PreferencesInv == PreferencesTypeOK /\ HandOK

LEMMA DefaultsType ==
    Defaults \in Settings /\ CrossField(Defaults) /\ None \notin Settings
  BY PreferencesAssumption DEF Defaults, Settings, CrossField

LEMMA MergeType ==
    ASSUME NEW row \in Settings, NEW patch \in Patches
    PROVE  Merge(row, patch) \in Settings
  <1>1. patch \in Patch
    BY PreferencesAssumption
  <1>2. \A f \in Fields \ {"max"} : patch[f] \in Amounts \union {Unset}
    BY <1>1 DEF Patch, Fields
  <1>3. patch["max"] \in Amounts \union {None, Unset}
    BY <1>1 DEF Patch, Fields
  <1> QED
    BY <1>2, <1>3 DEF Merge, Settings, Fields

LEMMA IdleType == Idle \in Local /\ Idle.at = "idle"
  BY DEF Idle, Local, Places

LEMMA InvInit == Init => PreferencesInv
  BY DefaultsType, IdleType
  DEF Init, PreferencesInv, PreferencesTypeOK, HandOK, Hand

\* A step of one request has only its own record to look at.
LEMMA OneMoves ==
    ASSUME PreferencesInv, NEW r \in Requests,
           NEW local \in Local, Hand(local),
           req' = [req EXCEPT ![r] = local],
           local.at = "update" => settings # None,
           settings # None => settings' # None
    PROVE  req' \in [Requests -> Local] /\ HandOK'
  BY DEF PreferencesInv, PreferencesTypeOK, HandOK, Hand

\* The record of a request that goes on, or ends.
LEMMA GoesOn ==
    ASSUME PreferencesInv, NEW r \in Requests, NEW place \in Places,
           Hand([req[r] EXCEPT !.at = place]), Goto(r, place),
           place # "update", settings # None => settings' # None
    PROVE  req' \in [Requests -> Local] /\ HandOK'
  <1>1. /\ [req[r] EXCEPT !.at = place] \in Local
        /\ [req[r] EXCEPT !.at = place].at = place
    BY DEF PreferencesInv, PreferencesTypeOK, Local
  <1>2. req' = [req EXCEPT ![r] = [req[r] EXCEPT !.at = place]]
    BY DEF Goto
  <1> QED
    BY <1>1, <1>2, OneMoves

LEMMA Ends ==
    ASSUME PreferencesInv, NEW r \in Requests, Return(r),
           settings # None => settings' # None
    PROVE  req' \in [Requests -> Local] /\ HandOK'
  BY OneMoves, IdleType DEF Return, Hand

LEMMA SettingsStep ==
    ASSUME PreferencesInv, NEW r \in Requests,
           \/ GetSettings(r) \/ CreateSettings(r)
           \/ \E patch \in Patches : PatchSettings(r, patch)
           \/ ReadSettings(r) \/ CreateDefault(r) \/ UpdateSettings(r)
           \/ ResetSettings(r)
    PROVE  PreferencesInv'
  <1> USE DEF OnlyReq, OnlySettings
  <1>0. /\ settings \in Settings \union {None}
        /\ langs \in [Langs -> {"none", "inactive", "active"}]
        /\ raced \in BOOLEAN /\ unseen \in BOOLEAN
        /\ req[r] \in Local /\ Hand(req[r])
    BY DEF PreferencesInv, PreferencesTypeOK, HandOK
  <1>g. SUFFICES /\ settings' \in Settings \union {None}
                 /\ langs' \in [Langs -> {"none", "inactive", "active"}]
                 /\ raced' \in BOOLEAN /\ unseen' \in BOOLEAN
                 /\ req' \in [Requests -> Local] /\ HandOK'
    BY DEF PreferencesInv, PreferencesTypeOK
  <1>1. CASE GetSettings(r)
    <2> DEFINE new == [Idle EXCEPT !.at = "create", !.op = "get"]
    <2>1. new \in Local /\ Hand(new) /\ new.at # "update"
      BY DEF Idle, Local, Places, AllHandlers, Hand
    <2> QED
      BY <1>0, <1>1, <2>1, OneMoves, DefaultsType DEF GetSettings, Begin
  <1>2. CASE CreateSettings(r)
    BY <1>0, <1>2, Ends, DefaultsType DEF CreateSettings
  <1>3. ASSUME NEW patch \in Patches, PatchSettings(r, patch)
        PROVE  req' \in [Requests -> Local] /\ HandOK'
    <2> DEFINE new == [Idle EXCEPT !.at = "read", !.op = "patch", !.patch = patch]
    <2>1. new \in Local /\ Hand(new) /\ new.at # "update"
      BY DEF Idle, Local, Places, AllHandlers, Hand
    <2> QED
      BY <1>3, <2>1, OneMoves DEF PatchSettings
  <1>4. CASE ReadSettings(r)
    <2>1. CASE Goto(r, "createDefault")
      <3>1. Hand([req[r] EXCEPT !.at = "createDefault"])
        BY <1>0, <1>4 DEF ReadSettings, At, Hand, Local
      <3> QED
        BY <1>0, <1>4, <2>1, <3>1, GoesOn DEF ReadSettings, Places
    <2>2. CASE /\ settings # None
               /\ req' = [req EXCEPT ![r].at = "update", ![r].seen = settings]
      <3> DEFINE new == [req[r] EXCEPT !.at = "update", !.seen = settings]
      <3>1. new \in Local
        BY <1>0, <2>2 DEF Local, Places
      <3>2. Hand(new)
        BY <1>0, <1>4, <2>2 DEF ReadSettings, At, Hand, Local
      <3> QED
        BY <1>0, <1>4, <2>2, <3>1, <3>2, OneMoves DEF ReadSettings
    <2>3. CASE Return(r)
      BY <1>0, <1>4, <2>3, Ends DEF ReadSettings
    <2> QED
      BY <1>4, <2>1, <2>2, <2>3 DEF ReadSettings
  <1>5. CASE CreateDefault(r)
    <2>1. CASE settings' = Defaults /\ Goto(r, "read")
      <3>1. Hand([req[r] EXCEPT !.at = "read"])
        BY <1>0, <1>5 DEF CreateDefault, At, Hand, Local
      <3> QED
        BY <1>0, <1>5, <2>1, <3>1, GoesOn, DefaultsType DEF CreateDefault, Places
    <2>2. CASE Return(r) /\ UNCHANGED settings
      BY <1>0, <1>5, <2>2, Ends DEF CreateDefault
    <2> QED
      BY <1>5, <2>1, <2>2 DEF CreateDefault
  <1>6. CASE UpdateSettings(r)
    <2>1. settings' \in Settings
      BY <1>0, <1>6, MergeType DEF UpdateSettings, At, Hand, HandOK, PreferencesInv
    <2> QED
      BY <1>0, <1>6, <2>1, Ends, DefaultsType DEF UpdateSettings
  <1>7. CASE ResetSettings(r)
    <2> DEFINE new == [Idle EXCEPT !.at = "create", !.op = "reset"]
    <2>1. new \in Local /\ Hand(new) /\ new.at # "update"
      BY DEF Idle, Local, Places, AllHandlers, Hand
    <2>2. CASE settings # None /\ settings' = Defaults /\ UNCHANGED req
      BY <1>0, <1>7, <2>2, DefaultsType
      DEF ResetSettings, PreferencesInv, PreferencesTypeOK, HandOK, Hand
    <2>3. CASE settings = None /\ UNCHANGED settings /\ req' = [req EXCEPT ![r] = new]
      BY <1>0, <1>7, <2>1, <2>3, OneMoves DEF ResetSettings
    <2> QED
      BY <1>7, <2>2, <2>3 DEF ResetSettings
  <1> QED
    BY <1>0, <1>1, <1>2, <1>3, <1>4, <1>5, <1>6, <1>7 DEF PatchSettings

LEMMA LanguagesStep ==
    ASSUME PreferencesInv, NEW r \in Requests,
           \/ \E l \in Langs :
                 \/ ActivateLanguage(r, l) \/ RemoveLanguage(r, l)
                 \/ \E setActive \in BOOLEAN : AddLanguage(r, l, setActive)
           \/ InsertLanguage(r) \/ DeactivateAll(r) \/ LockRow(r)
           \/ DeleteLanguage(r) \/ PickRemaining(r) \/ CommitLanguages(r)
           \/ DeadlockAbort(r)
    PROVE  PreferencesInv' /\ UNCHANGED <<settings, raced>>
  <1> USE DEF OnlyReq, OnlyLangs
  <1>0. /\ settings \in Settings \union {None}
        /\ langs \in [Langs -> {"none", "inactive", "active"}]
        /\ raced \in BOOLEAN /\ unseen \in BOOLEAN
        /\ req[r] \in Local /\ Hand(req[r]) /\ Rows \subseteq Langs
    BY DEF PreferencesInv, PreferencesTypeOK, HandOK, Rows
  <1>1. UNCHANGED <<settings, raced>>
    BY DEF ActivateLanguage, RemoveLanguage, AddLanguage, InsertLanguage,
           DeactivateAll, LockRow, DeleteLanguage, PickRemaining,
           CommitLanguages, DeadlockAbort
  <1>g. SUFFICES /\ langs' \in [Langs -> {"none", "inactive", "active"}]
                 /\ unseen' \in BOOLEAN
                 /\ req' \in [Requests -> Local] /\ HandOK'
    BY <1>0, <1>1 DEF PreferencesInv, PreferencesTypeOK
  <1>2. ASSUME NEW l \in Langs, ActivateLanguage(r, l)
        PROVE  req' \in [Requests -> Local] /\ HandOK'
    <2> DEFINE new == [Idle EXCEPT !.at = IF l \in Rows THEN "deactivate"
                                                        ELSE "insert",
                                   !.op = "activate", !.lang = l, !.target = l]
    <2>1. new \in Local /\ Hand(new) /\ new.at # "update"
      BY DEF Idle, Local, Places, AllHandlers, Hand
    <2> QED
      BY <1>1, <1>2, <2>1, OneMoves DEF ActivateLanguage
  <1>3. ASSUME NEW l \in Langs, RemoveLanguage(r, l)
        PROVE  req' \in [Requests -> Local] /\ HandOK'
    <2> DEFINE new == [Idle EXCEPT !.at = "delete", !.op = "remove", !.lang = l,
                                   !.wasActive = (langs[l] = "active")]
    <2>1. new \in Local /\ Hand(new) /\ new.at # "update"
      BY DEF Idle, Local, Places, AllHandlers, Hand
    <2> QED
      BY <1>1, <1>3, <2>1, OneMoves DEF RemoveLanguage
  <1>4. ASSUME NEW l \in Langs, NEW setActive \in BOOLEAN, AddLanguage(r, l, setActive)
        PROVE  req' \in [Requests -> Local] /\ HandOK'
    <2> DEFINE new == [Idle EXCEPT !.at = "insert", !.op = "add", !.lang = l,
                                   !.target = IF setActive THEN l ELSE None]
    <2>1. new \in Local /\ Hand(new) /\ new.at # "update"
      BY DEF Idle, Local, Places, AllHandlers, Hand
    <2> QED
      BY <1>1, <1>4, <2>1, OneMoves DEF AddLanguage
  <1>5. CASE InsertLanguage(r)
    <2> DEFINE new == [req[r] EXCEPT !.inserted = {req[r].lang},
                                     !.locked = {req[r].lang},
                                     !.at = IF req[r].target = None
                                            THEN "commit" ELSE "deactivate"]
    <2>1. req[r].lang \in Langs
      BY <1>0, <1>5 DEF InsertLanguage, At, Hand
    <2>2. new \in Local
      BY <1>0, <2>1 DEF Local, Places
    <2>3. Hand(new) /\ new.at # "update"
      BY <1>0 DEF Local, Hand
    <2>4. CASE Return(r)
      BY <1>0, <1>1, <1>5, <2>4, Ends DEF InsertLanguage
    <2>5. CASE req' = [req EXCEPT ![r] = new]
      BY <1>0, <1>1, <1>5, <2>2, <2>3, <2>5, OneMoves DEF InsertLanguage
    <2> QED
      BY <1>5, <2>4, <2>5 DEF InsertLanguage
  <1>6. CASE DeactivateAll(r)
    <2> DEFINE new == [req[r] EXCEPT !.at = "lock",
                                     !.todo = (Rows \ req[r].deleted)
                                                 \union req[r].inserted]
    <2>1. new \in Local
      BY <1>0 DEF Local, Places
    <2>2. Hand(new) /\ new.at # "update"
      BY <1>0 DEF Local, Hand
    <2>3. req' = [req EXCEPT ![r] = new]
      BY <1>6 DEF DeactivateAll
    <2>4. req' \in [Requests -> Local] /\ HandOK'
      BY <1>1, <2>1, <2>2, <2>3, OneMoves
    <2> QED
      BY <1>0, <1>6, <2>4 DEF DeactivateAll
  <1>7. CASE LockRow(r)
    <2>1. ASSUME NEW l \in req[r].todo,
                 req' = [req EXCEPT ![r].todo = @ \ {l}, ![r].locked = @ \union {l}]
          PROVE  req' \in [Requests -> Local] /\ HandOK'
      <3> DEFINE new == [req[r] EXCEPT !.todo = @ \ {l}, !.locked = @ \union {l}]
      <3>0. /\ req[r].todo \ {l} \in SUBSET Langs
            /\ req[r].locked \union {l} \in SUBSET Langs
        BY <1>0 DEF Local
      <3>1. new \in Local /\ new.at = "lock"
        BY <1>0, <1>7, <3>0 DEF LockRow, At, Local
      <3>2. Hand(new) /\ req' = [req EXCEPT ![r] = new]
        BY <2>1, <3>1 DEF Hand
      <3> QED
        BY <1>1, <3>1, <3>2, OneMoves
    <2>2. CASE Goto(r, "commit")
      <3>1. Hand([req[r] EXCEPT !.at = "commit"])
        BY <1>0 DEF Hand, Local
      <3> QED
        BY <1>0, <1>1, <1>7, <2>2, <3>1, GoesOn DEF LockRow, Places
    <2> QED
      BY <1>0, <1>7, <2>1, <2>2 DEF LockRow
  <1>8. CASE DeleteLanguage(r)
    <2> DEFINE new == [req[r] EXCEPT !.deleted = {req[r].lang},
                                     !.locked = {req[r].lang},
                                     !.at = IF req[r].wasActive
                                            THEN "remaining" ELSE "commit"]
    <2>1. req[r].lang \in Langs
      BY <1>0, <1>8 DEF DeleteLanguage, At, Hand
    <2>2. new \in Local
      BY <1>0, <2>1 DEF Local, Places
    <2>3. Hand(new) /\ new.at # "update"
      BY <1>0 DEF Local, Hand
    <2>4. CASE Return(r)
      BY <1>0, <1>1, <1>8, <2>4, Ends DEF DeleteLanguage
    <2>5. CASE req' = [req EXCEPT ![r] = new]
      BY <1>0, <1>1, <1>8, <2>2, <2>3, <2>5, OneMoves DEF DeleteLanguage
    <2> QED
      BY <1>8, <2>4, <2>5 DEF DeleteLanguage
  <1>9. CASE PickRemaining(r)
    <2>1. CASE Goto(r, "commit")
      <3>1. Hand([req[r] EXCEPT !.at = "commit"])
        BY <1>0 DEF Hand, Local
      <3> QED
        BY <1>0, <1>1, <1>9, <2>1, <3>1, GoesOn DEF PickRemaining, Places
    <2>2. ASSUME NEW l \in Rows,
                 req' = [req EXCEPT ![r].at = "deactivate", ![r].target = l]
          PROVE  req' \in [Requests -> Local] /\ HandOK'
      <3> DEFINE new == [req[r] EXCEPT !.at = "deactivate", !.target = l]
      <3>1. new \in Local
        BY <1>0 DEF Local, Places
      <3>2. Hand(new) /\ new.at # "update"
        BY <1>0 DEF Local, Hand
      <3> QED
        BY <1>1, <2>2, <3>1, <3>2, OneMoves
    <2> QED
      BY <1>0, <1>9, <2>1, <2>2 DEF PickRemaining
  <1>10. CASE CommitLanguages(r)
    <2>1. langs' \in [Langs -> {"none", "inactive", "active"}] /\ unseen' \in BOOLEAN
      BY <1>0, <1>10 DEF CommitLanguages
    <2> QED
      BY <1>1, <1>10, <2>1, Ends DEF CommitLanguages
  <1>11. CASE DeadlockAbort(r)
    BY <1>0, <1>1, <1>11, Ends DEF DeadlockAbort
  <1> QED
    BY <1>0, <1>2, <1>3, <1>4, <1>5, <1>6, <1>7, <1>8, <1>9, <1>10, <1>11
    DEF ActivateLanguage, RemoveLanguage, AddLanguage

LEMMA StutterKeepsInv ==
    ASSUME PreferencesInv, UNCHANGED vars
    PROVE  PreferencesInv'
  BY DEF vars, PreferencesInv, PreferencesTypeOK, HandOK, Hand

LEMMA InvStep == PreferencesInv /\ [Next]_vars => PreferencesInv'
  BY SettingsStep, LanguagesStep, StutterKeepsInv DEF Next

\* The row of settings, the rows of languages and what each request holds
\* have their types, and an UPDATE always has a row to update.
THEOREM PreferencesTypeCorrect == Spec => []PreferencesTypeOK
  <1>1. PreferencesInv => PreferencesTypeOK
    BY DEF PreferencesInv
  <1> QED
    BY <1>1, InvInit, InvStep, PTL DEF Spec
(***************************************************************************)
(* A patch is checked against the row it was read from, and the write is   *)
(* only as good as that check if the row is still the one that was read.   *)
(***************************************************************************)
CheckedInv ==
    /\ settings # None /\ ~raced => CrossField(settings)
    /\ \A r \in Requests :
          At(r, "update") => CrossField(Merge(req[r].seen, req[r].patch))

LEMMA CheckedStep ==
    ASSUME PreferencesInv, CheckedInv, NEW r \in Requests,
           \/ GetSettings(r) \/ CreateSettings(r)
           \/ \E patch \in Patches : PatchSettings(r, patch)
           \/ ReadSettings(r) \/ CreateDefault(r) \/ UpdateSettings(r)
           \/ ResetSettings(r)
    PROVE  CheckedInv'
  <1>1. /\ req \in [Requests -> Local] /\ CrossField(Defaults) /\ raced \in BOOLEAN
        /\ Idle.at = "idle"
    BY DefaultsType, IdleType DEF PreferencesInv, PreferencesTypeOK
  <1>2. \A q \in Requests \ {r} : req'[q] = req[q]
    BY <1>1 DEF GetSettings, CreateSettings, PatchSettings, ReadSettings,
                CreateDefault, UpdateSettings, ResetSettings, Begin, Goto, Return
  <1>3. SUFFICES /\ settings' # None /\ ~raced' => CrossField(settings')
                 /\ req'[r].at = "update" =>
                       CrossField(Merge(req'[r].seen, req'[r].patch))
    <2>1. ASSUME NEW q \in Requests \ {r}, req'[q].at = "update"
          PROVE  CrossField(Merge(req'[q].seen, req'[q].patch))
      BY <1>2, <2>1 DEF CheckedInv, At
    <2> QED
      BY <1>3, <2>1 DEF CheckedInv, At, CrossField, Merge
  <1>4. CASE UpdateSettings(r)
    <2>1. ~raced' => ~raced /\ settings' = Merge(req[r].seen, req[r].patch)
      BY <1>4 DEF UpdateSettings
    <2>2. CrossField(Merge(req[r].seen, req[r].patch))
      BY <1>4 DEF UpdateSettings, CheckedInv
    <2> QED
      BY <1>1, <1>4, <2>1, <2>2 DEF UpdateSettings, Return
  <1>5. CASE ReadSettings(r)
    <2>1. settings' = settings /\ raced' = raced
      BY <1>5 DEF ReadSettings, OnlyReq
    <2>2. CASE Goto(r, "createDefault") \/ Return(r)
      BY <1>1, <2>1, <2>2 DEF Goto, Return, CheckedInv, Local
    <2>3. CASE /\ CrossField(Merge(settings, req[r].patch))
               /\ req' = [req EXCEPT ![r].at = "update", ![r].seen = settings]
      <3>1. req'[r].seen = settings /\ req'[r].patch = req[r].patch
        BY <1>1, <2>3 DEF Local
      <3> QED
        BY <2>1, <2>3, <3>1 DEF CheckedInv
    <2> QED
      BY <1>5, <2>2, <2>3 DEF ReadSettings
  <1>6. CASE CreateSettings(r) \/ CreateDefault(r)
    BY <1>1, <1>6 DEF CreateSettings, CreateDefault, Goto, Return, CheckedInv, Local
  <1>7. CASE ResetSettings(r)
    <2>1. settings' = Defaults \/ settings' = settings
      BY <1>7 DEF ResetSettings
    <2>2. raced' = raced
      BY <1>7 DEF ResetSettings
    <2>3. (req'[r] = req[r] /\ settings' = Defaults) \/ req'[r].at = "create"
      BY <1>1, <1>7 DEF ResetSettings, Idle
    <2> QED
      BY <1>1, <2>1, <2>2, <2>3 DEF CheckedInv, At
  <1>8. CASE GetSettings(r)
    BY <1>1, <1>8 DEF GetSettings, Begin, OnlyReq, CheckedInv, Idle
  <1>9. ASSUME NEW patch \in Patches, PatchSettings(r, patch)
        PROVE  req'[r].at = "read" /\ UNCHANGED <<settings, raced>>
    BY <1>1, <1>9 DEF PatchSettings, OnlyReq, CheckedInv, Idle
  <1> QED
    BY <1>4, <1>5, <1>6, <1>7, <1>8, <1>9 DEF CheckedInv

LEMMA CheckedByOthers ==
    ASSUME PreferencesInv, CheckedInv, NEW r \in Requests,
           \/ \E l \in Langs :
                 \/ ActivateLanguage(r, l) \/ RemoveLanguage(r, l)
                 \/ \E setActive \in BOOLEAN : AddLanguage(r, l, setActive)
           \/ InsertLanguage(r) \/ DeactivateAll(r) \/ LockRow(r)
           \/ DeleteLanguage(r) \/ PickRemaining(r) \/ CommitLanguages(r)
           \/ DeadlockAbort(r)
    PROVE  CheckedInv'
  <1>1. UNCHANGED <<settings, raced>>
    BY LanguagesStep
  <1>2. req \in [Requests -> Local]
    BY DEF PreferencesInv, PreferencesTypeOK
  <1>3. /\ \A q \in Requests \ {r} : req'[q] = req[q]
        /\ req'[r].at # "update"
    <2>1. CASE Return(r) \/ Goto(r, "commit")
      BY <1>2, <2>1 DEF Return, Goto, Idle, Local
    <2>2. ASSUME NEW l \in Langs,
                 \/ ActivateLanguage(r, l) \/ RemoveLanguage(r, l)
                 \/ \E setActive \in BOOLEAN : AddLanguage(r, l, setActive)
          PROVE  /\ \A q \in Requests \ {r} : req'[q] = req[q]
                 /\ req'[r].at # "update"
      <3>1. CASE ActivateLanguage(r, l)
        BY <1>2, <3>1 DEF ActivateLanguage, Idle
      <3>2. CASE RemoveLanguage(r, l)
        BY <1>2, <3>2 DEF RemoveLanguage, Idle
      <3>3. CASE \E setActive \in BOOLEAN : AddLanguage(r, l, setActive)
        BY <1>2, <3>3 DEF AddLanguage, Idle
      <3> QED
        BY <2>2, <3>1, <3>2, <3>3
    <2>3. CASE InsertLanguage(r)
      BY <1>2, <2>1, <2>3 DEF InsertLanguage, Local
    <2>4. CASE DeactivateAll(r) \/ LockRow(r)
      BY <1>2, <2>1, <2>4 DEF DeactivateAll, LockRow, At, Local
    <2>5. CASE DeleteLanguage(r)
      BY <1>2, <2>1, <2>5 DEF DeleteLanguage, Local
    <2>6. CASE PickRemaining(r)
      BY <1>2, <2>1, <2>6 DEF PickRemaining, Local
    <2> QED
      BY <2>1, <2>2, <2>3, <2>4, <2>5, <2>6 DEF CommitLanguages, DeadlockAbort
  <1>4. \A q \in Requests : req'[q].at = "update" => req'[q] = req[q]
    BY <1>3
  <1> QED
    BY <1>1, <1>4 DEF CheckedInv, At, CrossField, Merge

\* The settings obey the cross-field rules unless two updates overlapped.
THEOREM SettingsConsistent == Spec => []ConsistentUnlessRaced
  <1>1. Init => CheckedInv
    BY DefaultsType, IdleType DEF Init, CheckedInv, At
  <1>2. PreferencesInv /\ CheckedInv /\ [Next]_vars => CheckedInv'
    <2>1. ASSUME CheckedInv, UNCHANGED vars
          PROVE  CheckedInv'
      BY <2>1 DEF vars, CheckedInv, At, CrossField, Merge
    <2> QED
      BY <2>1, CheckedStep, CheckedByOthers DEF Next
  <1>3. CheckedInv => ConsistentUnlessRaced
    BY DEF CheckedInv, ConsistentUnlessRaced, CrossField
  <1> QED
    BY <1>1, <1>2, <1>3, InvInit, InvStep, PTL DEF Spec

\* An UPDATE names only the fields of its patch, so what another request has
\* written since the patch was read stays.
THEOREM PatchKeepsOthers == Spec => NoLostUpdate
  <1> DEFINE Kept ==
        \A f \in Fields :
          settings # None /\ settings'[f] # settings[f] =>
             \/ settings' = Defaults
             \/ \E r \in Requests : /\ At(r, "update")
                                    /\ req[r].patch[f] # Unset
                                    /\ req'[r] = Idle
  <1>1. ASSUME PreferencesInv, [Next]_vars
        PROVE  [Kept]_vars
    <2>1. CASE settings' = settings \/ settings = None \/ settings' = Defaults
      BY <2>1
    <2>2. ASSUME NEW r \in Requests, UpdateSettings(r)
          PROVE  Kept
      <3>1. req \in [Requests -> Local]
        BY <1>1 DEF PreferencesInv, PreferencesTypeOK
      <3>2. At(r, "update") /\ req'[r] = Idle
        BY <2>2, <3>1 DEF UpdateSettings, Return
      <3>3. \A f \in Fields : settings'[f] # settings[f] => req[r].patch[f] # Unset
        BY <2>2 DEF UpdateSettings, Merge
      <3> QED
        BY <3>2, <3>3
    <2>3. \/ settings' = settings \/ settings = None \/ settings' = Defaults
          \/ \E r \in Requests : UpdateSettings(r)
      <3>1. ASSUME NEW r \in Requests, \E l \in Langs :
                 \/ ActivateLanguage(r, l) \/ RemoveLanguage(r, l)
                 \/ \E setActive \in BOOLEAN : AddLanguage(r, l, setActive)
            PROVE  settings' = settings
        BY <1>1, <3>1, LanguagesStep
      <3>2. ASSUME NEW r \in Requests,
                   \/ InsertLanguage(r) \/ DeactivateAll(r) \/ LockRow(r)
                   \/ DeleteLanguage(r) \/ PickRemaining(r) \/ CommitLanguages(r)
                   \/ DeadlockAbort(r)
            PROVE  settings' = settings
        BY <1>1, <3>2, LanguagesStep
      <3>3. ASSUME NEW r \in Requests,
                   \/ GetSettings(r) \/ CreateSettings(r)
                   \/ \E patch \in Patches : PatchSettings(r, patch)
                   \/ ReadSettings(r) \/ CreateDefault(r) \/ ResetSettings(r)
            PROVE  settings' = settings \/ settings = None \/ settings' = Defaults
        BY <3>3 DEF GetSettings, CreateSettings, PatchSettings, ReadSettings,
                    CreateDefault, ResetSettings, OnlyReq
      <3> QED
        BY <1>1, <3>1, <3>2, <3>3 DEF Next, vars
    <2> QED
      BY <2>1, <2>2, <2>3
  <1> QED
    BY <1>1, InvInit, InvStep, PTL DEF Spec, NoLostUpdate

(***************************************************************************)
(* Languages.  A set_active that is under way has locked, or is about to   *)
(* lock, every row that is committed: none was added unseen.               *)
(***************************************************************************)
Covers(local) ==
    /\ local.inserted \subseteq local.locked
    /\ local.at = "delete" => local.inserted = {} /\ local.target = None
    /\ local.at = "lock" => local.target # None
    /\ local.at = "lock" =>
          unseen \/ Rows \subseteq local.locked \union local.todo \union local.deleted
    /\ local.at = "commit" /\ local.target # None =>
          unseen \/ Rows \subseteq local.locked \union local.deleted

OneActive == unseen \/ \A k, l \in Active : k = l

LanguagesInv == OneActive /\ \A r \in Requests : Covers(req[r])

LEMMA IdleCovers == Covers(Idle) /\ Covers(Idle)'
  BY DEF Idle, Covers

LEMMA CoversStep ==
    ASSUME PreferencesInv, LanguagesInv, NEW r \in Requests, NEW local,
           req' = [req EXCEPT ![r] = local], Covers(local),
           UNCHANGED <<langs, unseen>>
    PROVE  LanguagesInv'
  <1>1. Rows' = Rows /\ Active' = Active
    BY DEF Rows, Active
  <1>2. \A q \in Requests : req'[q] = IF q = r THEN local ELSE req[q]
    BY DEF PreferencesInv, PreferencesTypeOK
  <1>3. \A q \in Requests : Covers(req'[q])
    BY <1>2 DEF LanguagesInv
  <1> QED
    BY <1>1, <1>3 DEF LanguagesInv, OneActive, Covers

LEMMA LanguagesKept ==
    ASSUME PreferencesInv, LanguagesInv, NEW r \in Requests,
           \/ \E l \in Langs :
                 \/ ActivateLanguage(r, l) \/ RemoveLanguage(r, l)
                 \/ \E setActive \in BOOLEAN : AddLanguage(r, l, setActive)
           \/ InsertLanguage(r) \/ DeactivateAll(r) \/ LockRow(r)
           \/ DeleteLanguage(r) \/ PickRemaining(r) \/ DeadlockAbort(r)
    PROVE  LanguagesInv'
  <1>1. UNCHANGED <<langs, unseen>>
    BY DEF ActivateLanguage, RemoveLanguage, AddLanguage, InsertLanguage, OnlyReq,
           DeactivateAll, LockRow, DeleteLanguage, PickRemaining, DeadlockAbort
  <1>2. Covers(req[r]) /\ req[r] \in Local
    BY DEF LanguagesInv, PreferencesInv, PreferencesTypeOK
  <1>3. ASSUME Return(r)
        PROVE  LanguagesInv'
    BY <1>1, <1>3, IdleCovers, CoversStep DEF Return
  <1>4. ASSUME NEW l \in Langs,
               \/ ActivateLanguage(r, l) \/ RemoveLanguage(r, l)
               \/ \E setActive \in BOOLEAN : AddLanguage(r, l, setActive)
        PROVE  LanguagesInv'
    <2>1. CASE ActivateLanguage(r, l)
      <3> DEFINE new == [Idle EXCEPT !.at = IF l \in Rows THEN "deactivate"
                                                          ELSE "insert",
                                     !.op = "activate", !.lang = l, !.target = l]
      <3>1. Covers(new)
        BY DEF Covers, Idle
      <3> QED
        BY <1>1, <2>1, <3>1, CoversStep DEF ActivateLanguage
    <2>2. CASE RemoveLanguage(r, l)
      <3> DEFINE new == [Idle EXCEPT !.at = "delete", !.op = "remove", !.lang = l,
                                     !.wasActive = (langs[l] = "active")]
      <3>1. Covers(new)
        BY DEF Covers, Idle
      <3> QED
        BY <1>1, <2>2, <3>1, CoversStep DEF RemoveLanguage
    <2>3. ASSUME NEW setActive \in BOOLEAN, AddLanguage(r, l, setActive)
          PROVE  LanguagesInv'
      <3> DEFINE new == [Idle EXCEPT !.at = "insert", !.op = "add", !.lang = l,
                                     !.target = IF setActive THEN l ELSE None]
      <3>1. Covers(new)
        BY DEF Covers, Idle
      <3> QED
        BY <1>1, <2>3, <3>1, CoversStep DEF AddLanguage
    <2> QED
      BY <1>4, <2>1, <2>2, <2>3
  <1>5. CASE InsertLanguage(r)
    <2> DEFINE new == [req[r] EXCEPT !.inserted = {req[r].lang},
                                     !.locked = {req[r].lang},
                                     !.at = IF req[r].target = None
                                            THEN "commit" ELSE "deactivate"]
    <2>1. Covers(new)
      BY <1>2 DEF Covers, Local
    <2>2. CASE req' = [req EXCEPT ![r] = new]
      BY <1>1, <2>1, <2>2, CoversStep
    <2> QED
      BY <1>3, <1>5, <2>2 DEF InsertLanguage
  <1>6. CASE DeactivateAll(r)
    <2> DEFINE new == [req[r] EXCEPT !.at = "lock",
                                     !.todo = (Rows \ req[r].deleted)
                                                 \union req[r].inserted]
    <2>1. req[r].target # None
      BY <1>6, PreferencesAssumption
      DEF DeactivateAll, At, PreferencesInv, HandOK, Hand
    <2>2. Covers(new)
      BY <1>2, <2>1 DEF Covers, Local
    <2> QED
      BY <1>1, <1>6, <2>2, CoversStep DEF DeactivateAll
  <1>7. CASE LockRow(r)
    <2>1. ASSUME NEW l \in req[r].todo,
                 req' = [req EXCEPT ![r].todo = @ \ {l}, ![r].locked = @ \union {l}]
          PROVE  LanguagesInv'
      <3> DEFINE new == [req[r] EXCEPT !.todo = @ \ {l}, !.locked = @ \union {l}]
      <3>1. Covers(new)
        BY <1>2, <1>7 DEF Covers, Local, LockRow, At
      <3> QED
        BY <1>1, <2>1, <3>1, CoversStep
    <2>2. ASSUME req[r].todo = {}, Goto(r, "commit")
          PROVE  LanguagesInv'
      <3> DEFINE new == [req[r] EXCEPT !.at = "commit"]
      <3>1. Covers(new)
        BY <1>2, <1>7, <2>2 DEF Covers, Local, LockRow, At
      <3> QED
        BY <1>1, <2>2, <3>1, CoversStep DEF Goto
    <2> QED
      BY <1>7, <2>1, <2>2 DEF LockRow
  <1>8. CASE DeleteLanguage(r)
    <2> DEFINE new == [req[r] EXCEPT !.deleted = {req[r].lang},
                                     !.locked = {req[r].lang},
                                     !.at = IF req[r].wasActive
                                            THEN "remaining" ELSE "commit"]
    <2>1. Covers(new)
      BY <1>2, <1>8 DEF Covers, Local, DeleteLanguage, At
    <2>2. CASE req' = [req EXCEPT ![r] = new]
      BY <1>1, <2>1, <2>2, CoversStep
    <2> QED
      BY <1>3, <1>8, <2>2 DEF DeleteLanguage
  <1>9. CASE PickRemaining(r)
    <2>1. ASSUME Rows \ req[r].deleted = {}, Goto(r, "commit")
          PROVE  LanguagesInv'
      <3> DEFINE new == [req[r] EXCEPT !.at = "commit"]
      <3>1. Covers(new)
        BY <1>2, <2>1 DEF Covers, Local
      <3> QED
        BY <1>1, <2>1, <3>1, CoversStep DEF Goto
    <2>2. ASSUME NEW l \in Rows,
                 req' = [req EXCEPT ![r].at = "deactivate", ![r].target = l]
          PROVE  LanguagesInv'
      <3> DEFINE new == [req[r] EXCEPT !.at = "deactivate", !.target = l]
      <3>1. Covers(new)
        BY <1>2 DEF Covers, Local
      <3> QED
        BY <1>1, <2>2, <3>1, CoversStep
    <2> QED
      BY <1>9, <2>1, <2>2 DEF PickRemaining
  <1>10. CASE DeadlockAbort(r)
    BY <1>3, <1>10 DEF DeadlockAbort
  <1> QED
    BY <1>4, <1>5, <1>6, <1>7, <1>8, <1>9, <1>10

LEMMA LanguagesUntouched ==
    ASSUME PreferencesInv, LanguagesInv, NEW r \in Requests,
           \/ GetSettings(r) \/ CreateSettings(r)
           \/ \E patch \in Patches : PatchSettings(r, patch)
           \/ ReadSettings(r) \/ CreateDefault(r) \/ UpdateSettings(r)
           \/ ResetSettings(r)
    PROVE  LanguagesInv'
  <1>1. UNCHANGED <<langs, unseen>>
    BY DEF GetSettings, CreateSettings, PatchSettings, ReadSettings, OnlyReq,
           CreateDefault, UpdateSettings, ResetSettings, OnlySettings
  <1>2. req[r] \in Local /\ Covers(req[r])
    BY DEF PreferencesInv, PreferencesTypeOK, LanguagesInv
  <1>3. ASSUME req' = req
        PROVE  LanguagesInv'
    BY <1>1, <1>2, <1>3, CoversStep DEF PreferencesInv, PreferencesTypeOK
  <1>4. ASSUME Return(r)
        PROVE  LanguagesInv'
    BY <1>1, <1>4, IdleCovers, CoversStep DEF Return
  <1>5. ASSUME NEW place \in {"read", "createDefault"}, Goto(r, place)
        PROVE  LanguagesInv'
    <2>1. Covers([req[r] EXCEPT !.at = place])
      BY <1>2, <1>5 DEF Covers, Local
    <2> QED
      BY <1>1, <1>5, <2>1, CoversStep DEF Goto
  <1>6. ASSUME NEW op \in {"get", "reset"},
               req' = [req EXCEPT ![r] = [Idle EXCEPT !.at = "create", !.op = op]]
        PROVE  LanguagesInv'
    <2>1. Covers([Idle EXCEPT !.at = "create", !.op = op])
      BY DEF Covers, Idle
    <2> QED
      BY <1>1, <1>6, <2>1, CoversStep
  <1>7. ASSUME req' = [req EXCEPT ![r].at = "update", ![r].seen = settings]
        PROVE  LanguagesInv'
    <2> DEFINE new == [req[r] EXCEPT !.at = "update", !.seen = settings]
    <2>1. Covers(new)
      BY <1>2 DEF Covers, Local
    <2> QED
      BY <1>1, <1>7, <2>1, CoversStep
  <1>8. ASSUME NEW patch \in Patches, PatchSettings(r, patch)
        PROVE  LanguagesInv'
    <2> DEFINE new == [Idle EXCEPT !.at = "read", !.op = "patch", !.patch = patch]
    <2>1. Covers(new)
      BY DEF Covers, Idle
    <2> QED
      BY <1>1, <1>8, <2>1, CoversStep DEF PatchSettings
  <1> QED
    BY <1>3, <1>4, <1>5, <1>6, <1>7, <1>8
    DEF GetSettings, Begin, CreateSettings, ReadSettings, CreateDefault,
        UpdateSettings, ResetSettings

\* The rows of a commit.  A language that stays active is one it has not
\* locked, and a set_active has locked them all.
LEMMA LanguagesCommitted ==
    ASSUME PreferencesInv, LanguagesInv, NEW r \in Requests, CommitLanguages(r)
    PROVE  LanguagesInv'
  <1>1. /\ req \in [Requests -> Local]
        /\ langs \in [Langs -> {"none", "inactive", "active"}]
        /\ req[r] \in Local /\ Covers(req[r]) /\ req[r].at = "commit"
        /\ unseen => unseen'
    BY DEF PreferencesInv, PreferencesTypeOK, LanguagesInv, CommitLanguages, At
  <1>2. Rows' \subseteq Rows \union req[r].inserted
    BY DEF CommitLanguages, Rows
  <1>3. \A l \in Active' : \/ l = req[r].target
                           \/ /\ l \in Active
                              /\ l \notin req[r].locked \union req[r].deleted
    BY <1>1 DEF CommitLanguages, Active, Covers, Rows
  <1>4. OneActive'
    <2>1. ASSUME ~unseen', req[r].target = None
          PROVE  \A k, l \in Active' : k = l
      <3>1. Active' \subseteq Active
        BY <1>3, <2>1, PreferencesAssumption DEF Active
      <3>2. \A k, l \in Active : k = l
        BY <1>1, <2>1 DEF LanguagesInv, OneActive
      <3> QED
        BY <3>1, <3>2
    <2>2. ASSUME ~unseen', req[r].target # None
          PROVE  \A k, l \in Active' : k = l
      <3>1. Rows \subseteq req[r].locked \union req[r].deleted
        BY <1>1, <2>2 DEF Covers
      <3>2. \A l \in Active' : l = req[r].target
        BY <1>3, <3>1 DEF Active, Rows
      <3> QED
        BY <3>2
    <2> QED
      BY <2>1, <2>2 DEF OneActive
  <1>5. ASSUME NEW q \in Requests
        PROVE  Covers(req[q])'
    <2>1. CASE q = r
      BY <1>1, <2>1, IdleCovers DEF CommitLanguages, Return
    <2>2. CASE q # r
      <3>1. req'[q] = req[q] /\ Covers(req[q])
        BY <1>1, <2>2 DEF CommitLanguages, Return, LanguagesInv
      <3>2. CASE unseen'
        BY <3>1, <3>2 DEF Covers
      <3>3. CASE ~SettingActive(q)
        BY <3>1, <3>3 DEF Covers, SettingActive
      <3>4. CASE ~unseen' /\ SettingActive(q)
        <4>1. req[r].inserted = {} /\ ~unseen
          BY <1>1, <2>2, <3>4 DEF CommitLanguages
        <4> QED
          BY <1>2, <3>1, <4>1 DEF Covers
      <3> QED
        BY <3>2, <3>3, <3>4
    <2> QED
      BY <2>1, <2>2
  <1> QED
    BY <1>4, <1>5 DEF LanguagesInv

\* At most one language is active, as log-in needs, unless one was added
\* while a set_active that could not see it was under way.
THEOREM LanguagesOneActive == Spec => []OneActiveUnlessUnseen
  <1>1. Init => LanguagesInv
    BY IdleCovers DEF Init, LanguagesInv, OneActive, Active
  <1>2. PreferencesInv /\ LanguagesInv /\ [Next]_vars => LanguagesInv'
    <2>1. ASSUME LanguagesInv, UNCHANGED <<langs, unseen, req>>
          PROVE  LanguagesInv'
      BY <2>1 DEF LanguagesInv, OneActive, Covers, Rows, Active
    <2>2. ASSUME PreferencesInv, LanguagesInv, NEW r \in Requests,
                 \/ GetSettings(r) \/ CreateSettings(r)
                 \/ \E patch \in Patches : PatchSettings(r, patch)
                 \/ ReadSettings(r) \/ CreateDefault(r) \/ UpdateSettings(r)
                 \/ ResetSettings(r)
          PROVE  LanguagesInv'
      BY <2>2, LanguagesUntouched
    <2> QED
      BY <2>1, <2>2, LanguagesKept, LanguagesCommitted DEF Next, vars
  <1>3. LanguagesInv => OneActiveUnlessUnseen
    <2>1. ASSUME \A k, l \in Active : k = l
          PROVE  Cardinality(Active) <= 1
      <3>1. CASE Active = {}
        BY <3>1, FS_EmptySet
      <3>2. ASSUME NEW l \in Active, Active = {l}
            PROVE  Cardinality(Active) <= 1
        <4>1. Cardinality({l}) = 1
          BY FS_Singleton
        <4> QED
          BY <3>2, <4>1
      <3> QED
        BY <2>1, <3>1, <3>2
    <2> QED
      BY <2>1 DEF LanguagesInv, OneActive, OneActiveUnlessUnseen
  <1> QED
    BY <1>1, <1>2, <1>3, InvInit, InvStep, PTL DEF Spec
=============================================================================
