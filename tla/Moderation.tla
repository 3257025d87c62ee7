----------------------------- MODULE Moderation -----------------------------
(***************************************************************************)
(* The review of one set or item: its author's submissions, the            *)
(* moderators' verdicts and removals, and the complaints that pull it back *)
(* (services/moderation_service.py, complaint_service.py, item_service.py, *)
(* set_service.py).                                                        *)
(*                                                                         *)
(* A request is one READ COMMITTED transaction without row locks of its    *)
(* own: it reads, decides, and writes by primary key.  Its steps are the   *)
(* reads, and the writes with the commit; a request whose writes begin     *)
(* before its last read (a verdict, a complaint) has a step more.  A check *)
(* that raises rolls back, so that the request changes nothing.            *)
(***************************************************************************)
EXTENDS Naturals, FiniteSets

CONSTANTS
    Kinds,            \* which kinds of target are modelled: "set", "item"
    Authors,          \* concurrent requests of the author
    Admins,           \* concurrent requests of moderators
    Reporters,        \* users who complain; one complaint each
    EntryIds,         \* bound: rows of pending_moderation
    Threshold,        \* COMPLAINT_ESCALATION_THRESHOLD
    ComplaintsAlone,  \* no complaint overlaps another request
    NoEntry

Processes == Authors \union Admins \union Reporters

ASSUME ModerationAssumption ==
    /\ Kinds \subseteq {"set", "item"}
    /\ Authors \intersect Admins = {}
    /\ Reporters \intersect (Authors \union Admins) = {}
    /\ IsFiniteSet(Reporters)
    /\ Threshold \in Nat
    /\ ComplaintsAlone \in BOOLEAN
    /\ NoEntry \notin EntryIds

ContentStatus == {"draft", "community", "approved", "official"}
Verdicts == {"approved", "rejected"}
EntryStates == Verdicts \union {"none", "pending", "deleted"}
Targets == [status : ContentStatus, deleted : BOOLEAN, owned : BOOLEAN]

VARIABLES
    kind,        \* what the target is
    target,      \* its row; owned: creator_id is not NULL
    entry,       \* the rows of pending_moderation for it
    complaints,  \* the reporters with a row in content_complaints
    pc,          \* what each request is in the middle of
    picked,      \* the entry a request has read
    saw,         \* the target row as a complaint has read it
    restored     \* history: the target came back after a deletion

moderationVars == <<kind, target, entry, complaints, pc, picked, saw, restored>>

-----------------------------------------------------------------------------
Live == ~ target.deleted
Unused == {e \in EntryIds : entry[e] = "none"}

\* get_active_for_target raises when there is more than one, which no caller
\* catches.
Open == {e \in EntryIds : entry[e] = "pending"}
GetActive(e) == IF Open = {} THEN e = NoEntry ELSE Open = {e}

\* What the moderators are shown, by the status they ask for: the entries, and
\* how many complaints there are against their target.
ListAll(status) == {e \in EntryIds : entry[e] = status}
ListSubmissions(status) == [e \in ListAll(status) |-> Cardinality(complaints)]

\* A verdict not committed yet locks its entry against any other writer.
Locked(e) == \E q \in Admins : pc[q] = "decide" /\ picked[q] = e

MayStart(p) ==
    /\ pc[p] = "idle"
    /\ ComplaintsAlone => \A q \in Processes :
          pc[q] # "idle" => p \notin Reporters /\ q \notin Reporters

\* The request goes on at the given place, having read entry e.
Continue(p, place, e) ==
    /\ pc' = [pc EXCEPT ![p] = place]
    /\ picked' = [picked EXCEPT ![p] = e]

Done(p) ==
    /\ pc' = [pc EXCEPT ![p] = "idle"]
    /\ picked' = [picked EXCEPT ![p] = NoEntry]
    /\ UNCHANGED <<kind, saw, restored>>

Rows == <<kind, target, entry, complaints, restored>>

-----------------------------------------------------------------------------
(***************************************************************************)
(* The author.                                                             *)
(***************************************************************************)
SubmitRead(p) ==
    /\ MayStart(p)
    /\ Live /\ target.owned /\ target.status = "draft"
    /\ \E e \in EntryIds \union {NoEntry} :
          GetActive(e) /\ Continue(p, "submit", e)
    /\ UNCHANGED <<Rows, saw>>

\* Mutants: the old entry is left open; an entry is created only if none was
\* open.
SubmittedBeside(e, new) == [entry EXCEPT ![new] = "pending"]
SubmittedOnce(e, new) ==
    [x \in EntryIds |-> IF x = e THEN "deleted"
                        ELSE IF x = new /\ e = NoEntry THEN "pending" ELSE entry[x]]

\* The entry read before is deleted by its key, whatever it has become.
Submitted(e, new) ==
    [x \in EntryIds |-> IF x = new THEN "pending"
                        ELSE IF x = e THEN "deleted" ELSE entry[x]]

SubmitCommit(p) ==
    /\ pc[p] = "submit"
    /\ ~ Locked(picked[p])
    /\ \E new \in Unused : entry' = Submitted(picked[p], new)
    /\ target' = [target EXCEPT !.status = "community"]
    /\ UNCHANGED complaints
    /\ Done(p)

\* Mutant: submit_item without its check of the status.
PublishAnything(p) ==
    /\ MayStart(p)
    /\ kind = "item"
    /\ Live /\ target.owned
    /\ Continue(p, "publish", NoEntry)
    /\ UNCHANGED <<Rows, saw>>

\* ItemService.submit_item, the other way for an item to become public.
PublishRead(p) ==
    /\ MayStart(p)
    /\ kind = "item"
    /\ Live /\ target.owned /\ target.status = "draft"
    /\ Continue(p, "publish", NoEntry)
    /\ UNCHANGED <<Rows, saw>>

PublishCommit(p) ==
    /\ pc[p] = "publish"
    /\ target' = [target EXCEPT !.status = "community"]
    /\ UNCHANGED <<entry, complaints>>
    /\ Done(p)

\* An item others have in their sets is released, anything else soft-deleted.
\* One step: all its read can miss is another deletion.
AuthorDelete(p) ==
    /\ MayStart(p)
    /\ Live /\ target.owned
    /\ \/ target' = [target EXCEPT !.deleted = TRUE]
       \/ kind = "item" /\ target' = [target EXCEPT !.owned = FALSE]
    /\ UNCHANGED <<kind, entry, complaints, pc, picked, saw, restored>>

AuthorStep(p) ==
    \/ SubmitRead(p)
    \/ SubmitCommit(p)
    \/ PublishRead(p)
    \/ PublishCommit(p)
    \/ AuthorDelete(p)

-----------------------------------------------------------------------------
(***************************************************************************)
(* The moderators.                                                         *)
(***************************************************************************)
\* approve and reject differ only in what they write.
DecideRead(p) ==
    /\ MayStart(p)
    /\ \E e \in Open : Continue(p, "resolve", e)
    /\ UNCHANGED <<Rows, saw>>

\* Mutants: resolve without its WHERE on the status; no check of the target.
ResolvableAnyway(e) == TRUE
PassesAnyway == TRUE

\* UPDATE ... WHERE status = PENDING: waits for the lock, and sees what the
\* last holder has committed.
Resolvable(e) == entry[e] = "pending"

\* _approve_content and _revert_content: a deleted target passes.
PassesAssert == Live => target.status = "community"

DecideResolve(p) ==
    /\ pc[p] = "resolve"
    /\ ~ Locked(picked[p])
    /\ \/ /\ Resolvable(picked[p]) /\ PassesAssert
          /\ Continue(p, "decide", picked[p])
          /\ UNCHANGED <<Rows, saw>>
       \/ /\ ~ (Resolvable(picked[p]) /\ PassesAssert)
          /\ Done(p)
          /\ UNCHANGED <<target, entry, complaints>>

DecideCommit(p, v) ==
    /\ pc[p] = "decide"
    /\ entry' = [entry EXCEPT ![picked[p]] = v]
    /\ target' = [target EXCEPT !.status =
                    IF v = "approved" THEN "approved" ELSE "draft"]
    /\ UNCHANGED complaints
    /\ Done(p)

PromoteRead(p) ==
    /\ MayStart(p)
    /\ kind = "item"
    /\ Live /\ target.status = "approved"
    /\ Continue(p, "promote", NoEntry)
    /\ UNCHANGED <<Rows, saw>>

PromoteCommit(p) ==
    /\ pc[p] = "promote"
    /\ target' = [target EXCEPT !.status = "official"]
    /\ UNCHANGED <<entry, complaints>>
    /\ Done(p)

RemoveRead(p) ==
    /\ MayStart(p)
    /\ Live
    /\ \E e \in EntryIds \union {NoEntry} :
          GetActive(e) /\ Continue(p, "remove", e)
    /\ UNCHANGED <<Rows, saw>>

\* That the entry may be resolved by now is not looked at.
RemoveCommit(p) ==
    /\ pc[p] = "remove"
    /\ ~ Locked(picked[p])
    /\ entry' = [e \in EntryIds |->
          IF e = picked[p] /\ Resolvable(e) THEN "rejected" ELSE entry[e]]
    /\ target' = [target EXCEPT !.deleted = TRUE]
    /\ UNCHANGED complaints
    /\ Done(p)

DismissComplaint(p) ==
    /\ MayStart(p)
    /\ \E r \in complaints : complaints' = complaints \ {r}
    /\ UNCHANGED <<kind, target, entry, pc, picked, saw, restored>>

AdminStep(p) ==
    \/ DecideRead(p)
    \/ DecideResolve(p)
    \/ \E v \in Verdicts : DecideCommit(p, v)
    \/ PromoteRead(p)
    \/ PromoteCommit(p)
    \/ RemoveRead(p)
    \/ RemoveCommit(p)
    \/ DismissComplaint(p)

-----------------------------------------------------------------------------
(***************************************************************************)
(* The users who complain.                                                 *)
(***************************************************************************)
ComplainRead(p) ==
    /\ MayStart(p)
    /\ p \notin complaints
    /\ Live
    /\ Continue(p, "complain", NoEntry)
    /\ saw' = [saw EXCEPT ![p] = target]
    /\ UNCHANGED Rows

\* The count sees this complaint and the committed ones; the status is the one
\* read at the start.
Escalates(p) ==
    /\ Cardinality(complaints \union {p}) >= Threshold
    /\ saw[p].status = "community"

ComplainInsert(p) ==
    /\ pc[p] = "complain"
    /\ \/ /\ ~ Escalates(p)
          /\ complaints' = complaints \union {p}
          /\ UNCHANGED <<target, entry>>
          /\ Done(p)
       \/ /\ Escalates(p)
          /\ Continue(p, "escalate", NoEntry)
          /\ UNCHANGED <<Rows, saw>>

\* _ensure_pending_moderation: an open entry, or none to credit it to, will do.
EnsurePending(p) ==
    IF Open = {} /\ saw[p].owned
      THEN \E new \in Unused : entry' = [entry EXCEPT ![new] = "pending"]
      ELSE UNCHANGED entry

Escalate(p) ==
    /\ pc[p] = "escalate"
    /\ \/ /\ \E e \in EntryIds \union {NoEntry} : GetActive(e)
          /\ target' = [target EXCEPT !.status = "draft"]
          /\ EnsurePending(p)
          /\ complaints' = complaints \union {p}
       \/ /\ \A e \in EntryIds \union {NoEntry} : ~ GetActive(e)
          /\ UNCHANGED <<target, entry, complaints>>
    /\ Done(p)

ReporterStep(p) ==
    \/ ComplainRead(p)
    \/ ComplainInsert(p)
    \/ Escalate(p)

-----------------------------------------------------------------------------
\* LpSetImportService: importing a set identical to a deleted one restores it.
Restore ==
    /\ kind = "set"
    /\ target.deleted
    /\ target' = [target EXCEPT !.deleted = FALSE]
    /\ restored' = TRUE
    /\ UNCHANGED <<kind, entry, complaints, pc, picked, saw>>

ModerationInit ==
    /\ kind \in Kinds
    /\ target = [status |-> "draft", deleted |-> FALSE, owned |-> TRUE]
    /\ entry = [e \in EntryIds |-> "none"]
    /\ complaints = {}
    /\ pc = [p \in Processes |-> "idle"]
    /\ picked = [p \in Processes |-> NoEntry]
    /\ saw = [p \in Reporters |-> target]
    /\ restored = FALSE

ModerationNext ==
    \/ \E p \in Authors : AuthorStep(p)
    \/ \E p \in Admins : AdminStep(p)
    \/ \E p \in Reporters : ReporterStep(p)
    \/ Restore

ModerationSpec == ModerationInit /\ [][ModerationNext]_moderationVars

-----------------------------------------------------------------------------
(***************************************************************************)
(* Properties.                                                             *)
(***************************************************************************)
\* The rows and locals have their types; and a verdict that is not committed
\* yet is one on an entry that is still open, however many requests look at it.
ModerationTypeOK ==
    /\ kind \in Kinds
    /\ target \in Targets
    /\ entry \in [EntryIds -> EntryStates]
    /\ complaints \subseteq Reporters
    /\ pc \in [Processes -> {"idle", "submit", "publish", "resolve", "decide",
                             "promote", "remove", "complain", "escalate"}]
    /\ picked \in [Processes -> EntryIds \union {NoEntry}]
    /\ saw \in [Reporters -> Targets]
    /\ restored \in BOOLEAN
    /\ \A p \in Admins : pc[p] = "decide" => picked[p] \in Open

\* At most one entry is open: with two, get_active_for_target raises, and the
\* target can be neither submitted nor removed nor complained about.
OneOpenEntry == \A d, e \in Open : d = e

\* What is shown as approved or official has been approved by a moderator, and
\* the entry that says so is still there.
ApprovedHasVerdict ==
    target.status \in {"approved", "official"}
      => \E e \in EntryIds : entry[e] = "approved"

\* Moderators who ask for what is pending are shown every public set, unless it
\* came back from the dead.
CommunitySetIsQueued ==
    kind = "set" /\ Live /\ target.status = "community" /\ ~ restored
      => DOMAIN ListSubmissions("pending") # {}

\* A verdict on a target that was never deleted stays: no other request, begun
\* before it or after, changes it or deletes the entry that holds it.
VerdictStands ==
    [][Live /\ ~ restored => \A e \in EntryIds :
          entry[e] \in Verdicts => entry'[e] = entry[e]]_moderationVars

\* A target that was never deleted moves only along the state machine of
\* moderation_service.py: in particular, nothing undoes an approval.
AllowedMoves ==
    [][Live /\ ~ restored /\ target'.status # target.status =>
         <<target.status, target'.status>> \in
            {<<"draft", "community">>, <<"community", "approved">>,
             <<"community", "draft">>, <<"approved", "official">>}]_moderationVars
=============================================================================
