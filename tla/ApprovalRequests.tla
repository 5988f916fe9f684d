------------------------- MODULE ApprovalRequests -------------------------
(***************************************************************************)
(* An approval request and what each handler of api/v1/approvals.py does   *)
(* to it, as operators on records: the guards (the code's 4xx responses)   *)
(* and the effects.  ApprovalFlow runs the handlers one at a time;         *)
(* ApprovalSessions interleaves their reads and commits.                   *)
(*                                                                         *)
(* A request is one approval_requests row with the rows that hang on it:   *)
(*   status   "NONE" before the row exists, then the column                *)
(*   form     form_data                                                    *)
(*   rules    approval_rules_snapshot                                      *)
(*   slots    attachment_slots_snapshot (one slot), or NoSlots for NULL    *)
(*   steps    the approval_steps rows; the index is the row's identity,    *)
(*            "no" its step_no, "from" delegated_from_step_id (0: NULL)    *)
(*   history  the approval_history entries, one per transaction; the       *)
(*            SKIPPED entries of an approval are the set "skipped"         *)
(*   files    the approval_attachments rows in the slot                    *)
(* A template is [rules, slots, active].                                   *)
(***************************************************************************)
EXTENDS ApprovalRules

CONSTANTS NoSlots,      \* attachment_slots is NULL
          FileIds       \* identities of attachment rows

Open    == {"IN_PROGRESS", "SUBMITTED"}
Closed  == {"APPROVED", "REJECTED", "CANCELLED"}
Decided == {"APPROVED", "REJECTED", "DELEGATED"}

Statuses     == {"NONE", "DRAFT"} \cup Open \cup Closed
StepStatuses == {"PENDING", "SKIPPED"} \cup Decided
Events       == {"CREATED", "SUBMITTED", "CANCELLED", "COMMENTED"} \cup Decided

NewStep(s) == [no |-> s.no, approver |-> s.approver, rule |-> s.rule,
               index |-> s.index, status |-> "PENDING", from |-> 0]

Entry(event, actor, step, skipped) ==
  [event |-> event, actor |-> actor, step |-> step, skipped |-> skipped]

Log(r, event, actor, step, skipped) ==
  [r EXCEPT !.history = Append(@, Entry(event, actor, step, skipped))]

(***************************************************************************)
(* Attachments.                                                            *)
(***************************************************************************)

\* _slots_def: the snapshot when there is one, else what the template says now.
SlotsInForce(r, tpl) == IF r.slots # NoSlots THEN r.slots ELSE tpl.slots

\* _validate_required_attachments passes.
HasRequiredFiles(r, tpl) ==
  LET slot == SlotsInForce(r, tpl)
  IN  slot # NoSlots => Cardinality(r.files) >= slot.need

\* _can_modify_attachments: ADMIN and HR always, the requester while it is open.
CanModifyFiles(r, editor) == editor = "admin" \/ r.status \notin Closed

\* Mutated form of CanUpload: max_count is not looked at.
CanUploadUnlimited(r, tpl, editor) ==
  /\ r.status # "NONE"
  /\ CanModifyFiles(r, editor)
  /\ SlotsInForce(r, tpl) # NoSlots

\* The slot is defined and not full.
CanUpload(r, tpl, editor) ==
  LET slot == SlotsInForce(r, tpl)
  IN  /\ r.status # "NONE"
      /\ CanModifyFiles(r, editor)
      /\ slot # NoSlots /\ Cardinality(r.files) < slot.max

(***************************************************************************)
(* Creation and submission.                                                *)
(***************************************************************************)

\* create_request up to the flush: the row with its snapshots of the template.
NewRequest(tpl, form) ==
  [status |-> "DRAFT", form |-> form, rules |-> tpl.rules, slots |-> tpl.slots,
   steps |-> << >>, history |-> <<Entry("CREATED", Requester, 0, {})>>,
   files |-> {}]

\* submit_request takes over the slots the template has now, if it has any.
RefreshSlots(r, tpl) ==
  IF tpl.slots # NoSlots THEN [r EXCEPT !.slots = tpl.slots] ELSE r

Chain(r, org) == EvaluateRules(org, r.rules, r.form)

CanSubmit(r, tpl, org) == HasRequiredFiles(r, tpl) /\ Chain(r, org) # << >>

\* _materialize_steps and the rest of a submission.
Submitted(r, org) ==
  LET chain == Chain(r, org)
  IN  Log([r EXCEPT !.steps = @ \o [i \in 1 .. Len(chain) |-> NewStep(chain[i])],
                    !.status = "IN_PROGRESS"],
          "SUBMITTED", Requester, 0, {})

(***************************************************************************)
(* Deciding a step.                                                        *)
(***************************************************************************)
\* Mutated forms of EarlierPending: no order at all; any other pending step.
EarlierPendingNone(r, i) == {}

EarlierPendingAny(r, i) ==
  {j \in DOMAIN r.steps : r.steps[j].no # r.steps[i].no /\ r.steps[j].status = "PENDING"}

EarlierPending(r, i) ==
  {j \in DOMAIN r.steps : /\ r.steps[j].no < r.steps[i].no
                          /\ r.steps[j].status = "PENDING"}

EnsureMyPending(r, i, me) ==
  /\ r.status \in Open
  /\ i \in DOMAIN r.steps
  /\ r.steps[i].status = "PENDING"
  /\ r.steps[i].approver = me
  /\ EarlierPending(r, i) = {}

\* _spec_grade_satisfied: the grade of employee d covers the step's requirement.
GradeCovers(r, org, d, step) ==
  LET s == r.rules[step.rule].approvers[step.index]
  IN  \/ s.type = "rank_min_level"  /\ org.rank[d] >= s.level
      \/ s.type = "title_min_level" /\ org.title[d] >= s.level

\* _auto_skip_downstream: the later pending steps that approving i makes needless.
AutoSkipped(r, org, i) ==
  {j \in DOMAIN r.steps :
     /\ r.steps[j].no > r.steps[i].no
     /\ r.steps[j].status = "PENDING"
     /\ \/ r.steps[j].approver = NoDev
        \/ GradeCovers(r, org, r.steps[i].approver, r.steps[j])}

SetStatus(steps, ids, status) ==
  [j \in DOMAIN steps |->
     IF j \in ids THEN [steps[j] EXCEPT !.status = status] ELSE steps[j]]

Pending(steps) == {j \in DOMAIN steps : steps[j].status = "PENDING"}

\* Mutated form of Approved: "is anything pending" is asked before the later
\* steps are skipped.
ApprovedTooEarly(r, org, i, me) ==
  LET skipped == AutoSkipped(r, org, i)
      mine    == SetStatus(r.steps, {i}, "APPROVED")
  IN  Log([r EXCEPT !.steps  = SetStatus(mine, skipped, "SKIPPED"),
                    !.status = IF Pending(mine) = {} THEN "APPROVED" ELSE @],
          "APPROVED", me, i, skipped)

\* Mutated form of Approved: the skipped steps do not get their history entry.
ApprovedUnlogged(r, org, i, me) ==
  LET skipped == AutoSkipped(r, org, i)
      steps   == SetStatus(SetStatus(r.steps, {i}, "APPROVED"), skipped, "SKIPPED")
  IN  Log([r EXCEPT !.steps  = steps,
                    !.status = IF Pending(steps) = {} THEN "APPROVED" ELSE @],
          "APPROVED", me, i, {})

Approved(r, org, i, me) ==
  LET skipped == AutoSkipped(r, org, i)
      steps   == SetStatus(SetStatus(r.steps, {i}, "APPROVED"), skipped, "SKIPPED")
  IN  Log([r EXCEPT !.steps  = steps,
                    !.status = IF Pending(steps) = {} THEN "APPROVED" ELSE @],
          "APPROVED", me, i, skipped)

\* Mutated form of Rejected: the later steps stay as they are.
RejectedOnlyThis(r, i, me) ==
  Log([r EXCEPT !.steps  = SetStatus(@, {i}, "REJECTED"), !.status = "REJECTED"],
      "REJECTED", me, i, {})

Rejected(r, i, me) ==
  LET later == {j \in Pending(r.steps) : r.steps[j].no > r.steps[i].no}
  IN  Log([r EXCEPT !.steps  = SetStatus(SetStatus(@, {i}, "REJECTED"), later, "SKIPPED"),
                    !.status = "REJECTED"],
          "REJECTED", me, i, {})

\* Mutated form of CanDelegate: the requester is not ruled out.
CanDelegateAnybody(r, org, me, target) == target \in org.active /\ target # me

CanDelegate(r, org, me, target) ==
  /\ target \in org.active
  /\ target # me
  /\ target # Requester

\* Mutated form of Delegated: the copy is put at the end.
DelegatedAtEnd(r, i, me, target) ==
  LET copy == [no |-> Len(r.steps) + 1, approver |-> target, rule |-> r.steps[i].rule,
               index |-> r.steps[i].index, status |-> "PENDING", from |-> i]
  IN  Log([r EXCEPT !.steps = Append(SetStatus(@, {i}, "DELEGATED"), copy)],
          "DELEGATED", me, i, {})

\* The step is closed, every later step moves one place up, and a copy for the
\* delegate takes the place that falls free.
Delegated(r, i, me, target) ==
  LET newNo == r.steps[i].no + 1
      moved == [j \in DOMAIN r.steps |->
                  IF j = i THEN [r.steps[j] EXCEPT !.status = "DELEGATED"]
                  ELSE IF r.steps[j].no >= newNo THEN [r.steps[j] EXCEPT !.no = @ + 1]
                  ELSE r.steps[j]]
      copy  == [no |-> newNo, approver |-> target, rule |-> r.steps[i].rule,
                index |-> r.steps[i].index, status |-> "PENDING", from |-> i]
  IN  Log([r EXCEPT !.steps = Append(moved, copy)], "DELEGATED", me, i, {})

(***************************************************************************)
(* Cancellation and comments.                                              *)
(***************************************************************************)
CanCancel(r) == r.status \in {"DRAFT"} \cup Open

\* Mutated form of Cancelled: a misspelt status.
CancelledMisspelt(r) ==
  Log([r EXCEPT !.status = "CANCELED",
                !.steps  = SetStatus(@, Pending(@), "SKIPPED")],
      "CANCELLED", Requester, 0, {})

Cancelled(r) ==
  Log([r EXCEPT !.status = "CANCELLED",
                !.steps  = SetStatus(@, Pending(@), "SKIPPED")],
      "CANCELLED", Requester, 0, {})

CanComment(r, me) ==
  /\ r.status # "NONE"
  /\ me = Requester \/ \E j \in DOMAIN r.steps : r.steps[j].approver = me

Commented(r, me) == Log(r, "COMMENTED", me, 0, {})
=============================================================================
