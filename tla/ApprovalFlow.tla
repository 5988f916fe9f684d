--------------------------- MODULE ApprovalFlow ---------------------------
(***************************************************************************)
(* The life of one approval request when the handlers of approvals.py run  *)
(* one after the other, while administrators edit the template and the     *)
(* organisation chart.  This is what the approval workflow promises; what  *)
(* becomes of it when handlers overlap is the subject of ApprovalSessions. *)
(***************************************************************************)
EXTENDS ApprovalRequests

CONSTANTS Orgs,          \* the organisation charts
          Templates,     \* the contents of the template
          Editors,       \* who edits attachments: subset of {"requester", "admin"}
          MaxSteps,      \* bound: rows in approval_steps, limits delegations
          MaxHistory     \* bound: history entries, limits comments

RulesOfTemplates == {t.rules : t \in Templates}

ASSUME FlowAssumption ==
  /\ Forms # {}
  /\ \A o \in Orgs : IsOrg(o)
  /\ Editors \subseteq {"requester", "admin"}
  /\ RulesOfTemplates \subseteq Seq(Rules)
  /\ NoSlots \notin [need : Nat, max : Nat]
  /\ Templates \subseteq [rules : RulesOfTemplates, active : BOOLEAN,
                          slots : [need : Nat, max : Nat] \cup {NoSlots}]

VARIABLES org,    \* the organisation chart
          tpl,    \* the approval template
          req     \* the request

vars == <<org, tpl, req>>

NoRequest == [status |-> "NONE", form |-> CHOOSE f \in Forms : TRUE,
              rules |-> CHOOSE rs \in RulesOfTemplates : TRUE, slots |-> NoSlots,
              steps |-> << >>, history |-> << >>, files |-> {}]

Init == org \in Orgs /\ tpl \in Templates /\ req = NoRequest

\* create_request, as a draft or submitted at once.
Create(form, submit) ==
  LET r == NewRequest(tpl, form)
  IN  /\ req.status = "NONE"
      /\ tpl.active
      /\ submit => CanSubmit(r, tpl, org)
      /\ req' = IF submit THEN Submitted(r, org) ELSE r
      /\ UNCHANGED <<org, tpl>>

Update(form) ==
  /\ req.status = "DRAFT"
  /\ req' = [req EXCEPT !.form = form]
  /\ UNCHANGED <<org, tpl>>

Submit ==
  LET r == RefreshSlots(req, tpl)
  IN  /\ req.status = "DRAFT"
      /\ CanSubmit(r, tpl, org)
      /\ req' = Submitted(r, org)
      /\ UNCHANGED <<org, tpl>>

Cancel ==
  /\ CanCancel(req)
  /\ req' = Cancelled(req)
  /\ UNCHANGED <<org, tpl>>

\* Mutated form of Approve: the required attachments are not checked again.
ApproveUnchecked(i, me) ==
  /\ EnsureMyPending(req, i, me)
  /\ req' = Approved(req, org, i, me)
  /\ UNCHANGED <<org, tpl>>

Approve(i, me) ==
  /\ EnsureMyPending(req, i, me)
  /\ HasRequiredFiles(req, tpl)
  /\ req' = Approved(req, org, i, me)
  /\ UNCHANGED <<org, tpl>>

Reject(i, me) ==
  /\ EnsureMyPending(req, i, me)
  /\ req' = Rejected(req, i, me)
  /\ UNCHANGED <<org, tpl>>

Delegate(i, me, target) ==
  /\ Len(req.steps) < MaxSteps
  /\ EnsureMyPending(req, i, me)
  /\ CanDelegate(req, org, me, target)
  /\ req' = Delegated(req, i, me, target)
  /\ UNCHANGED <<org, tpl>>

Comment(me) ==
  /\ Len(req.history) < MaxHistory
  /\ CanComment(req, me)
  /\ req' = Commented(req, me)
  /\ UNCHANGED <<org, tpl>>

Upload(f, editor) ==
  /\ f \notin req.files
  /\ CanUpload(req, tpl, editor)
  /\ req' = [req EXCEPT !.files = @ \cup {f}]
  /\ UNCHANGED <<org, tpl>>

DeleteFile(f, editor) ==
  /\ f \in req.files
  /\ CanModifyFiles(req, editor)
  /\ req' = [req EXCEPT !.files = @ \ {f}]
  /\ UNCHANGED <<org, tpl>>

\* update_template: rules, attachment slots and is_active at once.
EditTemplate ==
  /\ \E t \in Templates \ {tpl} : tpl' = t
  /\ UNCHANGED <<org, req>>

\* Changes of managers, ranks, titles and of who is ACTIVE (developers.py).
Reorganise ==
  /\ \E o \in Orgs \ {org} : org' = o
  /\ UNCHANGED <<tpl, req>>

Next ==
  \/ \E f \in Forms, now \in BOOLEAN : Create(f, now)
  \/ \E f \in Forms : Update(f)
  \/ Submit
  \/ Cancel
  \/ \E me \in Devs, i \in DOMAIN req.steps :
       \/ Approve(i, me)
       \/ Reject(i, me)
       \/ \E target \in Devs : Delegate(i, me, target)
  \/ \E me \in Devs : Comment(me)
  \/ \E f \in FileIds, editor \in Editors : Upload(f, editor) \/ DeleteFile(f, editor)
  \/ EditTemplate
  \/ Reorganise

Spec == Init /\ [][Next]_vars
-----------------------------------------------------------------------------
Step == [no : Nat, approver : Devs, rule : Nat, index : Nat,
         status : StepStatuses, from : Nat]

HistoryEntry == [event : Events, actor : Devs, step : Nat, skipped : SUBSET Nat]

Request == [status : Statuses, form : Forms, rules : RulesOfTemplates,
            slots : [need : Nat, max : Nat] \cup {NoSlots},
            steps : Seq(Step), history : Seq(HistoryEntry), files : SUBSET FileIds]

TypeOK == org \in Orgs /\ tpl \in Templates /\ req \in Request

(***************************************************************************)
(* The shifting of step_no in delegate_step (approvals.py:1058-1061) keeps *)
(* the steps numbered 1 .. n, each number once.                            *)
(***************************************************************************)
StepsNumbered ==
  /\ \A i, j \in DOMAIN req.steps : req.steps[i].no = req.steps[j].no => i = j
  /\ \A i \in DOMAIN req.steps : req.steps[i].no \in 1 .. Len(req.steps)

(***************************************************************************)
(* Steps are decided in order (approvals.py:925-928): nothing before a     *)
(* step a person has decided is still pending, delegations included.       *)
(***************************************************************************)
DecidedInOrder ==
  \A i, j \in DOMAIN req.steps :
    (req.steps[i].no < req.steps[j].no /\ req.steps[j].status \in Decided)
      => req.steps[i].status # "PENDING"

(***************************************************************************)
(* The status of the request and those of its steps tell the same story:   *)
(* open means somebody's turn, closed means nobody's, approved means that  *)
(* the last word was an approval and nothing was rejected.                 *)
(***************************************************************************)
OutcomeMatchesSteps ==
  LET with(st) == {i \in DOMAIN req.steps : req.steps[i].status = st}
  IN  /\ req.status \in {"NONE", "DRAFT"} => req.steps = << >>
      /\ req.status \in Open <=> Pending(req.steps) # {}
      /\ req.status = "APPROVED" => with("APPROVED") # {}
      /\ req.status = "REJECTED" <=> with("REJECTED") # {}

(***************************************************************************)
(* A delegated step has exactly one successor, directly behind it however  *)
(* often later delegations shift the numbers, for the same requirement.    *)
(***************************************************************************)
DelegationSuccession ==
  /\ \A i \in DOMAIN req.steps :
       req.steps[i].status = "DELEGATED" <=>
         \E j \in DOMAIN req.steps : req.steps[j].from = i
  /\ \A i, j \in DOMAIN req.steps :
       req.steps[j].from = i =>
         /\ req.steps[j].no = req.steps[i].no + 1
         /\ req.steps[j].rule = req.steps[i].rule
         /\ req.steps[j].index = req.steps[i].index

\* Neither the rules nor any series of delegations makes the requester an
\* approver of his own request (approval_engine.py:190, approvals.py:1048).
NoSelfApproval == \A i \in DOMAIN req.steps : req.steps[i].approver # Requester

(***************************************************************************)
(* Whatever the chart, the template and the delegations have become, an    *)
(* open request has a step that its approver may act on (the inbox is not  *)
(* a dead end).                                                            *)
(***************************************************************************)
SomeoneCanAct ==
  req.status \in Open =>
    \E i \in DOMAIN req.steps : EnsureMyPending(req, i, req.steps[i].approver)

(***************************************************************************)
(* The audit trail accounts for every step: a decision has one entry, by   *)
(* the step's own approver; a skipped step was skipped by one approval, by *)
(* a rejection or by the cancellation.                                     *)
(***************************************************************************)
AuditTrail ==
  /\ \A i \in DOMAIN req.steps :
       LET mine == {h \in DOMAIN req.history : req.history[h].step = i}
           by   == {h \in DOMAIN req.history : i \in req.history[h].skipped}
       IN  /\ req.steps[i].status = "PENDING" => mine = {} /\ by = {}
           /\ req.steps[i].status \in Decided =>
                \E h \in mine : /\ mine = {h} /\ by = {}
                                /\ req.history[h].event = req.steps[i].status
                                /\ req.history[h].actor = req.steps[i].approver
           /\ req.steps[i].status = "SKIPPED" =>
                /\ mine = {}
                /\ Cardinality(by) <= 1
                /\ by = {} => req.status \in {"REJECTED", "CANCELLED"}

\* Approved with fewer attachments than the slot in force asked for.
ShortOfFiles(r) ==
  /\ r.status = "APPROVED" /\ r.slots # NoSlots
  /\ ~(Cardinality(r.files) >= r.slots.need)

(***************************************************************************)
(* A request is approved with the attachments it was required to have,     *)
(* whatever was uploaded, deleted or edited in the template between its    *)
(* submission and the last approval, and it loses one of them afterwards   *)
(* only when an ADMIN or HR deletes it (approvals.py:943, 1180-1187).      *)
(***************************************************************************)
ApprovedHasFiles ==
  [][ShortOfFiles(req') =>
       ShortOfFiles(req) \/ \E f \in FileIds : "admin" \in Editors /\ DeleteFile(f, "admin")]_vars
=============================================================================
