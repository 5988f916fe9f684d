------------------------- MODULE ApprovalSessions -------------------------
(***************************************************************************)
(* The handlers of approvals.py as they run: each one loads the request in *)
(* its own database session, decides on what it loaded, and commits.  The  *)
(* transactions are READ COMMITTED and no row is locked when it is read,   *)
(* so a commit writes the columns the handler changed and the rows it      *)
(* added, over whatever others have committed since.  A handler that fails *)
(* or whose process stops before the commit leaves no trace.               *)
(*                                                                         *)
(* One load is one step (the code's SELECTs for the row and its children   *)
(* run back to back), one commit is one step (row locks serialise the      *)
(* writes).  create_request inserts a row nobody knows yet: one step.      *)
(***************************************************************************)
EXTENDS ApprovalRequests

CONSTANTS Handlers,     \* requests the server handles at a time
          Orgs, Templates, Editors, MaxSteps, MaxHistory   \* as in ApprovalFlow

ASSUME SessionsAssumption ==
  /\ \A o \in Orgs : IsOrg(o)
  /\ \A t \in Templates : t.rules \in Seq(Rules)

VARIABLES org, tpl, req,
          session   \* what each handler is doing, Idle when nothing

vars == <<org, tpl, req, session>>

\* The rows themselves are the abstract state: what a session holds is not.
Flow == INSTANCE ApprovalFlow WITH org <- org, tpl <- tpl, req <- req

Idle == [op |-> "idle"]

Busy(op, me, step, arg) ==
  [op |-> op, me |-> me, step |-> step, arg |-> arg, snap |-> req]

Init == Flow!Init /\ session = [h \in Handlers |-> Idle]

(***************************************************************************)
(* Loading: the guards on the loaded request decide whether the handler    *)
(* goes on; one that answers 4xx changes nothing and is left out.          *)
(***************************************************************************)
Start(h, s) == /\ session[h] = Idle
               /\ session' = [session EXCEPT ![h] = s]
               /\ UNCHANGED <<org, tpl, req>>

LoadUpdate(h) == /\ req.status = "DRAFT"
                 /\ \E f \in Forms : Start(h, Busy("update", Requester, 0, f))

LoadSubmit(h) == req.status = "DRAFT" /\ Start(h, Busy("submit", Requester, 0, NoDev))

LoadCancel(h) == CanCancel(req) /\ Start(h, Busy("cancel", Requester, 0, NoDev))

LoadDecision(h) ==
  \E me \in Devs, i \in DOMAIN req.steps :
    /\ EnsureMyPending(req, i, me)
    /\ \/ HasRequiredFiles(req, tpl) /\ Start(h, Busy("approve", me, i, NoDev))
       \/ Start(h, Busy("reject", me, i, NoDev))
       \/ /\ Len(req.steps) < MaxSteps
          /\ \E target \in Devs \ {me, Requester} :
               Start(h, Busy("delegate", me, i, target))

LoadComment(h) ==
  /\ Len(req.history) < MaxHistory
  /\ \E me \in Devs : CanComment(req, me) /\ Start(h, Busy("comment", me, 0, NoDev))

LoadUpload(h) ==
  \E f \in FileIds \ req.files, editor \in Editors :
    /\ \A g \in Handlers : session[g].op = "upload" => session[g].arg # f
    /\ CanUpload(req, tpl, editor)
    /\ Start(h, Busy("upload", Requester, 0, f))

LoadDeleteFile(h) ==
  \E f \in req.files, editor \in Editors :
    /\ CanModifyFiles(req, editor)
    /\ Start(h, Busy("deletefile", Requester, 0, f))

(***************************************************************************)
(* What the handler makes of the request it loaded, and whether what it    *)
(* reads after the load lets it get to its commit.                         *)
(***************************************************************************)
\* Mutated form of MayCommit: the delegate may have left.
MayCommitInactive(s) ==
  s.op = "submit" => CanSubmit(RefreshSlots(s.snap, tpl), tpl, org)

MayCommit(s) ==
  /\ s.op = "submit" => CanSubmit(RefreshSlots(s.snap, tpl), tpl, org)
  /\ s.op = "delegate" => s.arg \in org.active

Outcome(s) ==
  CASE s.op = "update"     -> [s.snap EXCEPT !.form = s.arg]
    [] s.op = "submit"     -> Submitted(RefreshSlots(s.snap, tpl), org)
    [] s.op = "cancel"     -> Cancelled(s.snap)
    [] s.op = "approve"    -> Approved(s.snap, org, s.step, s.me)
    [] s.op = "reject"     -> Rejected(s.snap, s.step, s.me)
    [] s.op = "delegate"   -> Delegated(s.snap, s.step, s.me, s.arg)
    [] s.op = "comment"    -> Commented(s.snap, s.me)
    [] s.op = "upload"     -> [s.snap EXCEPT !.files = @ \cup {s.arg}]
    [] s.op = "deletefile" -> [s.snap EXCEPT !.files = @ \ {s.arg}]

(***************************************************************************)
(* The UPDATEs and INSERTs of a commit: the unit of work writes a column   *)
(* only where the session changed it, and appends the rows it added.       *)
(***************************************************************************)
\* Mutated form of Written: every column is written, changed or not.
WrittenAlways(old, new, now) == new

Written(old, new, now) == IF new # old THEN new ELSE now

WrittenRow(old, new, now) ==
  [now EXCEPT !.no = Written(old.no, new.no, @),
              !.status = Written(old.status, new.status, @)]

Added(old, new) == SubSeq(new, Len(old) + 1, Len(new))

\* Mutated form of Merge: the history is one column instead of rows of its own.
MergeHistoryColumn(old, new, now) ==
  [status  |-> Written(old.status, new.status, now.status),
   form    |-> Written(old.form, new.form, now.form),
   rules   |-> now.rules,
   slots   |-> Written(old.slots, new.slots, now.slots),
   steps   |-> [j \in DOMAIN now.steps |->
                  IF j \in DOMAIN old.steps
                  THEN WrittenRow(old.steps[j], new.steps[j], now.steps[j])
                  ELSE now.steps[j]] \o Added(old.steps, new.steps),
   history |-> Written(old.history, new.history, now.history),
   files   |-> (now.files \ (old.files \ new.files)) \cup (new.files \ old.files)]

Merge(old, new, now) ==
  [status  |-> Written(old.status, new.status, now.status),
   form    |-> Written(old.form, new.form, now.form),
   rules   |-> now.rules,
   slots   |-> Written(old.slots, new.slots, now.slots),
   steps   |-> [j \in DOMAIN now.steps |->
                  IF j \in DOMAIN old.steps
                  THEN WrittenRow(old.steps[j], new.steps[j], now.steps[j])
                  ELSE now.steps[j]] \o Added(old.steps, new.steps),
   history |-> now.history \o Added(old.history, new.history),
   files   |-> (now.files \ (old.files \ new.files)) \cup (new.files \ old.files)]

Commit(h) ==
  LET s == session[h]
  IN  /\ s # Idle
      /\ MayCommit(s)
      /\ req' = Merge(s.snap, Outcome(s), req)
      /\ session' = [session EXCEPT ![h] = Idle]
      /\ UNCHANGED <<org, tpl>>

\* An error after the load, a lost connection, a restart of the server.
Abort(h) ==
  /\ session[h] # Idle
  /\ session' = [session EXCEPT ![h] = Idle]
  /\ UNCHANGED <<org, tpl, req>>

Create ==
  /\ \E f \in Forms, now \in BOOLEAN : Flow!Create(f, now)
  /\ UNCHANGED session

EditTemplate == Flow!EditTemplate /\ UNCHANGED session

Reorganise == Flow!Reorganise /\ UNCHANGED session

Next ==
  \/ Create
  \/ \E h \in Handlers :
       \/ LoadUpdate(h) \/ LoadSubmit(h) \/ LoadCancel(h) \/ LoadDecision(h)
       \/ LoadComment(h) \/ LoadUpload(h) \/ LoadDeleteFile(h)
       \/ Commit(h) \/ Abort(h)
  \/ EditTemplate
  \/ Reorganise

Spec == Init /\ [][Next]_vars
-----------------------------------------------------------------------------
TypeOK == /\ Flow!TypeOK
          /\ \A h \in Handlers : session[h] = Idle \/ session[h].snap \in Flow!Request

(***************************************************************************)
(* One handler at a time, loads and commits apart: the workflow is the one *)
(* of ApprovalFlow, edits of the template and the chart between a load and *)
(* its commit included.  (Only when no edit gives the template attachment  *)
(* slots or takes them away: a request created without slots reads those   *)
(* of the template at its load, and again at its next one.)                *)
(***************************************************************************)
ImplementsFlow == Flow!Spec

(***************************************************************************)
(* Whatever overlaps, nobody decides for somebody else, and a decided step *)
(* can be traced to an entry of its own approver.                          *)
(***************************************************************************)
DecisionsAreTraceable ==
  /\ \A h \in DOMAIN req.history :
       req.history[h].event \in Decided =>
         req.steps[req.history[h].step].approver = req.history[h].actor
  /\ \A i \in DOMAIN req.steps :
       req.steps[i].status \in Decided =>
         \E h \in DOMAIN req.history : /\ req.history[h].step = i
                                       /\ req.history[h].event = req.steps[i].status

(***************************************************************************)
(* An open request waits for somebody.  Two approvals that overlap can     *)
(* leave it open with nothing pending, so that nobody can decide it any    *)
(* more and its requester can only cancel it: each sees the other's step   *)
(* still pending (approvals.py:962).  They must both be due, with one step *)
(* number, and that takes an earlier lost race, in which a step was        *)
(* decided twice or the request submitted twice (approvals.py:508, 921,    *)
(* 1055).                                                                  *)
(***************************************************************************)
Twice(events, step) ==
  \E g, h \in DOMAIN req.history :
    /\ g # h
    /\ \A k \in {g, h} : req.history[k].event \in events /\ req.history[k].step = step

StuckOnlyAfterRace ==
  (req.status \in Open /\ Pending(req.steps) = {}) =>
    Twice({"SUBMITTED"}, 0) \/ \E i \in DOMAIN req.steps : Twice(Decided, i)

(***************************************************************************)
(* A lost race may overwrite a decision by another one, but never puts a   *)
(* step back on somebody's desk, removes a row or changes whose it is.     *)
(***************************************************************************)
NeverReopened ==
  [][\A i \in DOMAIN req.steps :
       /\ i \in DOMAIN req'.steps
       /\ req'.steps[i].approver = req.steps[i].approver
       /\ req.steps[i].status # "PENDING" => req'.steps[i].status # "PENDING"]_vars

(***************************************************************************)
(* The check of max_count is made on what was loaded (approvals.py:1222):  *)
(* overlapping uploads exceed it by at most one file per other handler.    *)
(***************************************************************************)
OvershootBounded ==
  LET slot == SlotsInForce(req, tpl)
  IN  slot # NoSlots => Cardinality(req.files) <= slot.max + Cardinality(Handlers) - 1

\* "Does the next step exist, wait; if not, close" (approvals.py:962).
ApprovedMeansDone == req.status = "APPROVED" => Pending(req.steps) = {}

\* "The request is closed already" (approvals.py:546).
ClosedIsFinal == [][req.status \in Closed => req'.status = req.status]_vars
=============================================================================
