------------------------ MODULE ApprovalFlowProofs ------------------------
(***************************************************************************)
(* The order of decisions, the outcome, the history and the attachments of *)
(* an approval request, proved for every set of employees, charts,         *)
(* templates and bounds.                                                   *)
(***************************************************************************)
EXTENDS ApprovalFlow, ApprovalRulesProofs, FiniteSetTheorems

IInv == /\ TypeOK
        /\ StepsNumbered
        /\ DecidedInOrder
        /\ OutcomeMatchesSteps
        /\ NoSelfApproval

\* Appending to the history is all that Log does.
LEMMA LogType ==
  ASSUME NEW r \in Request, NEW e \in Events, NEW d \in Devs, NEW i \in Nat,
         NEW sk \in SUBSET Nat
  PROVE  /\ Log(r, e, d, i, sk) \in Request
         /\ Log(r, e, d, i, sk).steps = r.steps
         /\ Log(r, e, d, i, sk).status = r.status
         /\ Log(r, e, d, i, sk).slots = r.slots
         /\ Log(r, e, d, i, sk).files = r.files
         /\ Log(r, e, d, i, sk).history = Append(r.history, Entry(e, d, i, sk))
<1>1. Entry(e, d, i, sk) \in HistoryEntry
  BY DEF Entry, HistoryEntry
<1>2. Append(r.history, Entry(e, d, i, sk)) \in Seq(HistoryEntry)
  BY <1>1 DEF Request
<1> QED
  BY <1>2 DEF Log, Request

\* What a submission makes of a request without steps.
LEMMA SubmittedSteps ==
  ASSUME NEW r \in Request, r.steps = << >>, NEW o \in Orgs, Chain(r, o) # << >>
  PROVE  /\ Submitted(r, o) \in Request
         /\ Submitted(r, o).status = "IN_PROGRESS"
         /\ Len(Submitted(r, o).steps) # 0
         /\ \A i \in DOMAIN Submitted(r, o).steps :
              /\ Submitted(r, o).steps[i].no = i
              /\ Submitted(r, o).steps[i].status = "PENDING"
              /\ Submitted(r, o).steps[i].approver # Requester
              /\ Submitted(r, o).steps[i].from = 0
         /\ Submitted(r, o).history = Append(r.history, Entry("SUBMITTED", Requester, 0, {}))
<1> DEFINE c == Chain(r, o)
           new == [i \in 1 .. Len(c) |-> NewStep(c[i])]
           q == [r EXCEPT !.steps = @ \o new, !.status = "IN_PROGRESS"]
<1>1. IsChain(c)
  <2>1. r.rules \in Seq(Rules) /\ IsOrg(o)
    BY FlowAssumption DEF Request
  <2> QED
    BY <2>1, EvaluatedIsChain DEF Chain
<1>2. /\ c \in Seq(ChainSteps)
      /\ Len(c) \in Nat
      /\ \A i \in 1 .. Len(c) : c[i] \in ChainSteps
      /\ \A i \in 1 .. Len(c) : c[i].no = i /\ c[i].approver # Requester
  <2> HIDE DEF c
  <2> QED
    BY <1>1 DEF IsChain
<1>3. \A i \in 1 .. Len(c) : NewStep(c[i]) \in Step
  BY <1>2 DEF NewStep, Step, StepStatuses, ChainSteps
<1>4. new \in Seq(Step) /\ Len(new) = Len(c)
  BY <1>2, <1>3
<1>5. r.steps \o new = new
  BY <1>4
<1>6. /\ q \in Request /\ q.steps = new /\ q.status = "IN_PROGRESS"
      /\ q.history = r.history
  BY <1>4, <1>5 DEF Request, Statuses, Open
<1>7. Submitted(r, o) = Log(q, "SUBMITTED", Requester, 0, {})
  BY DEF Submitted
<1>8. /\ Submitted(r, o) \in Request
      /\ Submitted(r, o).steps = new
      /\ Submitted(r, o).status = "IN_PROGRESS"
      /\ Submitted(r, o).history = Append(r.history, Entry("SUBMITTED", Requester, 0, {}))
  <2>1. "SUBMITTED" \in Events /\ Requester \in Devs /\ 0 \in Nat /\ {} \in SUBSET Nat
    BY DevAssumption DEF Events
  <2> HIDE DEF q, new
  <2> QED
    BY <1>6, <1>7, <2>1, LogType
<1>9. Len(c) # 0
  BY <1>2
<1>10. \A i \in 1 .. Len(c) : /\ new[i].no = i
                              /\ new[i].status = "PENDING"
                              /\ new[i].approver # Requester
                              /\ new[i].from = 0
  BY <1>2 DEF NewStep
<1> QED
  BY <1>4, <1>8, <1>9, <1>10

\* SetStatus changes the status of the given steps and nothing else.
LEMMA SetStatusSteps ==
  ASSUME NEW s \in Seq(Step), NEW ids, NEW v \in StepStatuses
  PROVE  /\ SetStatus(s, ids, v) \in Seq(Step)
         /\ Len(SetStatus(s, ids, v)) = Len(s)
         /\ DOMAIN SetStatus(s, ids, v) = DOMAIN s
         /\ \A j \in DOMAIN s :
              /\ SetStatus(s, ids, v)[j].no = s[j].no
              /\ SetStatus(s, ids, v)[j].approver = s[j].approver
              /\ SetStatus(s, ids, v)[j].status = IF j \in ids THEN v ELSE s[j].status
<1> DEFINE t == [j \in 1 .. Len(s) |->
                   IF j \in ids THEN [s[j] EXCEPT !.status = v] ELSE s[j]]
<1>1. SetStatus(s, ids, v) = t
  BY DEF SetStatus
<1>2. \A j \in 1 .. Len(s) : s[j] \in Step
  <2> HIDE DEF t
  <2> DEFINE T == Step
  <2>1. s \in Seq(T)
    OBVIOUS
  <2> HIDE DEF T
  <2> QED
    BY <2>1 DEF T
<1>3. \A j \in 1 .. Len(s) : /\ t[j] \in Step
                             /\ t[j].no = s[j].no
                             /\ t[j].approver = s[j].approver
                             /\ t[j].status = IF j \in ids THEN v ELSE s[j].status
  BY <1>2 DEF Step
<1>4. t \in Seq(Step) /\ Len(t) = Len(s) /\ DOMAIN t = DOMAIN s
  BY <1>3
<1> QED
  BY <1>1, <1>3, <1>4

\* The steps of a typed request, as the proofs below use them.
LEMMA StepTypes ==
  ASSUME TypeOK
  PROVE  /\ req.steps \in Seq(Step)
         /\ Len(req.steps) \in Nat
         /\ DOMAIN req.steps = 1 .. Len(req.steps)
         /\ \A i \in DOMAIN req.steps :
              /\ req.steps[i] \in Step
              /\ req.steps[i].no \in Nat
              /\ req.steps[i].status \in StepStatuses
<1>1. req.steps \in Seq(Step)
  BY DEF TypeOK, Request
<1> DEFINE T == Step
<1>2. \A i \in DOMAIN req.steps : req.steps[i] \in T
  <2>1. req.steps \in Seq(T)
    BY <1>1
  <2> HIDE DEF T
  <2> QED
    BY <2>1
<1> QED
  BY <1>1, <1>2, SMTT(30) DEF Step

\* An action that leaves the steps and the status alone and keeps the type.
LEMMA SameSteps ==
  ASSUME IInv, TypeOK', req'.steps = req.steps, req'.status = req.status
  PROVE  IInv'
BY DEF IInv, StepsNumbered, DecidedInOrder, OutcomeMatchesSteps, NoSelfApproval, Pending

\* Submission of a request that has no steps yet.
LEMMA SubmitKeepsIInv ==
  ASSUME IInv, NEW r \in Request, r.steps = << >>, Chain(r, org) # << >>,
         req' = Submitted(r, org), UNCHANGED <<org, tpl>>
  PROVE  IInv'
<1>1. /\ req' \in Request
      /\ req'.status = "IN_PROGRESS"
      /\ Len(req'.steps) # 0
      /\ \A i \in DOMAIN req'.steps : /\ req'.steps[i].no = i
                                      /\ req'.steps[i].status = "PENDING"
                                      /\ req'.steps[i].approver # Requester
  BY SubmittedSteps DEF IInv, TypeOK
<1>2. TypeOK'
  BY <1>1 DEF IInv, TypeOK
<1>3. DOMAIN req'.steps = 1 .. Len(req'.steps) /\ Len(req'.steps) \in Nat
  BY <1>1 DEF Request
<1>4. StepsNumbered'
  BY <1>1, <1>3 DEF StepsNumbered
<1>5. DecidedInOrder'
  BY <1>1 DEF DecidedInOrder, Decided
<1>6. OutcomeMatchesSteps'
  <2>1. 1 \in Pending(req'.steps)
    BY <1>1, <1>3 DEF Pending
  <2> QED
    BY <1>1, <2>1 DEF OutcomeMatchesSteps, Open
<1>7. NoSelfApproval'
  BY <1>1 DEF NoSelfApproval
<1> QED
  BY <1>2, <1>4, <1>5, <1>6, <1>7 DEF IInv

LEMMA CancelKeepsIInv ==
  ASSUME IInv, Cancel
  PROVE  IInv'
<1> DEFINE s == req.steps
           t == SetStatus(s, Pending(s), "SKIPPED")
           q == [req EXCEPT !.status = "CANCELLED", !.steps = t]
<1>1. /\ s \in Seq(Step)
      /\ \A i \in DOMAIN s : s[i].no \in Nat /\ s[i].status \in StepStatuses
  BY StepTypes DEF IInv
<1>2. /\ t \in Seq(Step) /\ Len(t) = Len(s) /\ DOMAIN t = DOMAIN s
      /\ \A j \in DOMAIN s : /\ t[j].no = s[j].no
                             /\ t[j].approver = s[j].approver
                             /\ t[j].status = IF j \in Pending(s) THEN "SKIPPED"
                                             ELSE s[j].status
  BY <1>1, SetStatusSteps DEF StepStatuses
<1>3. q \in Request /\ q.steps = t /\ q.status = "CANCELLED"
  BY <1>2 DEF IInv, TypeOK, Request, Statuses, Closed
<1>4. req' \in Request /\ req'.steps = t /\ req'.status = "CANCELLED"
  <2>1. req' = Log(q, "CANCELLED", Requester, 0, {})
    BY DEF Cancel, Cancelled
  <2>2. "CANCELLED" \in Events /\ Requester \in Devs /\ 0 \in Nat /\ {} \in SUBSET Nat
    BY DevAssumption DEF Events
  <2> HIDE DEF q, t
  <2> QED
    BY <1>3, <2>1, <2>2, LogType
<1> HIDE DEF t, q
<1>5. TypeOK'
  BY <1>4 DEF IInv, TypeOK, Cancel
<1>6. \A j \in DOMAIN t : t[j].status # "PENDING"
  BY <1>2 DEF Pending
<1>7. StepsNumbered' /\ NoSelfApproval'
  BY <1>2, <1>4 DEF IInv, StepsNumbered, NoSelfApproval
<1>8. DecidedInOrder'
  BY <1>4, <1>6 DEF DecidedInOrder
<1>9. OutcomeMatchesSteps'
  <2>1. \A j \in DOMAIN s : s[j].status # "REJECTED"
    BY DEF IInv, OutcomeMatchesSteps, Cancel, CanCancel, Open
  <2>2. \A j \in DOMAIN t : t[j].status # "REJECTED"
    BY <1>2, <2>1
  <2> QED
    BY <1>4, <1>6, <2>2 DEF OutcomeMatchesSteps, Pending, Open
<1> QED
  BY <1>5, <1>7, <1>8, <1>9 DEF IInv

(***************************************************************************)
(* A decision is taken on the first pending step of an open request.       *)
(***************************************************************************)
LEMMA FirstPending ==
  ASSUME IInv, NEW i, NEW me, EnsureMyPending(req, i, me)
  PROVE  /\ i \in DOMAIN req.steps
         /\ req.status \in Open
         /\ req.steps[i].status = "PENDING"
         /\ \A j \in DOMAIN req.steps :
              /\ req.steps[j].no < req.steps[i].no => req.steps[j].status # "PENDING"
              /\ req.steps[j].no > req.steps[i].no => req.steps[j].status \notin Decided
              /\ req.steps[j].status # "REJECTED"
         /\ me \in Devs
<1>1. /\ i \in DOMAIN req.steps
      /\ req.status \in Open
      /\ req.steps[i].status = "PENDING"
      /\ req.steps[i].approver = me
      /\ EarlierPending(req, i) = {}
  BY DEF EnsureMyPending
<1>2. \A j \in DOMAIN req.steps :
        req.steps[j].no < req.steps[i].no => req.steps[j].status # "PENDING"
  BY <1>1 DEF EarlierPending
<1>3. \A j \in DOMAIN req.steps :
        req.steps[i].no < req.steps[j].no => req.steps[j].status \notin Decided
  BY <1>1 DEF IInv, DecidedInOrder
<1>4. \A j \in DOMAIN req.steps : req.steps[j].no > req.steps[i].no
                                  => req.steps[i].no < req.steps[j].no
  BY <1>1, StepTypes DEF IInv
<1>5. \A j \in DOMAIN req.steps : req.steps[j].status # "REJECTED"
  BY <1>1 DEF IInv, OutcomeMatchesSteps, Open
<1>6. me \in Devs
  BY <1>1, StepTypes DEF IInv, Step
<1> QED
  BY <1>1, <1>2, <1>3, <1>4, <1>5, <1>6

LEMMA ApproveKeepsIInv ==
  ASSUME IInv, NEW i, NEW me, Approve(i, me)
  PROVE  IInv'
<1> DEFINE s == req.steps
           sk == AutoSkipped(req, org, i)
           a == SetStatus(s, {i}, "APPROVED")
           t == SetStatus(a, sk, "SKIPPED")
           st == IF Pending(t) = {} THEN "APPROVED" ELSE req.status
           q == [req EXCEPT !.steps = t, !.status = st]
<1>1. /\ s \in Seq(Step) /\ Len(s) \in Nat /\ DOMAIN s = 1 .. Len(s)
      /\ \A j \in DOMAIN s : s[j].no \in Nat /\ s[j].status \in StepStatuses
  BY StepTypes DEF IInv
<1>2. /\ i \in DOMAIN s /\ req.status \in Open /\ s[i].status = "PENDING" /\ me \in Devs
      /\ \A j \in DOMAIN s :
           /\ s[j].no < s[i].no => s[j].status # "PENDING"
           /\ s[j].status # "REJECTED"
  BY FirstPending DEF Approve
<1>3. sk \subseteq DOMAIN s /\ i \notin sk
  BY <1>1, <1>2 DEF AutoSkipped
<1>4. /\ a \in Seq(Step) /\ Len(a) = Len(s) /\ DOMAIN a = DOMAIN s
      /\ \A j \in DOMAIN s :
           /\ a[j].no = s[j].no /\ a[j].approver = s[j].approver
           /\ a[j].status = IF j \in {i} THEN "APPROVED" ELSE s[j].status
  <2>1. "APPROVED" \in StepStatuses
    BY DEF StepStatuses, Decided
  <2> HIDE DEF s
  <2> QED
    BY <1>1, <2>1, SetStatusSteps
<1>5. /\ t \in Seq(Step) /\ Len(t) = Len(s) /\ DOMAIN t = DOMAIN s
      /\ \A j \in DOMAIN s :
           /\ t[j].no = s[j].no /\ t[j].approver = s[j].approver
           /\ t[j].status = IF j \in sk THEN "SKIPPED"
                           ELSE IF j = i THEN "APPROVED" ELSE s[j].status
  <2>1. "SKIPPED" \in StepStatuses
    BY DEF StepStatuses
  <2> HIDE DEF s, a, sk
  <2> QED
    BY <1>4, <2>1, SetStatusSteps
<1>6. st \in Statuses /\ (st = "APPROVED" \/ st \in Open)
  BY <1>2 DEF Statuses, Closed, Open
<1>7. q \in Request /\ q.steps = t /\ q.status = st
  <2> HIDE DEF t, st
  <2> QED
    BY <1>5, <1>6 DEF IInv, TypeOK, Request
<1>8. req' \in Request /\ req'.steps = t /\ req'.status = st
  <2>1. req' = Log(q, "APPROVED", me, i, sk)
    BY DEF Approve, Approved
  <2>2. "APPROVED" \in Events /\ i \in Nat /\ sk \in SUBSET Nat
    BY <1>1, <1>2, <1>3 DEF Events, Decided
  <2> HIDE DEF q, t, st, sk
  <2> QED
    BY <1>2, <1>7, <2>1, <2>2, LogType
<1> HIDE DEF a, t, q, sk
<1>9. TypeOK'
  BY <1>8 DEF IInv, TypeOK, Approve
<1>10. StepsNumbered' /\ NoSelfApproval'
  BY <1>5, <1>8 DEF IInv, StepsNumbered, NoSelfApproval
<1>11. DecidedInOrder'
  <2> SUFFICES ASSUME NEW j \in DOMAIN t, NEW k \in DOMAIN t,
                      t[j].no < t[k].no, t[k].status \in Decided
               PROVE  t[j].status # "PENDING"
    BY <1>8 DEF DecidedInOrder
  <2>1. s[j].no < s[k].no
    BY <1>5
  <2>2. s[j].status # "PENDING"
    <3>1. CASE k = i
      BY <1>2, <1>5, <2>1, <3>1
    <3>2. CASE k # i
      <4>1. s[k].status \in Decided
        BY <1>5, <3>2 DEF Decided
      <4> QED
        BY <1>5, <2>1, <4>1 DEF IInv, DecidedInOrder
    <3> QED
      BY <3>1, <3>2
  <2> QED
    BY <1>5, <2>2
<1>12. OutcomeMatchesSteps'
  <2>1. \A j \in DOMAIN t : t[j].status # "REJECTED"
    BY <1>2, <1>5
  <2>2. t[i].status = "APPROVED" /\ i \in DOMAIN t
    BY <1>2, <1>3, <1>5
  <2>3. st \in Open <=> Pending(t) # {}
    BY <1>2 DEF Open
  <2>4. st \notin {"NONE", "DRAFT", "REJECTED"}
    BY <1>6 DEF Open
  <2> HIDE DEF st
  <2> QED
    BY <1>8, <2>1, <2>2, <2>3, <2>4 DEF OutcomeMatchesSteps
<1> QED
  BY <1>9, <1>10, <1>11, <1>12 DEF IInv

LEMMA RejectKeepsIInv ==
  ASSUME IInv, NEW i, NEW me, Reject(i, me)
  PROVE  IInv'
<1> DEFINE s == req.steps
           later == {j \in Pending(s) : s[j].no > s[i].no}
           a == SetStatus(s, {i}, "REJECTED")
           t == SetStatus(a, later, "SKIPPED")
           q == [req EXCEPT !.steps = t, !.status = "REJECTED"]
<1>1. /\ s \in Seq(Step) /\ Len(s) \in Nat /\ DOMAIN s = 1 .. Len(s)
      /\ \A j \in DOMAIN s : s[j].no \in Nat /\ s[j].status \in StepStatuses
  BY StepTypes DEF IInv
<1>2. /\ i \in DOMAIN s /\ s[i].status = "PENDING" /\ me \in Devs
      /\ \A j \in DOMAIN s : s[j].no < s[i].no => s[j].status # "PENDING"
  BY FirstPending DEF Reject
<1>3. i \notin later
  BY <1>1, <1>2
<1>4. /\ a \in Seq(Step) /\ Len(a) = Len(s) /\ DOMAIN a = DOMAIN s
      /\ \A j \in DOMAIN s :
           /\ a[j].no = s[j].no /\ a[j].approver = s[j].approver
           /\ a[j].status = IF j \in {i} THEN "REJECTED" ELSE s[j].status
  <2>1. "REJECTED" \in StepStatuses
    BY DEF StepStatuses, Decided
  <2> HIDE DEF s
  <2> QED
    BY <1>1, <2>1, SetStatusSteps
<1>5. /\ t \in Seq(Step) /\ Len(t) = Len(s) /\ DOMAIN t = DOMAIN s
      /\ \A j \in DOMAIN s :
           /\ t[j].no = s[j].no /\ t[j].approver = s[j].approver
           /\ t[j].status = IF j \in later THEN "SKIPPED"
                           ELSE IF j = i THEN "REJECTED" ELSE s[j].status
  <2>1. "SKIPPED" \in StepStatuses
    BY DEF StepStatuses
  <2> HIDE DEF s, a, later
  <2> QED
    BY <1>4, <2>1, SetStatusSteps
<1>6. q \in Request /\ q.steps = t /\ q.status = "REJECTED"
  <2> HIDE DEF t
  <2> QED
    BY <1>5 DEF IInv, TypeOK, Request, Statuses, Closed
<1>7. req' \in Request /\ req'.steps = t /\ req'.status = "REJECTED"
  <2>1. req' = Log(q, "REJECTED", me, i, {})
    BY DEF Reject, Rejected
  <2>2. "REJECTED" \in Events /\ i \in Nat /\ {} \in SUBSET Nat
    BY <1>1, <1>2 DEF Events, Decided
  <2> HIDE DEF q, t
  <2> QED
    BY <1>2, <1>6, <2>1, <2>2, LogType
<1>8. \A j \in DOMAIN s : s[j].status = "PENDING" => j = i \/ j \in later
  BY <1>1, <1>2 DEF IInv, StepsNumbered, Pending
<1> HIDE DEF a, t, q, later
<1>9. TypeOK'
  BY <1>7 DEF IInv, TypeOK, Reject
<1>10. StepsNumbered' /\ NoSelfApproval'
  BY <1>5, <1>7 DEF IInv, StepsNumbered, NoSelfApproval
<1>11. \A j \in DOMAIN t : t[j].status # "PENDING"
  BY <1>5, <1>8
<1>12. DecidedInOrder'
  BY <1>7, <1>11 DEF DecidedInOrder
<1>13. OutcomeMatchesSteps'
  <2>1. i \in DOMAIN t /\ t[i].status = "REJECTED"
    BY <1>2, <1>3, <1>5
  <2> QED
    BY <1>7, <1>11, <2>1 DEF OutcomeMatchesSteps, Pending, Open
<1> QED
  BY <1>9, <1>10, <1>12, <1>13 DEF IInv

\* Where delegation at position p moves number a.
Shifted(a, p) == IF a >= p + 1 THEN a + 1 ELSE a

LEMMA ShiftedFacts ==
  ASSUME NEW a \in Nat, NEW b \in Nat, NEW p \in Nat, NEW n \in Nat, p <= n
  PROVE  /\ Shifted(a, p) \in Nat
         /\ Shifted(a, p) # p + 1
         /\ Shifted(a, p) = Shifted(b, p) => a = b
         /\ (1 <= a /\ a <= n) => (1 <= Shifted(a, p) /\ Shifted(a, p) <= n + 1)
         /\ (b <= p /\ Shifted(a, p) < Shifted(b, p)) => a < p
         /\ b <= p => ~(p + 1 < Shifted(b, p))
BY DEF Shifted

(***************************************************************************)
(* The arithmetic of delegation: when every number above old[i] moves up   *)
(* by one and the number that falls free goes to a new entry, the numbers  *)
(* are again 1 .. n+1, each once, and what precedes an entry not behind i  *)
(* preceded i before.                                                      *)
(***************************************************************************)
LEMMA ShiftNumbers ==
  ASSUME NEW n \in Nat, NEW i \in 1 .. n, NEW old, NEW new,
         \A x \in 1 .. n : old[x] \in 1 .. n,
         \A x, y \in 1 .. n : old[x] = old[y] => x = y,
         \A x \in 1 .. n : new[x] = Shifted(old[x], old[i]),
         new[n + 1] = old[i] + 1
  PROVE  /\ \A x \in 1 .. n + 1 : new[x] \in 1 .. n + 1
         /\ \A x, y \in 1 .. n + 1 : new[x] = new[y] => x = y
         /\ \A x \in 1 .. n + 1, y \in 1 .. n :
              (old[y] <= old[i] /\ new[x] < new[y]) => x \in 1 .. n /\ old[x] < old[i]
<1> DEFINE p == old[i]
<1>1. p \in Nat /\ 1 <= p /\ p <= n
  <2>1. p \in 1 .. n
    OBVIOUS
  <2> QED
    BY <2>1
<1>2. ASSUME NEW x \in 1 .. n
      PROVE  old[x] \in Nat /\ 1 <= old[x] /\ old[x] <= n
  <2>1. old[x] \in 1 .. n
    OBVIOUS
  <2> QED
    BY <2>1
<1>3. \A x \in 1 .. n + 1 : x \in 1 .. n \/ x = n + 1
  OBVIOUS
<1>4. /\ \A x \in 1 .. n : new[x] = Shifted(old[x], p)
      /\ new[n + 1] = p + 1
  OBVIOUS
<1> HIDE DEF p
<1>5. ASSUME NEW x \in 1 .. n + 1
      PROVE  new[x] \in 1 .. n + 1
  <2>1. CASE x = n + 1
    BY <1>1, <1>4, <2>1
  <2>2. CASE x \in 1 .. n
    <3>1. /\ Shifted(old[x], p) \in Nat
          /\ 1 <= Shifted(old[x], p) /\ Shifted(old[x], p) <= n + 1
      BY <1>1, <1>2, <2>2, ShiftedFacts
    <3> QED
      BY <1>4, <2>2, <3>1
  <2> QED
    BY <1>3, <2>1, <2>2
<1>6. ASSUME NEW x \in 1 .. n, NEW y \in 1 .. n, new[x] = new[y]
      PROVE  x = y
  <2>1. old[x] = old[y]
    BY <1>1, <1>2, <1>4, <1>6, ShiftedFacts, SMTT(30)
  <2> QED
    BY <2>1
<1>7. ASSUME NEW x \in 1 .. n
      PROVE  new[x] # new[n + 1]
  BY <1>1, <1>2, <1>4, ShiftedFacts, SMTT(30)
<1>8. \A x, y \in 1 .. n + 1 : new[x] = new[y] => x = y
  BY <1>3, <1>6, <1>7
<1>9. ASSUME NEW x \in 1 .. n + 1, NEW y \in 1 .. n, old[y] <= p, new[x] < new[y]
      PROVE  x \in 1 .. n /\ old[x] < p
  <2>1. new[y] = Shifted(old[y], p)
    BY <1>4
  <2>2. ~(p + 1 < Shifted(old[y], p))
    BY <1>1, <1>2, <1>9, ShiftedFacts
  <2>5. x # n + 1
    BY <1>4, <1>9, <2>1, <2>2
  <2>3. x \in 1 .. n
    BY <1>3, <2>5
  <2>4. new[x] = Shifted(old[x], p)
    BY <1>4, <2>3
  <2> QED
    BY <1>1, <1>2, <1>9, <2>1, <2>3, <2>4, ShiftedFacts
<1> QED
  BY <1>5, <1>8, <1>9 DEF p

\* Columns of a step row that only its insertion writes.
SameRow(a, b) == /\ a.approver = b.approver /\ a.rule = b.rule
                 /\ a.index = b.index /\ a.from = b.from

\* What a delegation makes of the rows: the step is closed, those behind it move
\* up, and the copy for the delegate takes the free place.
LEMMA DelegateEffect ==
  ASSUME IInv, NEW i, NEW me, NEW target \in Devs, Delegate(i, me, target)
  PROVE  /\ req' \in Request /\ req'.status = req.status
         /\ req'.history = Append(req.history, Entry("DELEGATED", me, i, {}))
         /\ Len(req.steps) \in Nat /\ i \in 1 .. Len(req.steps)
         /\ DOMAIN req.steps = 1 .. Len(req.steps)
         /\ Len(req'.steps) = Len(req.steps) + 1
         /\ DOMAIN req'.steps = 1 .. Len(req.steps) + 1
         /\ \A j \in 1 .. Len(req.steps) :
              /\ SameRow(req'.steps[j], req.steps[j])
              /\ req'.steps[j].status = IF j = i THEN "DELEGATED" ELSE req.steps[j].status
              /\ req'.steps[j].no = IF j # i /\ req.steps[j].no >= req.steps[i].no + 1
                                    THEN req.steps[j].no + 1 ELSE req.steps[j].no
         /\ req'.steps[Len(req.steps) + 1].no = req.steps[i].no + 1
         /\ req'.steps[Len(req.steps) + 1].approver = target
         /\ req'.steps[Len(req.steps) + 1].rule = req.steps[i].rule
         /\ req'.steps[Len(req.steps) + 1].index = req.steps[i].index
         /\ req'.steps[Len(req.steps) + 1].status = "PENDING"
         /\ req'.steps[Len(req.steps) + 1].from = i
<1> DEFINE s == req.steps
           n == Len(s)
           k == s[i].no + 1
           moved == [j \in DOMAIN s |->
                       IF j = i THEN [s[j] EXCEPT !.status = "DELEGATED"]
                       ELSE IF s[j].no >= k THEN [s[j] EXCEPT !.no = @ + 1]
                       ELSE s[j]]
           copy == [no |-> k, approver |-> target, rule |-> s[i].rule,
                    index |-> s[i].index, status |-> "PENDING", from |-> i]
           t == Append(moved, copy)
           q == [req EXCEPT !.steps = t]
           e == Entry("DELEGATED", me, i, {})
<1>1. /\ s \in Seq(Step) /\ n \in Nat /\ DOMAIN s = 1 .. n
      /\ \A j \in DOMAIN s : /\ s[j] \in Step /\ s[j].no \in Nat
                             /\ s[j].status \in StepStatuses
  BY StepTypes DEF IInv
<1>2. i \in DOMAIN s /\ me \in Devs
  BY FirstPending DEF Delegate
<1>3. ASSUME NEW j \in 1 .. n
      PROVE  /\ moved[j] \in Step
             /\ SameRow(moved[j], s[j])
             /\ moved[j].status = IF j = i THEN "DELEGATED" ELSE s[j].status
             /\ moved[j].no = IF j # i /\ s[j].no >= k THEN s[j].no + 1 ELSE s[j].no
  <2>1. s[j] \in Step /\ j \in DOMAIN s
    BY <1>1
  <2>2. CASE j = i
    <3>1. moved[j] = [s[j] EXCEPT !.status = "DELEGATED"]
      BY <2>1, <2>2
    <3> HIDE DEF moved
    <3> QED
      BY <2>1, <2>2, <3>1 DEF Step, StepStatuses, Decided, SameRow
  <2>3. CASE j # i /\ s[j].no >= k
    <3>1. moved[j] = [s[j] EXCEPT !.no = @ + 1]
      BY <2>1, <2>3
    <3> HIDE DEF moved
    <3> QED
      BY <2>1, <2>3, <3>1, SMTT(30) DEF Step, SameRow
  <2>4. CASE j # i /\ ~(s[j].no >= k)
    <3>1. moved[j] = s[j]
      BY <2>1, <2>4
    <3> HIDE DEF moved
    <3> QED
      BY <2>1, <2>4, <3>1 DEF SameRow
  <2> QED
    BY <2>2, <2>3, <2>4
<1>4. copy \in Step
  <2>1. s[i] \in Step /\ i \in Nat
    BY <1>1, <1>2
  <2> QED
    BY <2>1 DEF Step, StepStatuses
<1>5. moved \in Seq(Step) /\ Len(moved) = n
  <2>1. \A j \in 1 .. n : moved[j] \in Step
    BY <1>3
  <2> HIDE DEF s, k
  <2> QED
    BY <1>1, <2>1
<1>6. /\ t \in Seq(Step) /\ Len(t) = n + 1 /\ DOMAIN t = 1 .. n + 1
      /\ \A j \in 1 .. n : t[j] = moved[j]
      /\ t[n + 1] = copy
  <2> HIDE DEF moved, copy, s
  <2> QED
    BY <1>1, <1>4, <1>5
<1>7. q \in Request /\ q.steps = t /\ q.status = req.status /\ q.history = req.history
  <2> HIDE DEF t
  <2> QED
    BY <1>6 DEF IInv, TypeOK, Request
<1>8. /\ req' \in Request /\ req'.steps = t /\ req'.status = req.status
      /\ req'.history = Append(req.history, e)
  <2>1. req' = Log(q, "DELEGATED", me, i, {})
    BY DEF Delegate, Delegated
  <2>2. "DELEGATED" \in Events /\ i \in Nat /\ {} \in SUBSET Nat
    BY <1>1, <1>2 DEF Events, Decided
  <2> HIDE DEF q, t
  <2> QED
    BY <1>2, <1>7, <2>1, <2>2, LogType
<1>9. \A j \in 1 .. n : /\ SameRow(t[j], s[j])
                        /\ t[j].status = IF j = i THEN "DELEGATED" ELSE s[j].status
                        /\ t[j].no = IF j # i /\ s[j].no >= k THEN s[j].no + 1
                                    ELSE s[j].no
  BY <1>3, <1>6
<1>10. /\ copy.no = k /\ copy.approver = target /\ copy.rule = s[i].rule
       /\ copy.index = s[i].index /\ copy.status = "PENDING" /\ copy.from = i
  OBVIOUS
<1> HIDE DEF moved, t, q, copy
<1> QED
  BY <1>1, <1>2, <1>6, <1>8, <1>9, <1>10

LEMMA DelegateKeepsIInv ==
  ASSUME IInv, NEW i, NEW me, NEW target \in Devs, Delegate(i, me, target)
  PROVE  IInv'
<1> DEFINE s == req.steps
           n == Len(s)
           k == s[i].no + 1
           t == req'.steps
<1>1. /\ s \in Seq(Step) /\ n \in Nat /\ DOMAIN s = 1 .. n
      /\ \A j \in DOMAIN s : /\ s[j] \in Step /\ s[j].no \in Nat
                             /\ s[j].status \in StepStatuses
  BY StepTypes DEF IInv
<1>2. /\ i \in DOMAIN s /\ req.status \in Open /\ s[i].status = "PENDING" /\ me \in Devs
      /\ \A j \in DOMAIN s :
           /\ s[j].no < s[i].no => s[j].status # "PENDING"
           /\ s[j].no > s[i].no => s[j].status \notin Decided
           /\ s[j].status # "REJECTED"
      /\ target # Requester
  BY FirstPending DEF Delegate, CanDelegate
<1>6. Len(t) = n + 1 /\ DOMAIN t = 1 .. n + 1
  BY DelegateEffect
<1>8. req' \in Request /\ req'.steps = t /\ req'.status = req.status
  BY DelegateEffect
<1>9. \A j \in 1 .. n : /\ t[j].approver = s[j].approver
                        /\ t[j].status = IF j = i THEN "DELEGATED" ELSE s[j].status
                        /\ t[j].no = IF j # i /\ s[j].no >= k THEN s[j].no + 1
                                    ELSE s[j].no
  BY DelegateEffect DEF SameRow
<1>10. t[n+1].no = k /\ t[n+1].approver = target /\ t[n+1].status = "PENDING"
  BY DelegateEffect
<1> HIDE DEF t
<1>11. TypeOK'
  BY <1>8 DEF IInv, TypeOK, Delegate
<1>12. /\ \A x, y \in 1 .. n : s[x].no = s[y].no => x = y
       /\ \A x \in 1 .. n : s[x].no \in 1 .. n
  BY <1>1 DEF IInv, StepsNumbered
<1> DEFINE old == [x \in 1 .. n |-> s[x].no]
           new == [x \in 1 .. n + 1 |-> t[x].no]
<1>20. /\ \A x \in 1 .. n + 1 : new[x] \in 1 .. n + 1
       /\ \A x, y \in 1 .. n + 1 : new[x] = new[y] => x = y
       /\ \A x \in 1 .. n + 1, y \in 1 .. n :
            (old[y] <= old[i] /\ new[x] < new[y]) => x \in 1 .. n /\ old[x] < old[i]
  <2>1. (\A x \in 1 .. n : old[x] \in 1 .. n) /\ i \in 1 .. n /\ n \in Nat
    BY <1>1, <1>2, <1>12
  <2>2. \A x, y \in 1 .. n : old[x] = old[y] => x = y
    BY <1>12
  <2>4. ASSUME NEW j \in 1 .. n
        PROVE  new[j] = Shifted(old[j], old[i])
    <3>1. /\ new[j] = IF j # i /\ s[j].no >= k THEN s[j].no + 1 ELSE s[j].no
          /\ old[j] = s[j].no /\ old[i] = s[i].no
          /\ s[i].no \in Nat
      BY <1>1, <1>2, <1>9
    <3> HIDE DEF old, new
    <3> QED
      BY <3>1 DEF Shifted
  <2>5. new[n + 1] = old[i] + 1
    BY <1>1, <1>2, <1>10
  <2> HIDE DEF old, new, n
  <2> QED
    BY <2>1, <2>2, <2>4, <2>5, ShiftNumbers
<1>13. StepsNumbered'
  BY <1>6, <1>8, <1>20 DEF StepsNumbered
<1>14. NoSelfApproval'
  <2>1. \A x \in 1 .. n + 1 : x \in 1 .. n \/ x = n + 1
    BY <1>1
  <2> QED
    BY <1>1, <1>2, <1>6, <1>8, <1>9, <1>10, <2>1 DEF IInv, NoSelfApproval
<1>15. DecidedInOrder'
  <2> SUFFICES ASSUME NEW x \in 1 .. n + 1, NEW y \in 1 .. n + 1,
                      t[x].no < t[y].no, t[y].status \in Decided
               PROVE  t[x].status # "PENDING"
    BY <1>6, <1>8 DEF DecidedInOrder
  <2>1. y \in 1 .. n
    <3>1. y \in 1 .. n \/ y = n + 1
      <4> HIDE DEF n
      <4> QED
        BY <1>1
    <3>2. y # n + 1
      BY <1>10 DEF Decided
    <3> QED
      BY <3>1, <3>2
  <2>2. s[y].no <= s[i].no
    <3>1. CASE y = i
      BY <1>1, <1>2, <3>1
    <3>2. CASE y # i
      <4>1. s[y].status \in Decided
        BY <1>9, <2>1, <3>2
      <4> QED
        BY <1>1, <1>2, <2>1, <4>1
    <3> QED
      BY <3>1, <3>2
  <2>4. x \in 1 .. n /\ x # i /\ s[x].no < s[i].no
    <3>1. old[y] <= old[i] /\ new[x] < new[y]
      BY <1>1, <1>2, <2>1, <2>2
    <3>2. x \in 1 .. n /\ old[x] < old[i]
      BY <1>20, <2>1, <3>1
    <3>3. x \in 1 .. n /\ s[x].no < s[i].no
      BY <1>1, <1>2, <3>2
    <3>4. s[i].no \in Nat
      BY <1>1, <1>2
    <3> QED
      BY <3>3, <3>4
  <2> QED
    BY <1>1, <1>2, <1>9, <2>4
<1>16. OutcomeMatchesSteps'
  <2>1. n + 1 \in Pending(t)
    BY <1>1, <1>6, <1>10 DEF Pending
  <2>2. \A x \in DOMAIN t : t[x].status # "REJECTED"
    <3>1. \A x \in 1 .. n + 1 : x \in 1 .. n \/ x = n + 1
      BY <1>1
    <3> QED
      BY <1>1, <1>2, <1>6, <1>9, <1>10, <3>1, SMTT(30)
  <2> QED
    BY <1>2, <1>8, <2>1, <2>2 DEF OutcomeMatchesSteps, Open
<1> QED
  BY <1>11, <1>13, <1>14, <1>15, <1>16 DEF IInv

\* The slots in force come from the type of the template.
LEMMA RefreshType ==
  ASSUME NEW r \in Request, NEW t \in Templates
  PROVE  /\ RefreshSlots(r, t) \in Request
         /\ RefreshSlots(r, t).steps = r.steps
<1>1. t.slots \in [need : Nat, max : Nat] \cup {NoSlots}
  BY FlowAssumption
<1> QED
  BY <1>1 DEF RefreshSlots, Request

\* A request is created without steps, from a template of the right type.
LEMMA NewRequestType ==
  ASSUME NEW t \in Templates, NEW f \in Forms
  PROVE  /\ NewRequest(t, f) \in Request
         /\ NewRequest(t, f).steps = << >>
         /\ NewRequest(t, f).status = "DRAFT"
<1>1. t.slots \in [need : Nat, max : Nat] \cup {NoSlots} /\ t.rules \in RulesOfTemplates
  BY FlowAssumption DEF RulesOfTemplates
<1>2. Entry("CREATED", Requester, 0, {}) \in HistoryEntry
  BY DevAssumption DEF Entry, HistoryEntry, Events
<1>3. <<Entry("CREATED", Requester, 0, {})>> \in Seq(HistoryEntry)
  <2> DEFINE e == Entry("CREATED", Requester, 0, {})
  <2> HIDE DEF e
  <2>1. e \in HistoryEntry
    BY <1>2 DEF e
  <2> QED
    BY <2>1 DEF e
<1>4. << >> \in Seq(Step) /\ {} \in SUBSET FileIds /\ "DRAFT" \in Statuses
  BY DEF Statuses
<1> QED
  BY <1>1, <1>3, <1>4 DEF NewRequest, Request

\* An empty list of steps satisfies every part of the invariant but the type.
LEMMA NoSteps ==
  ASSUME TypeOK, req.steps = << >>, req.status \in {"NONE", "DRAFT"}
  PROVE  IInv
BY DEF IInv, StepsNumbered, DecidedInOrder, OutcomeMatchesSteps, NoSelfApproval,
       Pending, Open

THEOREM InitIInv == Init => IInv
<1> SUFFICES ASSUME Init
             PROVE  IInv
  OBVIOUS
<1>1. (CHOOSE f \in Forms : TRUE) \in Forms
  BY FlowAssumption
<1>2. (CHOOSE rs \in RulesOfTemplates : TRUE) \in RulesOfTemplates
  BY DEF Init, RulesOfTemplates
<1>3. NoRequest \in Request
  BY <1>1, <1>2 DEF NoRequest, Request, Statuses
<1> QED
  BY <1>3, NoSteps DEF Init, TypeOK, NoRequest

LEMMA CreateKeepsIInv ==
  ASSUME IInv, NEW f \in Forms, NEW now \in BOOLEAN, Create(f, now)
  PROVE  IInv'
<1> DEFINE r == NewRequest(tpl, f)
<1>1. r \in Request /\ r.steps = << >> /\ r.status = "DRAFT"
  BY NewRequestType DEF IInv, TypeOK
<1>2. CASE now
  <2>1. req' = Submitted(r, org) /\ Chain(r, org) # << >> /\ UNCHANGED <<org, tpl>>
    BY <1>2 DEF Create, CanSubmit
  <2> HIDE DEF r
  <2> QED
    BY <1>1, <2>1, SubmitKeepsIInv
<1>3. CASE ~now
  <2>1. req' = r /\ UNCHANGED <<org, tpl>>
    BY <1>3 DEF Create
  <2>2. TypeOK'
    BY <1>1, <2>1 DEF IInv, TypeOK
  <2> HIDE DEF r
  <2> QED
    BY <1>1, <2>1, <2>2 DEF IInv, StepsNumbered, DecidedInOrder, OutcomeMatchesSteps,
                            NoSelfApproval, Pending, Open
<1> QED
  BY <1>2, <1>3

LEMMA SubmitActionKeepsIInv ==
  ASSUME IInv, Submit
  PROVE  IInv'
<1> DEFINE r == RefreshSlots(req, tpl)
<1>1. r \in Request /\ r.steps = req.steps
  BY RefreshType DEF IInv, TypeOK
<1>2. req.steps = << >>
  BY DEF IInv, OutcomeMatchesSteps, Submit
<1>3. req' = Submitted(r, org) /\ Chain(r, org) # << >> /\ UNCHANGED <<org, tpl>>
  BY DEF Submit, CanSubmit
<1> HIDE DEF r
<1> QED
  BY <1>1, <1>2, <1>3, SubmitKeepsIInv

\* Comments, attachments and the administrators' edits leave the steps alone.
LEMMA OtherActionsKeepIInv ==
  ASSUME IInv,
         \/ \E f \in Forms : Update(f)
         \/ \E me \in Devs : Comment(me)
         \/ \E f \in FileIds, editor \in Editors : Upload(f, editor) \/ DeleteFile(f, editor)
         \/ EditTemplate
         \/ Reorganise
         \/ UNCHANGED vars
  PROVE  IInv'
<1>1. req \in Request /\ org \in Orgs /\ tpl \in Templates
  BY DEF IInv, TypeOK
<1>2. ASSUME NEW f \in Forms, Update(f)
      PROVE  IInv'
  <2>1. TypeOK' /\ req'.steps = req.steps /\ req'.status = req.status
    BY <1>1, <1>2 DEF Update, TypeOK, Request
  <2> QED
    BY <2>1, SameSteps
<1>3. ASSUME NEW me \in Devs, Comment(me)
      PROVE  IInv'
  <2>1. req' = Log(req, "COMMENTED", me, 0, {}) /\ UNCHANGED <<org, tpl>>
    BY <1>3 DEF Comment, Commented
  <2>2. "COMMENTED" \in Events /\ 0 \in Nat /\ {} \in SUBSET Nat
    BY DEF Events
  <2>3. req' \in Request /\ req'.steps = req.steps /\ req'.status = req.status
    BY <1>1, <2>1, <2>2, LogType
  <2>4. TypeOK'
    BY <1>1, <2>1, <2>3 DEF TypeOK
  <2> QED
    BY <2>3, <2>4, SameSteps
<1>4. ASSUME NEW f \in FileIds, NEW editor \in Editors, Upload(f, editor) \/ DeleteFile(f, editor)
      PROVE  IInv'
  <2>1. TypeOK' /\ req'.steps = req.steps /\ req'.status = req.status
    BY <1>1, <1>4 DEF Upload, DeleteFile, TypeOK, Request
  <2> QED
    BY <2>1, SameSteps
<1>5. CASE EditTemplate \/ Reorganise \/ UNCHANGED vars
  <2>1. TypeOK' /\ req' = req
    BY <1>1, <1>5 DEF EditTemplate, Reorganise, vars, TypeOK
  <2> QED
    BY <2>1, SameSteps
<1> QED
  BY <1>2, <1>3, <1>4, <1>5

THEOREM NextKeepsIInv == IInv /\ [Next]_vars => IInv'
<1> SUFFICES ASSUME IInv, [Next]_vars
             PROVE  IInv'
  OBVIOUS
<1>1. ASSUME NEW f \in Forms, NEW now \in BOOLEAN, Create(f, now)
      PROVE  IInv'
  BY <1>1, CreateKeepsIInv
<1>2. CASE Submit
  BY <1>2, SubmitActionKeepsIInv
<1>3. CASE Cancel
  BY <1>3, CancelKeepsIInv
<1>4. ASSUME NEW me \in Devs, NEW i \in DOMAIN req.steps, Approve(i, me)
      PROVE  IInv'
  BY <1>4, ApproveKeepsIInv
<1>5. ASSUME NEW me \in Devs, NEW i \in DOMAIN req.steps, Reject(i, me)
      PROVE  IInv'
  BY <1>5, RejectKeepsIInv
<1>6. ASSUME NEW me \in Devs, NEW i \in DOMAIN req.steps, NEW target \in Devs,
             Delegate(i, me, target)
      PROVE  IInv'
  BY <1>6, DelegateKeepsIInv
<1>7. CASE \/ \E f \in Forms : Update(f)
           \/ \E me \in Devs : Comment(me)
           \/ \E f \in FileIds, editor \in Editors :
                Upload(f, editor) \/ DeleteFile(f, editor)
           \/ EditTemplate
           \/ Reorganise
           \/ UNCHANGED vars
  BY <1>7, OtherActionsKeepIInv
<1> QED
  BY <1>1, <1>2, <1>3, <1>4, <1>5, <1>6, <1>7 DEF Next

LEMMA Inductive == Spec => []IInv
BY InitIInv, NextKeepsIInv, PTL DEF Spec

(***************************************************************************)
(* Every reachable state of the workflow has the declared types, whatever  *)
(* the employees, charts, templates and bounds (models/approval.py).       *)
(***************************************************************************)
THEOREM TypeCorrect == Spec => []TypeOK
<1>1. IInv => TypeOK
  BY DEF IInv
<1> QED
  BY <1>1, Inductive, PTL

(***************************************************************************)
(* However often steps are delegated, the steps stay numbered 1 .. n and   *)
(* nothing before a decided step is pending (approvals.py:925, 1058).      *)
(***************************************************************************)
THEOREM DecisionsInOrder == Spec => [](StepsNumbered /\ DecidedInOrder)
<1>1. IInv => StepsNumbered /\ DecidedInOrder
  BY DEF IInv
<1> QED
  BY <1>1, Inductive, PTL

(***************************************************************************)
(* The status of the request is always the one its steps imply             *)
(* (approvals.py:432, 518, 547, 965, 1006).                                *)
(***************************************************************************)
THEOREM OutcomeCorrect == Spec => []OutcomeMatchesSteps
<1>1. IInv => OutcomeMatchesSteps
  BY DEF IInv
<1> QED
  BY <1>1, Inductive, PTL

(***************************************************************************)
(* No route through rules and delegations makes the requester an approver  *)
(* of his own request (approvals.py:1048, approval_engine.py:190).         *)
(***************************************************************************)
THEOREM NobodyApprovesHisOwn == Spec => []NoSelfApproval
<1>1. IInv => NoSelfApproval
  BY DEF IInv
<1> QED
  BY <1>1, Inductive, PTL

(***************************************************************************)
(* An open request always has a step that its approver may act on: the     *)
(* inbox is never a dead end (approvals.py:913-931).                       *)
(***************************************************************************)
THEOREM AlwaysSomeoneCanAct == Spec => []SomeoneCanAct
<1>1. IInv => SomeoneCanAct
  <2> SUFFICES ASSUME IInv, req.status \in Open
               PROVE  \E i \in DOMAIN req.steps : EnsureMyPending(req, i, req.steps[i].approver)
    BY DEF SomeoneCanAct
  <2> DEFINE numbers == {req.steps[i].no : i \in Pending(req.steps)}
  <2>1. Pending(req.steps) # {}
    BY DEF IInv, OutcomeMatchesSteps
  <2>2. numbers # {}
    BY <2>1
  <2>3. \A i \in DOMAIN req.steps : req.steps[i].no \in Nat
    BY DEF IInv, StepsNumbered
  <2>4. numbers \in SUBSET Nat
    BY <2>3 DEF Pending
  <2>5. PICK x \in numbers : \A y \in numbers : x <= y
    <3> HIDE DEF numbers
    <3> QED  BY <2>2, <2>4, LeastElement
  <2>6. PICK i \in Pending(req.steps) : req.steps[i].no = x
    BY <2>5
  <2>7. i \in DOMAIN req.steps /\ req.steps[i].status = "PENDING"
    BY <2>6 DEF Pending
  <2>8. EarlierPending(req, i) = {}
    <3> SUFFICES ASSUME NEW j \in DOMAIN req.steps, req.steps[j].status = "PENDING",
                        req.steps[j].no < req.steps[i].no
                 PROVE  FALSE
      BY DEF EarlierPending
    <3>1. req.steps[j].no \in numbers
      BY DEF Pending
    <3>2. x <= req.steps[j].no
      BY <2>5, <3>1
    <3> HIDE DEF numbers
    <3> QED
      BY <2>3, <2>6, <2>7, <3>2
  <2> QED
    BY <2>7, <2>8 DEF EnsureMyPending
<1> QED
  BY <1>1, Inductive, PTL

-----------------------------------------------------------------------------
(***************************************************************************)
(* The history.  A step is accounted for by the entries about it and by    *)
(* the entries of approvals that skipped it.                               *)
(***************************************************************************)
Mine(hs, i) == {h \in DOMAIN hs : hs[h].step = i}
By(hs, i)   == {h \in DOMAIN hs : i \in hs[h].skipped}

Single(S) == \E h \in S : S = {h}

Audited(s, i, hs, rs) ==
  /\ s.status = "PENDING" => Mine(hs, i) = {} /\ By(hs, i) = {}
  /\ s.status \in Decided =>
       /\ By(hs, i) = {}
       /\ \E h \in Mine(hs, i) : /\ Mine(hs, i) = {h}
                                 /\ hs[h].event = s.status
                                 /\ hs[h].actor = s.approver
  /\ s.status = "SKIPPED" =>
       /\ Mine(hs, i) = {}
       /\ By(hs, i) = {} \/ Single(By(hs, i))
       /\ By(hs, i) = {} => rs \in {"REJECTED", "CANCELLED"}

LEMMA AppendedEntry ==
  ASSUME NEW hs \in Seq(HistoryEntry), NEW e \in HistoryEntry, NEW i
  PROVE  /\ e.step # i => Mine(Append(hs, e), i) = Mine(hs, i)
         /\ e.step = i => Mine(Append(hs, e), i) = Mine(hs, i) \cup {Len(hs) + 1}
         /\ i \notin e.skipped => By(Append(hs, e), i) = By(hs, i)
         /\ i \in e.skipped => By(Append(hs, e), i) = By(hs, i) \cup {Len(hs) + 1}
         /\ \A h \in DOMAIN hs : Append(hs, e)[h] = hs[h]
         /\ Append(hs, e)[Len(hs) + 1] = e
         /\ Mine(hs, i) \subseteq DOMAIN hs /\ By(hs, i) \subseteq DOMAIN hs
<1> DEFINE n == Len(hs)
           t == Append(hs, e)
<1>1. /\ n \in Nat /\ DOMAIN hs = 1 .. n /\ DOMAIN t = 1 .. n + 1
      /\ \A h \in 1 .. n : t[h] = hs[h]
      /\ t[n + 1] = e
  OBVIOUS
<1>2. \A h \in 1 .. n + 1 : h \in 1 .. n \/ h = n + 1
  BY <1>1
<1>3. 1 .. n \subseteq 1 .. n + 1 /\ n + 1 \in 1 .. n + 1 /\ n + 1 \notin 1 .. n
  BY <1>1
<1> HIDE DEF n, t
<1>4. /\ e.step # i => Mine(t, i) = Mine(hs, i)
      /\ e.step = i => Mine(t, i) = Mine(hs, i) \cup {n + 1}
  BY <1>1, <1>2, <1>3 DEF Mine
<1>5. /\ i \notin e.skipped => By(t, i) = By(hs, i)
      /\ i \in e.skipped => By(t, i) = By(hs, i) \cup {n + 1}
  BY <1>1, <1>2, <1>3 DEF By
<1> QED
  BY <1>1, <1>4, <1>5 DEF Mine, By, n, t

\* An entry that is not about a step leaves its account as it is.
LEMMA AuditKept ==
  ASSUME NEW hs \in Seq(HistoryEntry), NEW e \in HistoryEntry, NEW i, NEW s, NEW t,
         NEW rs, NEW rs2, Audited(s, i, hs, rs),
         t.status = s.status, t.approver = s.approver,
         e.step # i, i \notin e.skipped,
         rs \in {"REJECTED", "CANCELLED"} => rs2 \in {"REJECTED", "CANCELLED"}
  PROVE  Audited(t, i, Append(hs, e), rs2)
<1>1. Mine(Append(hs, e), i) = Mine(hs, i) /\ By(Append(hs, e), i) = By(hs, i)
  BY AppendedEntry
<1>2. \A h \in Mine(hs, i) : Append(hs, e)[h] = hs[h]
  BY AppendedEntry
<1> QED
  BY <1>1, <1>2 DEF Audited

\* A pending step is decided by its approver.
LEMMA AuditDecided ==
  ASSUME NEW hs \in Seq(HistoryEntry), NEW e \in HistoryEntry, NEW i, NEW s, NEW t,
         NEW rs, NEW rs2, Audited(s, i, hs, rs),
         s.status = "PENDING", t.status \in Decided,
         e.step = i, i \notin e.skipped, e.event = t.status, e.actor = t.approver
  PROVE  Audited(t, i, Append(hs, e), rs2)
<1>1. Mine(hs, i) = {} /\ By(hs, i) = {}
  BY DEF Audited
<1>2. Mine(Append(hs, e), i) = {Len(hs) + 1} /\ By(Append(hs, e), i) = {}
  <2>1. Mine(Append(hs, e), i) = Mine(hs, i) \cup {Len(hs) + 1}
    BY AppendedEntry
  <2>2. By(Append(hs, e), i) = By(hs, i)
    BY AppendedEntry
  <2> QED
    BY <1>1, <2>1, <2>2
<1>3. Append(hs, e)[Len(hs) + 1] = e
  BY AppendedEntry
<1>4. t.status \notin {"PENDING", "SKIPPED"}
  BY DEF Decided
<1> QED
  BY <1>2, <1>3, <1>4 DEF Audited

\* A pending step is skipped by an approval, or when the request is closed.
LEMMA AuditSkipped ==
  ASSUME NEW hs \in Seq(HistoryEntry), NEW e \in HistoryEntry, NEW i, NEW s, NEW t,
         NEW rs, NEW rs2, Audited(s, i, hs, rs),
         s.status = "PENDING", t.status = "SKIPPED", e.step # i,
         i \in e.skipped \/ rs2 \in {"REJECTED", "CANCELLED"}
  PROVE  Audited(t, i, Append(hs, e), rs2)
<1>1. Mine(hs, i) = {} /\ By(hs, i) = {}
  BY DEF Audited
<1>2. /\ Mine(Append(hs, e), i) = {}
      /\ i \notin e.skipped => By(Append(hs, e), i) = {}
      /\ i \in e.skipped => By(Append(hs, e), i) = {Len(hs) + 1}
  BY <1>1, AppendedEntry
<1>3. t.status # "PENDING" /\ t.status \notin Decided
  BY DEF Decided
<1> QED
  BY <1>2, <1>3 DEF Audited, Single

-----------------------------------------------------------------------------
(***************************************************************************)
(* The trail of a request: what it records refers to its own steps, each   *)
(* step is accounted for, and delegations follow one another.              *)
(***************************************************************************)
Trail ==
  /\ \A h \in DOMAIN req.history : /\ req.history[h].step \in 0 .. Len(req.steps)
                                   /\ req.history[h].skipped \subseteq 1 .. Len(req.steps)
  /\ \A j \in DOMAIN req.steps :
       /\ req.steps[j].from \in 0 .. Len(req.steps)
       /\ Audited(req.steps[j], j, req.history, req.status)
  /\ DelegationSuccession

\* What a new entry e says of step j is what has become of the step.
Moves(j, e) ==
  \/ /\ req'.steps[j].status = req.steps[j].status
     /\ e.step # j /\ j \notin e.skipped
  \/ /\ req.steps[j].status = "PENDING"
     /\ req'.steps[j].status \in {"APPROVED", "REJECTED"}
     /\ e.step = j /\ j \notin e.skipped
     /\ e.event = req'.steps[j].status /\ e.actor = req.steps[j].approver
  \/ /\ req.steps[j].status = "PENDING"
     /\ req'.steps[j].status = "SKIPPED"
     /\ e.step # j
     /\ j \in e.skipped \/ req'.status \in {"REJECTED", "CANCELLED"}

\* A handler that writes entry e and changes no more than the status of steps.
Records(e) ==
  /\ e \in HistoryEntry
  /\ e.step \in 0 .. Len(req.steps) /\ e.skipped \subseteq 1 .. Len(req.steps)
  /\ req'.history = Append(req.history, e)
  /\ Len(req'.steps) = Len(req.steps) /\ DOMAIN req'.steps = DOMAIN req.steps
  /\ \A j \in DOMAIN req.steps : /\ SameRow(req'.steps[j], req.steps[j])
                                 /\ req'.steps[j].no = req.steps[j].no
                                 /\ Moves(j, e)
  /\ req.status \in {"REJECTED", "CANCELLED"} => req'.status \in {"REJECTED", "CANCELLED"}

LEMMA HistoryType ==
  ASSUME TypeOK
  PROVE  /\ req.history \in Seq(HistoryEntry)
         /\ Len(req.history) \in Nat
         /\ DOMAIN req.history = 1 .. Len(req.history)
         /\ \A h \in DOMAIN req.history : req.history[h] \in HistoryEntry
<1>1. req.history \in Seq(HistoryEntry)
  BY DEF TypeOK, Request
<1> DEFINE T == HistoryEntry
<1>2. \A h \in DOMAIN req.history : req.history[h] \in T
  <2>1. req.history \in Seq(T)
    BY <1>1
  <2> HIDE DEF T
  <2> QED
    BY <2>1
<1> QED
  BY <1>1, <1>2

\* The references of a longer history stay within the steps.
LEMMA EntriesRefer ==
  ASSUME NEW hs \in Seq(HistoryEntry), NEW e \in HistoryEntry, NEW n \in Nat, NEW m \in Nat,
         n <= m,
         \A h \in DOMAIN hs : hs[h].step \in 0 .. n /\ hs[h].skipped \subseteq 1 .. n,
         e.step \in 0 .. m, e.skipped \subseteq 1 .. m
  PROVE  \A h \in DOMAIN Append(hs, e) : /\ Append(hs, e)[h].step \in 0 .. m
                                         /\ Append(hs, e)[h].skipped \subseteq 1 .. m
<1>1. /\ Len(hs) \in Nat /\ DOMAIN hs = 1 .. Len(hs)
      /\ DOMAIN Append(hs, e) = 1 .. Len(hs) + 1
      /\ \A h \in 1 .. Len(hs) : Append(hs, e)[h] = hs[h]
      /\ Append(hs, e)[Len(hs) + 1] = e
  OBVIOUS
<1>2. \A h \in 1 .. Len(hs) + 1 : h \in 1 .. Len(hs) \/ h = Len(hs) + 1
  BY <1>1
<1>3. 0 .. n \subseteq 0 .. m /\ 1 .. n \subseteq 1 .. m
  OBVIOUS
<1> QED
  BY <1>1, <1>2, <1>3

LEMMA RecordsKeepTrail ==
  ASSUME IInv, Trail, TypeOK', NEW e, Records(e)
  PROVE  Trail'
<1>1. /\ Len(req.steps) \in Nat /\ DOMAIN req.steps = 1 .. Len(req.steps)
      /\ req.history \in Seq(HistoryEntry)
      /\ \A j \in DOMAIN req.steps : req.steps[j].status \in StepStatuses
  BY StepTypes, HistoryType DEF IInv
<1>2. \A h \in DOMAIN req'.history : /\ req'.history[h].step \in 0 .. Len(req'.steps)
                                     /\ req'.history[h].skipped \subseteq 1 .. Len(req'.steps)
  BY <1>1, EntriesRefer DEF Trail, Records
<1>3. ASSUME NEW j \in DOMAIN req'.steps
      PROVE  /\ req'.steps[j].from \in 0 .. Len(req'.steps)
             /\ Audited(req'.steps[j], j, req'.history, req'.status)
  <2>1. /\ j \in DOMAIN req.steps
        /\ Audited(req.steps[j], j, req.history, req.status)
        /\ req.steps[j].from \in 0 .. Len(req.steps)
        /\ SameRow(req'.steps[j], req.steps[j])
        /\ Moves(j, e)
        /\ req'.history = Append(req.history, e)
        /\ e \in HistoryEntry
        /\ Len(req'.steps) = Len(req.steps)
        /\ req.status \in {"REJECTED", "CANCELLED"} => req'.status \in {"REJECTED", "CANCELLED"}
    BY <1>3 DEF Records, Trail
  <2>2. req'.steps[j].approver = req.steps[j].approver /\ req'.steps[j].from = req.steps[j].from
    BY <2>1 DEF SameRow
  <2>3. Audited(req'.steps[j], j, Append(req.history, e), req'.status)
    <3>1. CASE /\ req'.steps[j].status = req.steps[j].status
               /\ e.step # j /\ j \notin e.skipped
      BY <1>1, <2>1, <2>2, <3>1, AuditKept
    <3>2. CASE /\ req.steps[j].status = "PENDING"
               /\ req'.steps[j].status \in {"APPROVED", "REJECTED"}
               /\ e.step = j /\ j \notin e.skipped
               /\ e.event = req'.steps[j].status /\ e.actor = req.steps[j].approver
      <4>1. req'.steps[j].status \in Decided
        BY <3>2 DEF Decided
      <4> QED
        BY <1>1, <2>1, <2>2, <3>2, <4>1, AuditDecided
    <3>3. CASE /\ req.steps[j].status = "PENDING"
               /\ req'.steps[j].status = "SKIPPED"
               /\ e.step # j
               /\ j \in e.skipped \/ req'.status \in {"REJECTED", "CANCELLED"}
      BY <1>1, <2>1, <2>2, <3>3, AuditSkipped
    <3> QED
      BY <2>1, <3>1, <3>2, <3>3 DEF Moves
  <2> QED
    BY <2>1, <2>2, <2>3
<1>4. DelegationSuccession'
  <2>1. \A j \in DOMAIN req.steps :
          /\ req'.steps[j].from = req.steps[j].from
          /\ req'.steps[j].no = req.steps[j].no
          /\ req'.steps[j].rule = req.steps[j].rule
          /\ req'.steps[j].index = req.steps[j].index
          /\ req'.steps[j].status = "DELEGATED" <=> req.steps[j].status = "DELEGATED"
    BY DEF Records, SameRow, Moves
  <2> QED
    BY <2>1 DEF Records, Trail, DelegationSuccession
<1> QED
  BY <1>2, <1>3, <1>4 DEF Trail

-----------------------------------------------------------------------------
LEMMA SetStatusRows ==
  ASSUME NEW s \in Seq(Step), NEW ids, NEW v \in StepStatuses
  PROVE  \A j \in DOMAIN s : SameRow(SetStatus(s, ids, v)[j], s[j])
<1>1. \A j \in 1 .. Len(s) : s[j] \in Step
  <2> DEFINE T == Step
  <2>1. s \in Seq(T)
    OBVIOUS
  <2> HIDE DEF T
  <2> QED
    BY <2>1 DEF T
<1>2. ASSUME NEW r \in Step
      PROVE  SameRow([r EXCEPT !.status = v], r) /\ SameRow(r, r)
  BY DEF SameRow, Step
<1>3. DOMAIN s = 1 .. Len(s)
  OBVIOUS
<1>4. \A j \in DOMAIN s :
        SetStatus(s, ids, v)[j] = IF j \in ids THEN [s[j] EXCEPT !.status = v] ELSE s[j]
  BY DEF SetStatus
<1> QED
  BY <1>1, <1>2, <1>3, <1>4

LEMMA EntryFields ==
  ASSUME NEW ev \in Events, NEW d \in Devs, NEW i \in Nat, NEW sk \in SUBSET Nat
  PROVE  /\ Entry(ev, d, i, sk) \in HistoryEntry
         /\ Entry(ev, d, i, sk).event = ev /\ Entry(ev, d, i, sk).actor = d
         /\ Entry(ev, d, i, sk).step = i /\ Entry(ev, d, i, sk).skipped = sk
BY DEF Entry, HistoryEntry

LEMMA CancelRecords ==
  ASSUME IInv, Cancel
  PROVE  Records(Entry("CANCELLED", Requester, 0, {}))
<1> DEFINE s == req.steps
           t == SetStatus(s, Pending(s), "SKIPPED")
           q == [req EXCEPT !.status = "CANCELLED", !.steps = t]
           e == Entry("CANCELLED", Requester, 0, {})
<1>1. /\ s \in Seq(Step) /\ Len(s) \in Nat /\ DOMAIN s = 1 .. Len(s)
      /\ "SKIPPED" \in StepStatuses
  BY StepTypes DEF IInv, StepStatuses
<1>2. /\ t \in Seq(Step) /\ Len(t) = Len(s) /\ DOMAIN t = DOMAIN s
      /\ \A j \in DOMAIN s : /\ t[j].no = s[j].no
                             /\ t[j].status = IF j \in Pending(s) THEN "SKIPPED"
                                             ELSE s[j].status
                             /\ SameRow(t[j], s[j])
  BY <1>1, SetStatusSteps, SetStatusRows
<1>3. /\ e \in HistoryEntry
      /\ e.step = 0 /\ e.skipped = {}
      /\ "CANCELLED" \in Events /\ Requester \in Devs /\ 0 \in Nat /\ {} \in SUBSET Nat
  <2>1. "CANCELLED" \in Events /\ Requester \in Devs /\ 0 \in Nat /\ {} \in SUBSET Nat
    BY DevAssumption DEF Events
  <2> QED
    BY <2>1, EntryFields
<1>4. q \in Request /\ q.steps = t /\ q.status = "CANCELLED" /\ q.history = req.history
  <2> HIDE DEF t
  <2> QED
    BY <1>2 DEF IInv, TypeOK, Request, Statuses, Closed
<1>5. req' = Log(q, "CANCELLED", Requester, 0, {})
  BY DEF Cancel, Cancelled
<1>6. req'.steps = t /\ req'.status = "CANCELLED" /\ req'.history = Append(req.history, e)
  <2> HIDE DEF q, t
  <2> QED
    BY <1>3, <1>4, <1>5, LogType
<1> HIDE DEF t, q, e
<1>7. \A j \in DOMAIN s : Moves(j, e)
  BY <1>1, <1>2, <1>3, <1>6 DEF Moves, Pending
<1> QED
  BY <1>1, <1>2, <1>3, <1>6, <1>7 DEF Records, e

LEMMA ApproveRecords ==
  ASSUME IInv, NEW i, NEW me, Approve(i, me)
  PROVE  Records(Entry("APPROVED", me, i, AutoSkipped(req, org, i)))
<1> DEFINE s == req.steps
           sk == AutoSkipped(req, org, i)
           a == SetStatus(s, {i}, "APPROVED")
           t == SetStatus(a, sk, "SKIPPED")
           st == IF Pending(t) = {} THEN "APPROVED" ELSE req.status
           q == [req EXCEPT !.steps = t, !.status = st]
           e == Entry("APPROVED", me, i, sk)
<1>1. /\ s \in Seq(Step) /\ Len(s) \in Nat /\ DOMAIN s = 1 .. Len(s)
      /\ {"SKIPPED", "APPROVED"} \subseteq StepStatuses
  BY StepTypes DEF IInv, StepStatuses, Decided
<1>2. /\ i \in DOMAIN s /\ req.status \in Open /\ s[i].status = "PENDING" /\ me \in Devs
      /\ s[i].approver = me /\ s[i].no \in Nat
  BY FirstPending, StepTypes DEF Approve, EnsureMyPending, IInv
<1>3. /\ sk \subseteq DOMAIN s /\ i \notin sk
      /\ \A j \in sk : s[j].status = "PENDING"
  BY <1>2 DEF AutoSkipped
<1>4. /\ a \in Seq(Step) /\ Len(a) = Len(s) /\ DOMAIN a = DOMAIN s
      /\ \A j \in DOMAIN s :
           /\ a[j].no = s[j].no /\ SameRow(a[j], s[j])
           /\ a[j].status = IF j \in {i} THEN "APPROVED" ELSE s[j].status
  <2> HIDE DEF s
  <2> QED
    BY <1>1, SetStatusSteps, SetStatusRows
<1> HIDE DEF sk
<1>5. /\ t \in Seq(Step) /\ Len(t) = Len(s) /\ DOMAIN t = DOMAIN s
      /\ \A j \in DOMAIN s :
           /\ t[j].no = s[j].no /\ SameRow(t[j], s[j])
           /\ t[j].status = IF j \in sk THEN "SKIPPED"
                           ELSE IF j = i THEN "APPROVED" ELSE s[j].status
  <2> HIDE DEF s, a
  <2>1. /\ t \in Seq(Step) /\ Len(t) = Len(a) /\ DOMAIN t = DOMAIN a
        /\ \A j \in DOMAIN a :
             /\ t[j].no = a[j].no /\ SameRow(t[j], a[j])
             /\ t[j].status = IF j \in sk THEN "SKIPPED" ELSE a[j].status
    BY <1>1, <1>4, SetStatusSteps, SetStatusRows
  <2> HIDE DEF t
  <2> QED
    BY <1>4, <2>1 DEF SameRow
<1>6. /\ e \in HistoryEntry /\ e.step = i /\ e.skipped = sk
      /\ e.event = "APPROVED" /\ e.actor = me
      /\ "APPROVED" \in Events /\ i \in Nat /\ sk \in SUBSET Nat
  <2>1. "APPROVED" \in Events /\ i \in Nat /\ sk \in SUBSET Nat
    BY <1>1, <1>2, <1>3 DEF Events, Decided
  <2> QED
    BY <1>2, <2>1, EntryFields
<1>7. st \in Statuses /\ st \in {"APPROVED"} \cup Open
  BY <1>2 DEF Statuses, Closed, Open
<1>8. q \in Request /\ q.steps = t /\ q.status = st /\ q.history = req.history
  <2> HIDE DEF t, st
  <2> QED
    BY <1>5, <1>7 DEF IInv, TypeOK, Request
<1>9. req' = Log(q, "APPROVED", me, i, sk)
  BY DEF Approve, Approved, sk
<1>10. req'.steps = t /\ req'.status = st /\ req'.history = Append(req.history, e)
  <2> HIDE DEF q, t, st
  <2> QED
    BY <1>2, <1>6, <1>8, <1>9, LogType
<1> HIDE DEF t, a, q, e, st
<1>11. \A j \in DOMAIN s : Moves(j, e)
  BY <1>2, <1>3, <1>5, <1>6, <1>10 DEF Moves
<1>12. req.status \notin {"REJECTED", "CANCELLED"}
  BY <1>2 DEF Open
<1>13. i \in 0 .. Len(s) /\ sk \subseteq 1 .. Len(s)
  BY <1>1, <1>2, <1>3
<1> QED
  BY <1>5, <1>6, <1>10, <1>11, <1>12, <1>13 DEF Records, e, sk

LEMMA RejectRecords ==
  ASSUME IInv, NEW i, NEW me, Reject(i, me)
  PROVE  Records(Entry("REJECTED", me, i, {}))
<1> DEFINE s == req.steps
           later == {j \in Pending(s) : s[j].no > s[i].no}
           a == SetStatus(s, {i}, "REJECTED")
           t == SetStatus(a, later, "SKIPPED")
           q == [req EXCEPT !.steps = t, !.status = "REJECTED"]
           e == Entry("REJECTED", me, i, {})
<1>1. /\ s \in Seq(Step) /\ Len(s) \in Nat /\ DOMAIN s = 1 .. Len(s)
      /\ {"SKIPPED", "REJECTED"} \subseteq StepStatuses
  BY StepTypes DEF IInv, StepStatuses, Decided
<1>2. /\ i \in DOMAIN s /\ req.status \in Open /\ s[i].status = "PENDING" /\ me \in Devs
      /\ s[i].approver = me /\ s[i].no \in Nat
  BY FirstPending, StepTypes DEF Reject, EnsureMyPending, IInv
<1>3. /\ i \notin later
      /\ \A j \in later : s[j].status = "PENDING"
  BY <1>2 DEF Pending
<1>4. /\ a \in Seq(Step) /\ Len(a) = Len(s) /\ DOMAIN a = DOMAIN s
      /\ \A j \in DOMAIN s :
           /\ a[j].no = s[j].no /\ SameRow(a[j], s[j])
           /\ a[j].status = IF j \in {i} THEN "REJECTED" ELSE s[j].status
  <2> HIDE DEF s
  <2> QED
    BY <1>1, SetStatusSteps, SetStatusRows
<1> HIDE DEF later
<1>5. /\ t \in Seq(Step) /\ Len(t) = Len(s) /\ DOMAIN t = DOMAIN s
      /\ \A j \in DOMAIN s :
           /\ t[j].no = s[j].no /\ SameRow(t[j], s[j])
           /\ t[j].status = IF j \in later THEN "SKIPPED"
                           ELSE IF j = i THEN "REJECTED" ELSE s[j].status
  <2> HIDE DEF s, a
  <2>1. /\ t \in Seq(Step) /\ Len(t) = Len(a) /\ DOMAIN t = DOMAIN a
        /\ \A j \in DOMAIN a :
             /\ t[j].no = a[j].no /\ SameRow(t[j], a[j])
             /\ t[j].status = IF j \in later THEN "SKIPPED" ELSE a[j].status
    BY <1>1, <1>4, SetStatusSteps, SetStatusRows
  <2> HIDE DEF t
  <2> QED
    BY <1>4, <2>1 DEF SameRow
<1>6. /\ e \in HistoryEntry /\ e.step = i /\ e.skipped = {}
      /\ e.event = "REJECTED" /\ e.actor = me
      /\ "REJECTED" \in Events /\ i \in Nat /\ {} \in SUBSET Nat
  <2>1. "REJECTED" \in Events /\ i \in Nat /\ {} \in SUBSET Nat
    BY <1>1, <1>2 DEF Events, Decided
  <2> QED
    BY <1>2, <2>1, EntryFields
<1>8. q \in Request /\ q.steps = t /\ q.status = "REJECTED" /\ q.history = req.history
  <2> HIDE DEF t
  <2> QED
    BY <1>5 DEF IInv, TypeOK, Request, Statuses, Closed
<1>9. req' = Log(q, "REJECTED", me, i, {})
  BY DEF Reject, Rejected, later
<1>10. req'.steps = t /\ req'.status = "REJECTED" /\ req'.history = Append(req.history, e)
  <2> HIDE DEF q, t
  <2> QED
    BY <1>2, <1>6, <1>8, <1>9, LogType
<1> HIDE DEF t, a, q, e
<1>11. \A j \in DOMAIN s : Moves(j, e)
  BY <1>2, <1>3, <1>5, <1>6, <1>10 DEF Moves
<1>13. i \in 0 .. Len(s)
  BY <1>1, <1>2
<1> QED
  BY <1>5, <1>6, <1>10, <1>11, <1>13 DEF Records, e

LEMMA CommentRecords ==
  ASSUME IInv, NEW me \in Devs, Comment(me)
  PROVE  Records(Entry("COMMENTED", me, 0, {}))
<1> DEFINE e == Entry("COMMENTED", me, 0, {})
<1>1. /\ e \in HistoryEntry /\ e.step = 0 /\ e.skipped = {}
      /\ "COMMENTED" \in Events /\ 0 \in Nat /\ {} \in SUBSET Nat
  <2>1. "COMMENTED" \in Events /\ 0 \in Nat /\ {} \in SUBSET Nat
    BY DEF Events
  <2> QED
    BY <2>1, EntryFields
<1>2. req' = Log(req, "COMMENTED", me, 0, {}) /\ req \in Request
  BY DEF Comment, Commented, IInv, TypeOK
<1>3. /\ req'.steps = req.steps /\ req'.status = req.status
      /\ req'.history = Append(req.history, e)
  <2>1. /\ req'.steps = req.steps /\ req'.status = req.status
    BY <1>1, <1>2, LogType
  <2>2. Log(req, "COMMENTED", me, 0, {}).history = Append(req.history, e)
    BY <1>1, <1>2, LogType
  <2> QED
    BY <1>2, <2>1, <2>2
<1>4. Len(req.steps) \in Nat /\ DOMAIN req.steps = 1 .. Len(req.steps)
  BY StepTypes DEF IInv
<1> HIDE DEF e
<1> QED
  BY <1>1, <1>3, <1>4 DEF Records, Moves, SameRow, e

\* The step delegated is accounted for by the new entry, its copy by none, and
\* the successors of earlier delegations keep their place behind them.
LEMMA DelegateKeepsTrail ==
  ASSUME IInv, Trail, NEW i, NEW me, NEW target \in Devs, Delegate(i, me, target)
  PROVE  Trail'
<1> DEFINE n == Len(req.steps)
           s == req.steps
           t == req'.steps
           e == Entry("DELEGATED", me, i, {})
<1>1. /\ n \in Nat /\ i \in 1 .. n /\ DOMAIN s = 1 .. n
      /\ Len(t) = n + 1 /\ DOMAIN t = 1 .. n + 1
      /\ req'.status = req.status /\ req'.history = Append(req.history, e)
      /\ \A j \in 1 .. n :
           /\ SameRow(t[j], s[j])
           /\ t[j].status = IF j = i THEN "DELEGATED" ELSE s[j].status
           /\ t[j].no = IF j # i /\ s[j].no >= s[i].no + 1 THEN s[j].no + 1 ELSE s[j].no
      /\ t[n + 1].no = s[i].no + 1 /\ t[n + 1].rule = s[i].rule
      /\ t[n + 1].index = s[i].index /\ t[n + 1].status = "PENDING" /\ t[n + 1].from = i
  BY DelegateEffect
<1>2. /\ s[i].status = "PENDING" /\ me \in Devs /\ s[i].approver = me
      /\ \A j \in 1 .. n : s[j].no \in Nat /\ s[j].status \in StepStatuses
  BY <1>1, FirstPending, StepTypes DEF IInv, Delegate, EnsureMyPending
<1>3. /\ e \in HistoryEntry /\ e.step = i /\ e.skipped = {}
      /\ e.event = "DELEGATED" /\ e.actor = me
      /\ "DELEGATED" \in Events /\ i \in Nat /\ {} \in SUBSET Nat
  <2>2. i \in 1 .. n /\ n \in Nat
    BY <1>1
  <2>1. "DELEGATED" \in Events /\ i \in Nat /\ {} \in SUBSET Nat
    BY <2>2 DEF Events, Decided
  <2>3. me \in Devs
    BY <1>2
  <2> QED
    BY <2>1, <2>3, EntryFields
<1>4. /\ req.history \in Seq(HistoryEntry)
      /\ \A h \in DOMAIN req.history : /\ req.history[h].step \in 0 .. n
                                       /\ req.history[h].skipped \subseteq 1 .. n
      /\ \A j \in 1 .. n : /\ s[j].from \in 0 .. n
                           /\ Audited(s[j], j, req.history, req.status)
  BY <1>1, HistoryType DEF Trail, IInv
<1>5. /\ n <= n + 1 /\ n + 1 \in Nat
      /\ \A x \in 1 .. n + 1 : x \in 1 .. n \/ x = n + 1
      /\ 1 .. n \subseteq 1 .. n + 1 /\ n + 1 \in 1 .. n + 1 /\ n + 1 \notin 1 .. n
      /\ 0 .. n \subseteq 0 .. n + 1 /\ i \in 0 .. n + 1 /\ n + 1 \notin 0 .. n /\ i # n + 1
  BY <1>1
<1> HIDE DEF n, s, t, e
<1>6. \A h \in DOMAIN req'.history : /\ req'.history[h].step \in 0 .. n + 1
                                     /\ req'.history[h].skipped \subseteq 1 .. n + 1
  <2>1. e.step \in 0 .. n + 1 /\ e.skipped \subseteq 1 .. n + 1
    BY <1>3, <1>5
  <2> QED
    BY <1>1, <1>3, <1>4, <1>5, <2>1, EntriesRefer
<1>7. ASSUME NEW j \in 1 .. n + 1
      PROVE  /\ t[j].from \in 0 .. n + 1
             /\ Audited(t[j], j, req'.history, req'.status)
  <2>1. CASE j = n + 1
    <3>1. Mine(req.history, j) = {} /\ By(req.history, j) = {}
      BY <1>4, <1>5, <2>1 DEF Mine, By
    <3>2. Mine(req'.history, j) = Mine(req.history, j)
      BY <1>1, <1>3, <1>4, <1>5, <2>1, AppendedEntry
    <3>3. By(req'.history, j) = By(req.history, j)
      BY <1>1, <1>3, <1>4, <1>5, <2>1, AppendedEntry
    <3> QED
      BY <1>1, <1>5, <2>1, <3>1, <3>2, <3>3 DEF Audited, Decided
  <2>2. CASE j \in 1 .. n /\ j # i
    <3>1. /\ t[j].status = s[j].status /\ t[j].approver = s[j].approver
          /\ t[j].from = s[j].from
      BY <1>1, <2>2 DEF SameRow
    <3>2. Audited(t[j], j, Append(req.history, e), req'.status)
      BY <1>1, <1>3, <1>4, <2>2, <3>1, AuditKept
    <3> QED
      BY <1>1, <1>4, <1>5, <2>2, <3>1, <3>2
  <2>3. CASE j = i
    <3>1. /\ t[j].status = "DELEGATED" /\ t[j].approver = s[j].approver
          /\ t[j].from = s[j].from /\ t[j].status \in Decided
      BY <1>1, <2>3 DEF SameRow, Decided
    <3>2. Audited(t[j], j, Append(req.history, e), req'.status)
      <4>1. Audited(s[j], j, req.history, req.status) /\ s[j].status = "PENDING"
        BY <1>1, <1>2, <1>4, <2>3
      <4>2. e.step = j /\ j \notin e.skipped /\ e.event = t[j].status /\ e.actor = t[j].approver
        BY <1>2, <1>3, <2>3, <3>1
      <4> QED
        BY <1>3, <1>4, <3>1, <4>1, <4>2, AuditDecided
    <3> QED
      BY <1>1, <1>4, <1>5, <2>3, <3>1, <3>2
  <2> QED
    BY <1>5, <2>1, <2>2, <2>3
<1>8. /\ \A j \in 1 .. n : s[j].from # i
      /\ \A a, b \in 1 .. n : s[b].from = a =>
           s[b].no = s[a].no + 1 /\ s[b].rule = s[a].rule /\ s[b].index = s[a].index
      /\ \A a \in 1 .. n : s[a].status = "DELEGATED" <=> \E b \in 1 .. n : s[b].from = a
  <2>1. /\ \A a \in DOMAIN s : s[a].status = "DELEGATED" <=> \E b \in DOMAIN s : s[b].from = a
        /\ \A a, b \in DOMAIN s : s[b].from = a =>
             s[b].no = s[a].no + 1 /\ s[b].rule = s[a].rule /\ s[b].index = s[a].index
    <3>1. DelegationSuccession
      BY DEF Trail
    <3> QED
      BY <3>1, Zenon DEF DelegationSuccession, s
  <2>2. \A j \in 1 .. n : s[j].from # i
    BY <1>1, <1>2, <2>1
  <2>3. DOMAIN s = 1 .. n
    BY <1>1
  <2> QED
    BY <2>1, <2>2, <2>3, Zenon
<1>9. \A a, b \in 1 .. n : s[a].no = s[b].no => a = b
  BY <1>1 DEF IInv, StepsNumbered, s
<1>10. ASSUME NEW a \in 1 .. n + 1, NEW b \in 1 .. n + 1, t[b].from = a
       PROVE  t[b].no = t[a].no + 1 /\ t[b].rule = t[a].rule /\ t[b].index = t[a].index
  <2>1. CASE b = n + 1
    BY <1>1, <1>5, <1>10, <2>1 DEF SameRow
  <2>2. CASE b \in 1 .. n
    <3>1. t[b].from = s[b].from
      BY <1>1, <2>2 DEF SameRow
    <3>2. a \in 1 .. n /\ a # i
      BY <1>4, <1>5, <1>8, <1>10, <2>2, <3>1
    <3>3. s[b].no = s[a].no + 1 /\ s[b].rule = s[a].rule /\ s[b].index = s[a].index
      BY <1>8, <1>10, <2>2, <3>1, <3>2
    <3>4. t[b].rule = t[a].rule /\ t[b].index = t[a].index
      BY <1>1, <2>2, <3>2, <3>3 DEF SameRow
    <3>5. s[a].no # s[i].no /\ s[a].no \in Nat /\ s[b].no \in Nat /\ s[i].no \in Nat
      BY <1>1, <1>2, <1>9, <2>2, <3>2
    <3>6. t[a].no = IF s[a].no >= s[i].no + 1 THEN s[a].no + 1 ELSE s[a].no
      BY <1>1, <3>2
    <3>7. b # i => t[b].no = IF s[b].no >= s[i].no + 1 THEN s[b].no + 1 ELSE s[b].no
      BY <1>1, <2>2
    <3>8. b = i => t[b].no = s[b].no
      BY <1>1, <2>2
    <3>9. t[b].no = t[a].no + 1
      <4>1. CASE b # i
        BY <3>3, <3>5, <3>6, <3>7, <4>1
      <4>2. CASE b = i
        BY <3>3, <3>5, <3>6, <3>8, <4>2
      <4> QED
        BY <4>1, <4>2
    <3> QED
      BY <3>4, <3>9
  <2> QED
    BY <1>5, <2>1, <2>2
<1>11. ASSUME NEW a \in 1 .. n + 1
       PROVE  t[a].status = "DELEGATED" <=> \E b \in 1 .. n + 1 : t[b].from = a
  <2>1. CASE a = n + 1
    <3>1. \A b \in 1 .. n : t[b].from # n + 1
      <4>1. \A b \in 1 .. n : t[b].from = s[b].from
        BY <1>1 DEF SameRow
      <4>2. \A b \in 1 .. n : s[b].from \in 0 .. n
        BY <1>4
      <4> QED
        BY <1>5, <4>1, <4>2
    <3> QED
      BY <1>1, <1>5, <2>1, <3>1
  <2>2. CASE a = i
    BY <1>1, <1>5, <2>2
  <2>3. CASE a \in 1 .. n /\ a # i
    <3>1. t[a].status = "DELEGATED" <=> \E b \in 1 .. n : s[b].from = a
      BY <1>1, <1>8, <2>3
    <3>2. \A b \in 1 .. n : t[b].from = s[b].from
      BY <1>1 DEF SameRow
    <3> QED
      BY <1>1, <1>5, <2>3, <3>1, <3>2
  <2> QED
    BY <1>5, <2>1, <2>2, <2>3
<1>12. DelegationSuccession'
  <2>1. DOMAIN req'.steps = 1 .. n + 1
    BY <1>1 DEF t
  <2> QED
    BY <1>10, <1>11, <2>1, Zenon DEF DelegationSuccession, t
<1>13. /\ DOMAIN req'.steps = 1 .. n + 1 /\ Len(req'.steps) = n + 1
       /\ \A j \in 1 .. n + 1 : /\ req'.steps[j].from \in 0 .. n + 1
                                 /\ Audited(req'.steps[j], j, req'.history, req'.status)
  <2>1. DOMAIN req'.steps = 1 .. n + 1 /\ Len(req'.steps) = n + 1
    BY <1>1 DEF t
  <2> QED
    BY <1>7, <2>1, Zenon DEF t
<1> QED
  BY <1>6, <1>12, <1>13, Zenon DEF Trail

\* A submission writes pending steps that no entry mentions yet.
LEMMA SubmitKeepsTrail ==
  ASSUME NEW r \in Request, r.steps = << >>, org \in Orgs, Chain(r, org) # << >>,
         \A h \in DOMAIN r.history : r.history[h].step = 0 /\ r.history[h].skipped = {},
         req' = Submitted(r, org)
  PROVE  Trail'
<1> DEFINE e == Entry("SUBMITTED", Requester, 0, {})
<1>1. /\ req' \in Request
      /\ Len(req'.steps) # 0
      /\ \A i \in DOMAIN req'.steps : /\ req'.steps[i].status = "PENDING"
                                      /\ req'.steps[i].from = 0
      /\ req'.history = Append(r.history, e)
  BY SubmittedSteps
<1>2. /\ e \in HistoryEntry /\ e.step = 0 /\ e.skipped = {}
      /\ r.history \in Seq(HistoryEntry)
  <2>1. "SUBMITTED" \in Events /\ Requester \in Devs /\ 0 \in Nat /\ {} \in SUBSET Nat
    BY DevAssumption DEF Events
  <2>2. e \in HistoryEntry /\ e.step = 0 /\ e.skipped = {}
    BY <2>1, EntryFields
  <2> QED
    BY <2>2 DEF Request
<1> HIDE DEF e
<1>3. DOMAIN req'.steps = 1 .. Len(req'.steps) /\ Len(req'.steps) \in Nat
  BY <1>1 DEF Request
<1>4. \A h \in DOMAIN req'.history : req'.history[h].step = 0 /\ req'.history[h].skipped = {}
  BY <1>1, <1>2
<1>5. ASSUME NEW j \in DOMAIN req'.steps
      PROVE  /\ req'.steps[j].from \in 0 .. Len(req'.steps)
             /\ Audited(req'.steps[j], j, req'.history, req'.status)
  <2>1. j # 0
    BY <1>3
  <2>2. Mine(req'.history, j) = {} /\ By(req'.history, j) = {}
    BY <1>4, <2>1 DEF Mine, By
  <2> QED
    BY <1>1, <1>3, <2>2 DEF Audited, Decided
<1>6. DelegationSuccession'
  <2>1. \A i, j \in DOMAIN req'.steps : req'.steps[j].from # i /\ req'.steps[i].status # "DELEGATED"
    BY <1>1, <1>3
  <2> QED
    BY <2>1 DEF DelegationSuccession
<1>7. 0 \in 0 .. Len(req'.steps)
  BY <1>3
<1> QED
  BY <1>4, <1>5, <1>6, <1>7 DEF Trail

\* A request without steps has a trail as soon as its entries mention none.
LEMMA NoStepsTrail ==
  ASSUME req.steps = << >>,
         \A h \in DOMAIN req.history : req.history[h].step = 0 /\ req.history[h].skipped = {}
  PROVE  Trail
BY DEF Trail, DelegationSuccession

LEMMA CreateKeepsTrail ==
  ASSUME IInv, NEW f \in Forms, NEW now \in BOOLEAN, Create(f, now)
  PROVE  Trail'
<1> DEFINE r == NewRequest(tpl, f)
<1>1. r \in Request /\ r.steps = << >> /\ org \in Orgs
  BY NewRequestType DEF IInv, TypeOK
<1>2. \A h \in DOMAIN r.history : r.history[h].step = 0 /\ r.history[h].skipped = {}
  BY DEF NewRequest, Entry
<1>3. CASE now
  <2>1. req' = Submitted(r, org) /\ Chain(r, org) # << >>
    BY <1>3 DEF Create, CanSubmit
  <2> HIDE DEF r
  <2> QED
    BY <1>1, <1>2, <2>1, SubmitKeepsTrail
<1>4. CASE ~now
  <2>1. req' = r
    BY <1>4 DEF Create
  <2> HIDE DEF r
  <2> QED
    BY <1>1, <1>2, <2>1 DEF Trail, DelegationSuccession
<1> QED
  BY <1>3, <1>4

LEMMA SubmitActionKeepsTrail ==
  ASSUME IInv, Trail, Submit
  PROVE  Trail'
<1> DEFINE r == RefreshSlots(req, tpl)
<1>1. r \in Request /\ r.steps = req.steps
  BY RefreshType DEF IInv, TypeOK
<1>2. r.history = req.history
  BY DEF RefreshSlots, IInv, TypeOK, Request
<1>3. req.steps = << >> /\ org \in Orgs
  BY DEF IInv, TypeOK, OutcomeMatchesSteps, Submit
<1>4. \A h \in DOMAIN r.history : r.history[h].step = 0 /\ r.history[h].skipped = {}
  <2>1. Len(req.steps) = 0
    BY <1>3
  <2>2. \A h \in DOMAIN req.history : /\ req.history[h].step \in 0 .. 0
                                      /\ req.history[h].skipped \subseteq 1 .. 0
    BY <2>1 DEF Trail
  <2>3. (\A x \in 0 .. 0 : x = 0) /\ 1 .. 0 = {}
    OBVIOUS
  <2> HIDE DEF r
  <2> QED
    BY <1>2, <2>2, <2>3
<1>5. req' = Submitted(r, org) /\ Chain(r, org) # << >>
  BY DEF Submit, CanSubmit
<1> HIDE DEF r
<1> QED
  BY <1>1, <1>3, <1>4, <1>5, SubmitKeepsTrail

LEMMA OtherActionsKeepTrail ==
  ASSUME IInv, Trail,
         \/ \E f \in Forms : Update(f)
         \/ \E f \in FileIds, editor \in Editors : Upload(f, editor) \/ DeleteFile(f, editor)
         \/ EditTemplate
         \/ Reorganise
         \/ UNCHANGED vars
  PROVE  Trail'
<1>1. req \in Request
  BY DEF IInv, TypeOK
<1>2. /\ req'.steps = req.steps /\ req'.history = req.history
      /\ req'.status = req.status
  BY <1>1 DEF Update, Upload, DeleteFile, EditTemplate, Reorganise, vars, Request
<1> QED
  BY <1>2 DEF Trail, DelegationSuccession

THEOREM NextKeepsTrail == IInv /\ Trail /\ [Next]_vars => Trail'
<1> SUFFICES ASSUME IInv, Trail, [Next]_vars
             PROVE  Trail'
  OBVIOUS
<1>0. TypeOK'
  BY NextKeepsIInv DEF IInv
<1>1. ASSUME NEW f \in Forms, NEW now \in BOOLEAN, Create(f, now)
      PROVE  Trail'
  BY <1>1, CreateKeepsTrail
<1>2. CASE Submit
  BY <1>2, SubmitActionKeepsTrail
<1>3. CASE Cancel
  BY <1>0, <1>3, CancelRecords, RecordsKeepTrail
<1>4. ASSUME NEW me \in Devs, NEW i \in DOMAIN req.steps, Approve(i, me)
      PROVE  Trail'
  BY <1>0, <1>4, ApproveRecords, RecordsKeepTrail
<1>5. ASSUME NEW me \in Devs, NEW i \in DOMAIN req.steps, Reject(i, me)
      PROVE  Trail'
  BY <1>0, <1>5, RejectRecords, RecordsKeepTrail
<1>6. ASSUME NEW me \in Devs, NEW i \in DOMAIN req.steps, NEW target \in Devs,
             Delegate(i, me, target)
      PROVE  Trail'
  BY <1>6, DelegateKeepsTrail
<1>7. ASSUME NEW me \in Devs, Comment(me)
      PROVE  Trail'
  BY <1>0, <1>7, CommentRecords, RecordsKeepTrail
<1>8. CASE \/ \E f \in Forms : Update(f)
           \/ \E f \in FileIds, editor \in Editors :
                Upload(f, editor) \/ DeleteFile(f, editor)
           \/ EditTemplate
           \/ Reorganise
           \/ UNCHANGED vars
  BY <1>8, OtherActionsKeepTrail
<1> QED
  BY <1>1, <1>2, <1>3, <1>4, <1>5, <1>6, <1>7, <1>8 DEF Next

LEMMA TrailInductive == Spec => []Trail
<1>1. Init => Trail
  BY NoStepsTrail DEF Init, NoRequest
<1> QED
  BY <1>1, Inductive, NextKeepsTrail, PTL DEF Spec

(***************************************************************************)
(* A delegated step has exactly one successor, directly behind it, however *)
(* often later delegations shift the numbers (approvals.py:1054-1081).     *)
(***************************************************************************)
THEOREM DelegationsSucceed == Spec => []DelegationSuccession
<1>1. Trail => DelegationSuccession
  BY DEF Trail
<1> QED
  BY <1>1, TrailInductive, PTL

(***************************************************************************)
(* The history accounts for every step: who decided it, which approval     *)
(* skipped it, or that the request was closed over it (_log_history).      *)
(***************************************************************************)
THEOREM HistoryAccountsForSteps == Spec => []AuditTrail
<1>1. Trail => AuditTrail
  <2> SUFFICES ASSUME Trail
               PROVE  AuditTrail
    OBVIOUS
  <2> DEFINE mine(i) == {h \in DOMAIN req.history : req.history[h].step = i}
             by(i)   == {h \in DOMAIN req.history : i \in req.history[h].skipped}
  <2>1. ASSUME NEW i \in DOMAIN req.steps
        PROVE  /\ req.steps[i].status = "PENDING" => mine(i) = {} /\ by(i) = {}
               /\ req.steps[i].status \in Decided =>
                    \E h \in mine(i) : /\ mine(i) = {h} /\ by(i) = {}
                                       /\ req.history[h].event = req.steps[i].status
                                       /\ req.history[h].actor = req.steps[i].approver
               /\ req.steps[i].status = "SKIPPED" =>
                    /\ mine(i) = {}
                    /\ Cardinality(by(i)) <= 1
                    /\ by(i) = {} => req.status \in {"REJECTED", "CANCELLED"}
    <3>1. mine(i) = Mine(req.history, i) /\ by(i) = By(req.history, i)
      BY DEF Mine, By
    <3>2. Audited(req.steps[i], i, req.history, req.status)
      BY DEF Trail
    <3> HIDE DEF mine, by
    <3>3. by(i) = {} \/ Single(by(i)) => Cardinality(by(i)) <= 1
      <4>1. Cardinality({}) = 0 /\ \A h : Cardinality({h}) = 1
        BY FS_EmptySet, FS_Singleton
      <4> QED
        BY <4>1 DEF Single
    <3> QED
      BY <3>1, <3>2, <3>3 DEF Audited
  <2> QED
    BY <2>1, Zenon DEF AuditTrail
<1> QED
  BY <1>1, TrailInductive, PTL

-----------------------------------------------------------------------------
\* Nobody but an administrator touches the attachments of a closed request.
\* A request has finitely many attachments: they come one at a time.
LEMMA FilesStayFinite ==
  ASSUME IInv, IsFiniteSet(req.files), [Next]_vars
  PROVE  IsFiniteSet(req'.files)
<1>1. req \in Request /\ tpl \in Templates /\ org \in Orgs
  BY DEF IInv, TypeOK
<1>2. ASSUME NEW f \in Forms, NEW now \in BOOLEAN, Create(f, now)
      PROVE  req'.files = {}
  <2> DEFINE r == NewRequest(tpl, f)
  <2>1. r \in Request /\ r.files = {}
    BY <1>1, NewRequestType DEF NewRequest
  <2>2. req' = Submitted(r, org) \/ req' = r
    BY <1>2 DEF Create
  <2> HIDE DEF r
  <2> QED
    BY <2>1, <2>2 DEF Submitted, Log, Request
<1>3. CASE Submit
  <2> DEFINE r == RefreshSlots(req, tpl)
  <2>1. r \in Request /\ r.files = req.files
    BY <1>1, RefreshType DEF RefreshSlots, Request
  <2>2. req' = Submitted(r, org)
    BY <1>3 DEF Submit
  <2> HIDE DEF r
  <2> QED
    BY <2>1, <2>2 DEF Submitted, Log, Request
<1>4. CASE Cancel
  BY <1>1, <1>4 DEF Cancel, Cancelled, Log, Request
<1>5. ASSUME NEW me \in Devs, NEW i \in DOMAIN req.steps,
             \/ Approve(i, me)
             \/ Reject(i, me)
             \/ \E target \in Devs : Delegate(i, me, target)
      PROVE  req'.files = req.files
  <2>1. CASE Approve(i, me) \/ Reject(i, me)
    BY <1>1, <2>1 DEF Approve, Approved, Reject, Rejected, Log, Request
  <2>2. ASSUME NEW target \in Devs, Delegate(i, me, target)
        PROVE  req'.files = req.files
    BY <1>1, <2>2 DEF Delegate, Delegated, Log, Request
  <2> QED
    BY <1>5, <2>1, <2>2
<1>6. ASSUME NEW me \in Devs, Comment(me)
      PROVE  req'.files = req.files
  BY <1>1, <1>6 DEF Comment, Commented, Log, Request
<1>7. ASSUME NEW f \in Forms, Update(f)
      PROVE  req'.files = req.files
  BY <1>1, <1>7 DEF Update, Request
<1>8. ASSUME NEW f \in FileIds, NEW editor \in Editors,
             Upload(f, editor) \/ DeleteFile(f, editor)
      PROVE  IsFiniteSet(req'.files)
  <2>1. req'.files = req.files \cup {f} \/ req'.files = req.files \ {f}
    BY <1>1, <1>8 DEF Upload, DeleteFile, Request
  <2> QED
    BY <2>1, FS_AddElement, FS_RemoveElement
<1>9. CASE EditTemplate \/ Reorganise \/ UNCHANGED vars
  BY <1>9 DEF EditTemplate, Reorganise, vars
<1> QED
  BY <1>2, <1>3, <1>4, <1>5, <1>6, <1>7, <1>8, <1>9, FS_EmptySet DEF Next

AdminDeletes == \E f \in FileIds : "admin" \in Editors /\ DeleteFile(f, "admin")

LEMMA ApprovedKeepsFiles ==
  ASSUME IInv, IsFiniteSet(req.files), [Next]_vars,
         ShortOfFiles(req'), ~ShortOfFiles(req)
  PROVE  AdminDeletes
<1>1. req \in Request /\ tpl \in Templates /\ org \in Orgs
  BY DEF IInv, TypeOK
<1>2. ASSUME NEW f \in Forms, NEW now \in BOOLEAN, Create(f, now)
      PROVE  FALSE
  <2> DEFINE r == NewRequest(tpl, f)
  <2>1. r \in Request /\ r.steps = << >> /\ r.status = "DRAFT"
    BY <1>1, NewRequestType
  <2>2. now => req' = Submitted(r, org) /\ Chain(r, org) # << >>
    BY <1>2 DEF Create, CanSubmit
  <2>3. ~now => req' = r
    BY <1>2 DEF Create
  <2> HIDE DEF r
  <2> QED
    BY <1>1, <2>1, <2>2, <2>3, SubmittedSteps DEF ShortOfFiles
<1>3. CASE Submit
  <2> DEFINE r == RefreshSlots(req, tpl)
  <2>1. r \in Request /\ r.steps = << >>
    BY <1>1, <1>3, RefreshType DEF IInv, OutcomeMatchesSteps, Submit
  <2>2. req' = Submitted(r, org) /\ Chain(r, org) # << >>
    BY <1>3 DEF Submit, CanSubmit
  <2> HIDE DEF r
  <2>3. req'.status = "IN_PROGRESS"
    BY <1>1, <2>1, <2>2, SubmittedSteps
  <2> QED
    BY <2>3 DEF ShortOfFiles
<1>4. CASE Cancel
  <2>1. req'.status = "CANCELLED"
    BY <1>1, <1>4 DEF Cancel, Cancelled, Log, Request
  <2> QED
    BY <2>1 DEF ShortOfFiles
<1>5. ASSUME NEW me \in Devs, NEW i \in DOMAIN req.steps, Approve(i, me)
      PROVE  FALSE
  <2>1. req'.slots = req.slots /\ req'.files = req.files
    BY <1>1, <1>5 DEF Approve, Approved, Log, Request
  <2>2. req.slots # NoSlots => Cardinality(req.files) >= req.slots.need
    BY <1>5 DEF Approve, HasRequiredFiles, SlotsInForce
  <2> QED
    BY <2>1, <2>2 DEF ShortOfFiles
<1>6. ASSUME NEW me \in Devs, NEW i \in DOMAIN req.steps, Reject(i, me)
      PROVE  FALSE
  <2>1. req'.status = "REJECTED"
    BY <1>1, <1>6 DEF Reject, Rejected, Log, Request
  <2> QED
    BY <2>1 DEF ShortOfFiles
<1>7. ASSUME NEW me \in Devs, NEW i \in DOMAIN req.steps, NEW target \in Devs,
             Delegate(i, me, target)
      PROVE  FALSE
  <2>1. req.status \in Open
    BY <1>7 DEF Delegate, EnsureMyPending
  <2>2. req'.status = req.status
    BY <1>7, DelegateEffect
  <2> QED
    BY <2>1, <2>2 DEF ShortOfFiles, Open
<1>8. ASSUME NEW me \in Devs, Comment(me)
      PROVE  FALSE
  <2>1. req'.slots = req.slots /\ req'.files = req.files /\ req'.status = req.status
    BY <1>1, <1>8 DEF Comment, Commented, Log, Request
  <2> QED
    BY <2>1 DEF ShortOfFiles
<1>9. ASSUME NEW f \in Forms, Update(f)
      PROVE  FALSE
  <2>1. req'.status = "DRAFT"
    BY <1>1, <1>9 DEF Update, Request
  <2> QED
    BY <2>1 DEF ShortOfFiles
<1>10. ASSUME NEW f \in FileIds, NEW editor \in Editors,
              Upload(f, editor) \/ DeleteFile(f, editor)
       PROVE  AdminDeletes
  <2>1. req'.status = req.status /\ req'.slots = req.slots
    BY <1>1, <1>10 DEF Upload, DeleteFile, Request
  <2>2. req.status = "APPROVED"
    BY <2>1 DEF ShortOfFiles
  <2>3. editor = "admin"
    BY <1>10, <2>2 DEF Upload, DeleteFile, CanUpload, CanModifyFiles, Closed
  <2>4. CASE DeleteFile(f, editor)
    BY <2>3, <2>4 DEF AdminDeletes
  <2>5. CASE Upload(f, editor)
    <3>1. req'.files = req.files \cup {f} /\ f \notin req.files
      BY <1>1, <2>5 DEF Upload, Request
    <3>2. Cardinality(req'.files) = Cardinality(req.files) + 1 /\ Cardinality(req.files) \in Nat
      BY <3>1, FS_AddElement, FS_CardinalityType
    <3>3. req.slots # NoSlots /\ ~(Cardinality(req'.files) >= req.slots.need)
      BY <2>1 DEF ShortOfFiles
    <3>4. Cardinality(req.files) >= req.slots.need
      BY <2>2, <3>3 DEF ShortOfFiles
    <3>5. req.slots.need \in Nat
      BY <1>1, <3>3 DEF Request
    <3> QED
      BY <3>2, <3>3, <3>4, <3>5
  <2> QED
    BY <1>10, <2>4, <2>5
<1>11. CASE EditTemplate \/ Reorganise \/ UNCHANGED vars
  <2>1. req' = req
    BY <1>11 DEF EditTemplate, Reorganise, vars
  <2> QED
    BY <2>1 DEF ShortOfFiles
<1> QED
  BY <1>2, <1>3, <1>4, <1>5, <1>6, <1>7, <1>8, <1>9, <1>10, <1>11
     DEF Next

(***************************************************************************)
(* A request is approved with the attachments it was required to have, and *)
(* loses one afterwards only to an ADMIN or HR (approvals.py:943, 1180):   *)
(* whoever may edit attachments, each approval checks them, and nobody     *)
(* else removes them once the request is closed.                           *)
(***************************************************************************)
THEOREM ApprovedWithFiles == Spec => ApprovedHasFiles
<1> DEFINE fin == IsFiniteSet(req.files)
<1>1. Init => fin
  BY FS_EmptySet DEF Init, NoRequest
<1>2. IInv /\ fin /\ [Next]_vars => fin'
  BY FilesStayFinite
<1>3. IInv /\ fin /\ [Next]_vars =>
        [ShortOfFiles(req') =>
           ShortOfFiles(req) \/ \E f \in FileIds : "admin" \in Editors /\ DeleteFile(f, "admin")]_vars
  BY ApprovedKeepsFiles DEF AdminDeletes
<1> QED
  BY <1>1, <1>2, <1>3, Inductive, PTL DEF Spec, ApprovedHasFiles
=============================================================================
