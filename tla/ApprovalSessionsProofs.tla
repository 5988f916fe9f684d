---------------------- MODULE ApprovalSessionsProofs ----------------------
(***************************************************************************)
(* What survives when any number of approval handlers overlap: a step that *)
(* has been decided or skipped is never put back on somebody's desk, no    *)
(* step changes hands, the requester never gets one, every decision has    *)
(* its entry and files exceed their slot by a bounded number.  And what a  *)
(* handler alone does: exactly what ApprovalFlow says.                     *)
(*                                                                         *)
(* The arguments are about what a handler makes of the request it loaded   *)
(* (Outcome) and about what its commit writes of that (Merge).  How old    *)
(* the loaded request is does not matter, but for the last theorem.        *)
(***************************************************************************)
EXTENDS ApprovalSessions, ApprovalRulesProofs, SequenceTheorems, FiniteSetTheorems

\* A row of approval_steps that is not the requester's.
Row == [no : Nat, approver : Devs \ {Requester}, rule : Nat, index : Nat,
        status : StepStatuses, from : Nat]

Columns == {"status", "form", "rules", "slots", "steps", "history", "files"}

IsRequest(r) ==
  /\ r = [x \in Columns |-> r[x]]
  /\ r.rules \in Seq(Rules)
  /\ r.steps \in Seq(Row)

\* The steps of r are still there in q, with their approvers, and none of them
\* has become pending.  Nor does the request itself vanish.
Continues(r, q) ==
  /\ q.status # r.status => q.status # "NONE"
  /\ Len(r.steps) <= Len(q.steps)
  /\ \A i \in 1 .. Len(r.steps) :
       /\ q.steps[i].approver = r.steps[i].approver
       /\ q.steps[i].status # r.steps[i].status => q.steps[i].status # "PENDING"

Ops == {"update", "submit", "cancel", "approve", "reject", "delegate", "comment",
        "upload", "deletefile"}

IsSession(s) ==
  \/ s = Idle
  \/ /\ s.op \in Ops
     /\ IsRequest(s.snap)
     /\ s.op \in {"approve", "reject", "delegate"} => s.step \in 1 .. Len(s.snap.steps)
     /\ s.op = "delegate" => s.arg \in Devs \ {Requester}

\* Before the request exists nobody works on it.
NothingYet ==
  req.status = "NONE" => /\ req.steps = << >>
                         /\ req.files = {}
                         /\ \A h \in Handlers : session[h] = Idle

SInv ==
  /\ NothingYet
  /\ org \in Orgs
  /\ tpl \in Templates
  /\ IsRequest(req)
  /\ session = [h \in Handlers |-> session[h]]
  /\ \A h \in Handlers : IsSession(session[h])

-----------------------------------------------------------------------------
\* A history entry changes nothing else.
LEMMA LogKeeps ==
  ASSUME NEW r, IsRequest(r), NEW ev, NEW me, NEW i, NEW sk
  PROVE  /\ IsRequest(Log(r, ev, me, i, sk))
         /\ Log(r, ev, me, i, sk).steps = r.steps
         /\ Log(r, ev, me, i, sk).rules = r.rules
         /\ Log(r, ev, me, i, sk).status = r.status
BY DEF IsRequest, Columns, Log

\* A function on 1 .. n is a sequence.
LEMMA SeqOf ==
  ASSUME NEW S, NEW n \in Nat, NEW f, f = [j \in 1 .. n |-> f[j]],
         \A j \in 1 .. n : f[j] \in S
  PROVE  f \in Seq(S) /\ Len(f) = n
OBVIOUS

\* Giving some steps a status that is not PENDING.
LEMMA SetStatusContinues ==
  ASSUME NEW s \in Seq(Row), NEW ids, NEW v \in StepStatuses \ {"PENDING"}
  PROVE  /\ SetStatus(s, ids, v) \in Seq(Row)
         /\ Len(SetStatus(s, ids, v)) = Len(s)
         /\ \A i \in 1 .. Len(s) :
              /\ SetStatus(s, ids, v)[i].approver = s[i].approver
              /\ SetStatus(s, ids, v)[i].status \in {s[i].status, v}
<1> DEFINE t == [j \in 1 .. Len(s) |->
                   IF j \in ids THEN [s[j] EXCEPT !.status = v] ELSE s[j]]
<1>1. Len(s) \in Nat /\ DOMAIN s = 1 .. Len(s) /\ \A j \in 1 .. Len(s) : s[j] \in Row
  OBVIOUS
<1>2. SetStatus(s, ids, v) = t
  BY <1>1 DEF SetStatus
<1>3. \A j \in 1 .. Len(s) : /\ t[j] \in Row
                             /\ t[j].approver = s[j].approver
                             /\ t[j].status \in {s[j].status, v}
  BY <1>1 DEF Row
<1>4. t \in Seq(Row) /\ Len(t) = Len(s)
  BY <1>1, <1>3
<1> QED
  BY <1>2, <1>3, <1>4

-----------------------------------------------------------------------------
\* What each handler makes of the request it loaded.
LEMMA SubmitOutcome ==
  ASSUME NEW r, IsRequest(r), NEW o \in Orgs
  PROVE  IsRequest(Submitted(r, o)) /\ Continues(r, Submitted(r, o))
<1> DEFINE c == Chain(r, o)
           new == [i \in 1 .. Len(c) |-> NewStep(c[i])]
           q == [r EXCEPT !.steps = r.steps \o new, !.status = "IN_PROGRESS"]
<1>1. IsChain(c)
  <2>1. r.rules \in Seq(Rules) /\ IsOrg(o)
    BY SessionsAssumption DEF IsRequest
  <2> QED
    BY <2>1, EvaluatedIsChain DEF Chain
<1>2. /\ Len(c) \in Nat
      /\ \A i \in 1 .. Len(c) : c[i] \in ChainSteps /\ c[i].approver # Requester
  <2> HIDE DEF c
  <2> QED
    BY <1>1 DEF IsChain
<1>3. \A i \in 1 .. Len(c) : NewStep(c[i]) \in Row
  <2> HIDE DEF c
  <2> QED
    BY <1>2 DEF NewStep, Row, ChainSteps, StepStatuses
<1>4. new \in Seq(Row)
  <2> HIDE DEF c
  <2> QED
    BY <1>2, <1>3
<1>5. r.steps \in Seq(Row)
  BY DEF IsRequest
<1> HIDE DEF new
<1>6. r.steps \o new \in Seq(Row)
  BY <1>4, <1>5
<1>7. /\ Len(r.steps) <= Len(r.steps \o new)
      /\ \A i \in 1 .. Len(r.steps) : (r.steps \o new)[i] = r.steps[i]
  BY <1>4, <1>5
<1>8. IsRequest(q) /\ q.steps = r.steps \o new /\ q.status = "IN_PROGRESS"
  BY <1>6 DEF IsRequest, Columns
<1>9. Submitted(r, o) = Log(q, "SUBMITTED", Requester, 0, {})
  BY DEF Submitted, new
<1> HIDE DEF q
<1> QED
  BY <1>7, <1>8, <1>9, LogKeeps DEF Continues

LEMMA CancelOutcome ==
  ASSUME NEW r, IsRequest(r)
  PROVE  IsRequest(Cancelled(r)) /\ Continues(r, Cancelled(r))
<1> DEFINE t == SetStatus(r.steps, Pending(r.steps), "SKIPPED")
           q == [r EXCEPT !.status = "CANCELLED", !.steps = t]
<1>1. r.steps \in Seq(Row) /\ "SKIPPED" \in StepStatuses \ {"PENDING"}
  BY DEF IsRequest, StepStatuses
<1>2. /\ t \in Seq(Row) /\ Len(t) = Len(r.steps) /\ Len(r.steps) \in Nat
      /\ \A i \in 1 .. Len(r.steps) : /\ t[i].approver = r.steps[i].approver
                                      /\ t[i].status \in {r.steps[i].status, "SKIPPED"}
  BY <1>1, SetStatusContinues
<1>3. Cancelled(r) = Log(q, "CANCELLED", Requester, 0, {})
  BY DEF Cancelled
<1> HIDE DEF t
<1>4. IsRequest(q) /\ q.steps = t /\ q.status = "CANCELLED"
  BY <1>2 DEF IsRequest, Columns
<1> HIDE DEF q
<1> QED
  BY <1>2, <1>3, <1>4, LogKeeps DEF Continues

LEMMA ApproveOutcome ==
  ASSUME NEW r, IsRequest(r), NEW o, NEW i, NEW me
  PROVE  IsRequest(Approved(r, o, i, me)) /\ Continues(r, Approved(r, o, i, me))
<1> DEFINE skipped == AutoSkipped(r, o, i)
           t == SetStatus(r.steps, {i}, "APPROVED")
           u == SetStatus(t, skipped, "SKIPPED")
           st == IF Pending(u) = {} THEN "APPROVED" ELSE r.status
           q == [r EXCEPT !.steps = u, !.status = st]
<1>1. /\ r.steps \in Seq(Row)
      /\ {"SKIPPED", "APPROVED"} \subseteq StepStatuses \ {"PENDING"}
  BY DEF IsRequest, StepStatuses, Decided
<1>2. /\ t \in Seq(Row) /\ Len(t) = Len(r.steps) /\ Len(r.steps) \in Nat
      /\ \A j \in 1 .. Len(r.steps) : /\ t[j].approver = r.steps[j].approver
                                      /\ t[j].status \in {r.steps[j].status, "APPROVED"}
  BY <1>1, SetStatusContinues
<1> HIDE DEF t
<1>3. /\ u \in Seq(Row) /\ Len(u) = Len(t)
      /\ \A j \in 1 .. Len(t) : /\ u[j].approver = t[j].approver
                                /\ u[j].status \in {t[j].status, "SKIPPED"}
  BY <1>1, <1>2, SetStatusContinues
<1>4. Approved(r, o, i, me) = Log(q, "APPROVED", me, i, skipped)
  BY DEF Approved, t
<1> HIDE DEF u
<1>5. IsRequest(q) /\ q.steps = u /\ q.status \in {"APPROVED", r.status}
  <2>1. st \in {"APPROVED", r.status}
    OBVIOUS
  <2> HIDE DEF st
  <2> QED  BY <1>3, <2>1 DEF IsRequest, Columns
<1> HIDE DEF q, skipped
<1> QED
  BY <1>2, <1>3, <1>4, <1>5, LogKeeps, SMTT(30) DEF Continues

LEMMA RejectOutcome ==
  ASSUME NEW r, IsRequest(r), NEW i, NEW me
  PROVE  IsRequest(Rejected(r, i, me)) /\ Continues(r, Rejected(r, i, me))
<1> DEFINE later == {j \in Pending(r.steps) : r.steps[j].no > r.steps[i].no}
           t == SetStatus(r.steps, {i}, "REJECTED")
           u == SetStatus(t, later, "SKIPPED")
           q == [r EXCEPT !.steps = u, !.status = "REJECTED"]
<1>1. /\ r.steps \in Seq(Row)
      /\ {"SKIPPED", "REJECTED"} \subseteq StepStatuses \ {"PENDING"}
  BY DEF IsRequest, StepStatuses, Decided
<1>2. /\ t \in Seq(Row) /\ Len(t) = Len(r.steps) /\ Len(r.steps) \in Nat
      /\ \A j \in 1 .. Len(r.steps) : /\ t[j].approver = r.steps[j].approver
                                      /\ t[j].status \in {r.steps[j].status, "REJECTED"}
  BY <1>1, SetStatusContinues
<1> HIDE DEF t
<1>3. /\ u \in Seq(Row) /\ Len(u) = Len(t)
      /\ \A j \in 1 .. Len(t) : /\ u[j].approver = t[j].approver
                                /\ u[j].status \in {t[j].status, "SKIPPED"}
  BY <1>1, <1>2, SetStatusContinues
<1>4. Rejected(r, i, me) = Log(q, "REJECTED", me, i, {})
  BY DEF Rejected, t
<1> HIDE DEF u
<1>5. IsRequest(q) /\ q.steps = u /\ q.status = "REJECTED"
  BY <1>3 DEF IsRequest, Columns
<1> HIDE DEF q
<1> QED
  BY <1>2, <1>3, <1>4, <1>5, LogKeeps DEF Continues

LEMMA DelegateOutcome ==
  ASSUME NEW r, IsRequest(r), NEW i \in 1 .. Len(r.steps), NEW me,
         NEW target \in Devs \ {Requester}
  PROVE  IsRequest(Delegated(r, i, me, target)) /\ Continues(r, Delegated(r, i, me, target))
<1> DEFINE n == Len(r.steps)
           newNo == r.steps[i].no + 1
           moved == [j \in DOMAIN r.steps |->
                       IF j = i THEN [r.steps[j] EXCEPT !.status = "DELEGATED"]
                       ELSE IF r.steps[j].no >= newNo THEN [r.steps[j] EXCEPT !.no = @ + 1]
                       ELSE r.steps[j]]
           copy == [no |-> newNo, approver |-> target, rule |-> r.steps[i].rule,
                    index |-> r.steps[i].index, status |-> "PENDING", from |-> i]
           v == Append(moved, copy)
           q == [r EXCEPT !.steps = v]
<1>1. /\ r.steps \in Seq(Row) /\ n \in Nat /\ DOMAIN r.steps = 1 .. n
      /\ \A j \in 1 .. n : r.steps[j] \in Row
      /\ "DELEGATED" \in StepStatuses /\ "PENDING" \in StepStatuses
  <2>1. r.steps \in Seq(Row)
    BY DEF IsRequest
  <2> QED
    BY <2>1 DEF StepStatuses, Decided
<1>2. copy \in Row
  <2>1. r.steps[i] \in Row
    BY <1>1
  <2>2. r.steps[i].no \in Nat /\ r.steps[i].rule \in Nat /\ r.steps[i].index \in Nat
    BY <2>1 DEF Row
  <2>3. newNo \in Nat /\ i \in Nat
    BY <1>1, <2>2
  <2> HIDE DEF newNo, n, moved
  <2> QED
    BY <1>1, <2>2, <2>3 DEF Row
<1>3. ASSUME NEW j \in 1 .. n
      PROVE  /\ moved[j] \in Row
             /\ moved[j].approver = r.steps[j].approver
             /\ moved[j].status \in {r.steps[j].status, "DELEGATED"}
  <2>1. r.steps[j] \in Row
    BY <1>1
  <2>2. CASE j = i
    BY <1>1, <2>1, <2>2 DEF Row
  <2>3. CASE j # i /\ r.steps[j].no >= newNo
    <3>1. moved[j] = [r.steps[j] EXCEPT !.no = r.steps[j].no + 1]
      BY <1>1, <2>3
    <3>2. r.steps[j].no + 1 \in Nat
      BY <2>1 DEF Row
    <3> HIDE DEF moved
    <3> QED
      BY <2>1, <3>1, <3>2 DEF Row
  <2>4. CASE j # i /\ ~ (r.steps[j].no >= newNo)
    BY <1>1, <2>1, <2>4
  <2> QED
    BY <2>2, <2>3, <2>4
<1>4. moved \in Seq(Row) /\ Len(moved) = n
  <2>1. moved = [j \in 1 .. n |-> moved[j]]
    BY <1>1
  <2> HIDE DEF moved, n
  <2> QED
    BY <1>1, <1>3, <2>1, SeqOf
<1> HIDE DEF copy, moved
<1>5. /\ v \in Seq(Row) /\ Len(v) = n + 1
      /\ \A j \in 1 .. n : v[j] = moved[j]
  BY <1>1, <1>2, <1>4
<1>6. Delegated(r, i, me, target) = Log(q, "DELEGATED", me, i, {})
  BY DEF Delegated, moved, copy
<1> HIDE DEF v
<1>7. IsRequest(q) /\ q.steps = v /\ q.status = r.status
  BY <1>5 DEF IsRequest, Columns
<1> HIDE DEF q
<1>8. Continues(r, q)
  BY <1>1, <1>3, <1>5, <1>7 DEF Continues
<1> QED
  BY <1>6, <1>7, <1>8, LogKeeps DEF Continues

\* Handlers that leave the steps alone.
LEMMA SameStepsOutcome ==
  ASSUME NEW r, IsRequest(r), NEW x
  PROVE  /\ IsRequest([r EXCEPT !.form = x]) /\ Continues(r, [r EXCEPT !.form = x])
         /\ IsRequest([r EXCEPT !.files = x]) /\ Continues(r, [r EXCEPT !.files = x])
         /\ IsRequest([r EXCEPT !.slots = x]) /\ [r EXCEPT !.slots = x].steps = r.steps
         /\ [r EXCEPT !.slots = x].status = r.status
<1>1. Len(r.steps) \in Nat
  <2>1. r.steps \in Seq(Row)
    BY DEF IsRequest
  <2> QED  BY <2>1
<1>2. /\ IsRequest([r EXCEPT !.form = x])  /\ [r EXCEPT !.form = x].steps = r.steps
      /\ [r EXCEPT !.form = x].status = r.status /\ [r EXCEPT !.files = x].status = r.status
      /\ IsRequest([r EXCEPT !.files = x]) /\ [r EXCEPT !.files = x].steps = r.steps
      /\ IsRequest([r EXCEPT !.slots = x]) /\ [r EXCEPT !.slots = x].steps = r.steps
      /\ [r EXCEPT !.slots = x].status = r.status
  BY DEF IsRequest, Columns
<1> QED
  BY <1>1, <1>2 DEF Continues

LEMMA OutcomeContinues ==
  ASSUME NEW s, IsSession(s), s # Idle, org \in Orgs
  PROVE  IsRequest(Outcome(s)) /\ Continues(s.snap, Outcome(s))
<1> DEFINE r == s.snap
<1>1. s.op \in Ops /\ IsRequest(r)
  BY DEF IsSession
<1> HIDE DEF r
<1>2. CASE s.op = "update"
  <2>1. Outcome(s) = [r EXCEPT !.form = s.arg]
    BY <1>2 DEF Outcome, r
  <2>2. IsRequest([r EXCEPT !.form = s.arg]) /\ Continues(r, [r EXCEPT !.form = s.arg])
    BY <1>1, SameStepsOutcome
  <2> QED
    BY <2>1, <2>2 DEF r
<1>3. CASE s.op = "submit"
  <2> DEFINE q == RefreshSlots(r, tpl)
  <2>1. Outcome(s) = Submitted(q, org)
    BY <1>3 DEF Outcome, r
  <2>2. IsRequest(q) /\ q.steps = r.steps /\ q.status = r.status
    <3>1. /\ IsRequest([r EXCEPT !.slots = tpl.slots])
          /\ [r EXCEPT !.slots = tpl.slots].steps = r.steps
          /\ [r EXCEPT !.slots = tpl.slots].status = r.status
      BY <1>1, SameStepsOutcome
    <3> QED
      BY <1>1, <3>1 DEF RefreshSlots
  <2> HIDE DEF q
  <2>3. IsRequest(Submitted(q, org)) /\ Continues(q, Submitted(q, org))
    BY <2>2, SubmitOutcome
  <2> QED
    BY <2>1, <2>2, <2>3 DEF Continues, r
<1>4. CASE s.op = "cancel"
  <2>1. Outcome(s) = Cancelled(r)
    BY <1>4 DEF Outcome, r
  <2> QED
    BY <1>1, <2>1, CancelOutcome DEF r
<1>5. CASE s.op = "approve"
  <2>1. Outcome(s) = Approved(r, org, s.step, s.me)
    BY <1>5 DEF Outcome, r
  <2> QED
    BY <1>1, <2>1, ApproveOutcome DEF r
<1>6. CASE s.op = "reject"
  <2>1. Outcome(s) = Rejected(r, s.step, s.me)
    BY <1>6 DEF Outcome, r
  <2> QED
    BY <1>1, <2>1, RejectOutcome DEF r
<1>7. CASE s.op = "delegate"
  <2>1. Outcome(s) = Delegated(r, s.step, s.me, s.arg)
    BY <1>7 DEF Outcome, r
  <2>2. s.step \in 1 .. Len(r.steps) /\ s.arg \in Devs \ {Requester}
    BY <1>7 DEF IsSession, r
  <2> QED
    BY <1>1, <2>1, <2>2, DelegateOutcome DEF r
<1>8. CASE s.op = "comment"
  <2>1. Outcome(s) = Log(r, "COMMENTED", s.me, 0, {})
    BY <1>8 DEF Outcome, Commented, r
  <2>2. Len(r.steps) \in Nat
    <3>1. r.steps \in Seq(Row)
      BY <1>1 DEF IsRequest
    <3> QED  BY <3>1
  <2> QED
    BY <1>1, <2>1, <2>2, LogKeeps DEF r, Continues
<1>9. CASE s.op \in {"upload", "deletefile"}
  <2>1. \E x : Outcome(s) = [r EXCEPT !.files = x]
    BY <1>9 DEF Outcome, r
  <2>2. PICK x : Outcome(s) = [r EXCEPT !.files = x]
    BY <2>1
  <2>3. IsRequest([r EXCEPT !.files = x]) /\ Continues(r, [r EXCEPT !.files = x])
    BY <1>1, SameStepsOutcome
  <2> QED
    BY <2>2, <2>3 DEF r
<1> QED
  BY <1>1, <1>2, <1>3, <1>4, <1>5, <1>6, <1>7, <1>8, <1>9 DEF Ops

-----------------------------------------------------------------------------
\* A commit writes statuses and numbers and adds rows: whatever the request
\* has become meanwhile, no step of it becomes pending or changes hands.
LEMMA MergeContinues ==
  ASSUME NEW old, IsRequest(old), NEW new, IsRequest(new), Continues(old, new),
         NEW now, IsRequest(now)
  PROVE  /\ IsRequest(Merge(old, new, now))
         /\ LET q == Merge(old, new, now)
            IN  /\ now.status # "NONE" => q.status # "NONE"
                /\ Len(now.steps) <= Len(q.steps)
                /\ \A i \in 1 .. Len(now.steps) :
                     /\ q.steps[i].approver = now.steps[i].approver
                     /\ now.steps[i].status # "PENDING" => q.steps[i].status # "PENDING"
<1> DEFINE q == Merge(old, new, now)
           n == Len(now.steps)
           kept == [j \in DOMAIN now.steps |->
                      IF j \in DOMAIN old.steps
                      THEN WrittenRow(old.steps[j], new.steps[j], now.steps[j])
                      ELSE now.steps[j]]
           added == Added(old.steps, new.steps)
<1>1. /\ old.steps \in Seq(Row) /\ Len(old.steps) \in Nat
      /\ DOMAIN old.steps = 1 .. Len(old.steps)
      /\ \A j \in 1 .. Len(old.steps) : old.steps[j] \in Row
  <2>1. old.steps \in Seq(Row)
    BY DEF IsRequest
  <2> QED  BY <2>1
<1>2. /\ new.steps \in Seq(Row) /\ Len(new.steps) \in Nat
      /\ \A j \in 1 .. Len(new.steps) : new.steps[j] \in Row
  <2>1. new.steps \in Seq(Row)
    BY DEF IsRequest
  <2> QED  BY <2>1
<1>3. /\ now.steps \in Seq(Row) /\ n \in Nat /\ DOMAIN now.steps = 1 .. n
      /\ \A j \in 1 .. n : now.steps[j] \in Row
      /\ now.rules \in Seq(Rules)
  <2>1. now.steps \in Seq(Row) /\ now.rules \in Seq(Rules)
    BY DEF IsRequest
  <2> QED  BY <2>1
<1>4. ASSUME NEW j \in 1 .. n
      PROVE  /\ kept[j] \in Row
             /\ kept[j].approver = now.steps[j].approver
             /\ now.steps[j].status # "PENDING" => kept[j].status # "PENDING"
  <2>1. now.steps[j] \in Row
    BY <1>3
  <2>2. CASE j \in 1 .. Len(old.steps)
    <3>1. j \in 1 .. Len(new.steps)
      BY <1>1, <1>2, <2>2 DEF Continues
    <3>2. /\ old.steps[j] \in Row /\ new.steps[j] \in Row
          /\ new.steps[j].status # old.steps[j].status => new.steps[j].status # "PENDING"
      BY <1>1, <1>2, <2>2, <3>1 DEF Continues
    <3>3. kept[j] = WrittenRow(old.steps[j], new.steps[j], now.steps[j])
      BY <1>1, <1>3, <2>2
    <3> HIDE DEF kept
    <3>4. /\ kept[j] = [now.steps[j] EXCEPT
                          !.no = Written(old.steps[j].no, new.steps[j].no, now.steps[j].no),
                          !.status = Written(old.steps[j].status, new.steps[j].status,
                                             now.steps[j].status)]
      BY <3>3 DEF WrittenRow
    <3>5. /\ Written(old.steps[j].no, new.steps[j].no, now.steps[j].no) \in Nat
          /\ Written(old.steps[j].status, new.steps[j].status, now.steps[j].status)
               \in StepStatuses
          /\ now.steps[j].status # "PENDING" =>
               Written(old.steps[j].status, new.steps[j].status, now.steps[j].status)
                 # "PENDING"
      BY <2>1, <3>2 DEF Written, Row
    <3> QED
      BY <2>1, <3>4, <3>5 DEF Row
  <2>3. CASE j \notin 1 .. Len(old.steps)
    BY <1>1, <1>3, <2>1, <2>3
  <2> QED
    BY <2>2, <2>3
<1>5. kept \in Seq(Row) /\ Len(kept) = n
  <2>1. kept = [j \in 1 .. n |-> kept[j]]
    BY <1>3
  <2> HIDE DEF kept, n
  <2> QED
    BY <1>3, <1>4, <2>1, SeqOf
<1>6. added \in Seq(Row)
  <2>1. Len(old.steps) <= Len(new.steps)
    BY DEF Continues
  <2>2. /\ Len(old.steps) + 1 \in 1 .. Len(new.steps) + 1
        /\ Len(new.steps) \in Len(old.steps) + 1 - 1 .. Len(new.steps)
    BY <1>1, <1>2, <2>1
  <2> QED
    BY <1>2, <2>2, SubSeqProperties DEF Added
<1> HIDE DEF kept, added
<1>7. /\ kept \o added \in Seq(Row)
      /\ n <= Len(kept \o added)
      /\ \A j \in 1 .. n : (kept \o added)[j] = kept[j]
  BY <1>3, <1>5, <1>6
<1>8. IsRequest(q) /\ q.steps = kept \o added
  <2>1. q.steps = kept \o added /\ q.rules = now.rules
    BY DEF Merge, kept, added
  <2>2. q = [x \in Columns |-> q[x]]
    BY DEF Merge, Columns
  <2> HIDE DEF q
  <2> QED
    BY <1>3, <1>7, <2>1, <2>2 DEF IsRequest
<1>9. now.status # "NONE" => q.status # "NONE"
  BY DEF Merge, Written, Continues
<1> HIDE DEF q
<1> QED
  BY <1>4, <1>7, <1>8, <1>9 DEF q
-----------------------------------------------------------------------------
\* The request that create_request builds, in ApprovalFlow and here.
LEMMA FlowChain ==
  ASSUME NEW r, NEW o
  PROVE  Flow!Chain(r, o) = Chain(r, o)
BY ZenonT(60) DEF Chain, EvaluateRules, FindMatchingRule, ResolveAll, ResolveStep,
       Redundant, ApproversOf, ResolveApprover, Meets, ManagerChain,
       Flow!Chain, Flow!EvaluateRules, Flow!FindMatchingRule, Flow!ResolveAll,
       Flow!ResolveStep, Flow!Redundant, Flow!ApproversOf,
       Flow!ResolveApprover, Flow!Meets, Flow!ManagerChain

LEMMA FlowSubmitted ==
  ASSUME NEW r, NEW o
  PROVE  Flow!Submitted(r, o) = Submitted(r, o)
BY FlowChain DEF Submitted, Log, Entry, NewStep,
                 Flow!Submitted, Flow!Log, Flow!Entry, Flow!NewStep

LEMMA NewRequestShape ==
  ASSUME tpl \in Templates, NEW f
  PROVE  /\ IsRequest(Flow!NewRequest(tpl, f))
         /\ Flow!NewRequest(tpl, f).steps = << >>
         /\ Flow!NewRequest(tpl, f).status = "DRAFT"
<1> DEFINE r == Flow!NewRequest(tpl, f)
<1>1. tpl.rules \in Seq(Rules)
  BY SessionsAssumption
<1>2. r.rules = tpl.rules /\ r.steps = << >> /\ r.status = "DRAFT"
  BY DEF Flow!NewRequest
<1>3. r = [x \in Columns |-> r[x]]
  BY DEF Flow!NewRequest, Columns
<1>4. << >> \in Seq(Row)
  OBVIOUS
<1> HIDE DEF r
<1> QED
  BY <1>1, <1>2, <1>3, <1>4 DEF IsRequest, r

-----------------------------------------------------------------------------
\* What the theorems say of a step of the system.
StepsKept ==
  /\ Len(req.steps) <= Len(req'.steps)
  /\ \A i \in 1 .. Len(req.steps) :
       /\ req'.steps[i].approver = req.steps[i].approver
       /\ req.steps[i].status # "PENDING" => req'.steps[i].status # "PENDING"

LEMMA ReqFacts ==
  ASSUME IsRequest(req)
  PROVE  /\ req.steps \in Seq(Row) /\ Len(req.steps) \in Nat
         /\ DOMAIN req.steps = 1 .. Len(req.steps)
<1>1. req.steps \in Seq(Row)
  BY DEF IsRequest
<1> QED
  BY <1>1

LEMMA CreateSafe ==
  ASSUME SInv, Create
  PROVE  SInv' /\ StepsKept
<1>1. PICK f \in Forms, now \in BOOLEAN : Flow!Create(f, now)
  BY DEF Create
<1> DEFINE r == Flow!NewRequest(tpl, f)
<1>2. /\ req' = IF now THEN Submitted(r, org) ELSE r
      /\ req.status = "NONE"
      /\ UNCHANGED <<org, tpl, session>>
  <2>1. /\ req' = IF now THEN Flow!Submitted(r, org) ELSE r
        /\ req.status = "NONE" /\ UNCHANGED <<org, tpl>>
    BY <1>1 DEF Flow!Create
  <2>2. UNCHANGED session
    BY DEF Create
  <2> QED
    BY <2>1, <2>2, FlowSubmitted
<1>3. IsRequest(r) /\ r.steps = << >> /\ r.status = "DRAFT"
  BY NewRequestShape DEF SInv
<1> HIDE DEF r
<1>4. IsRequest(Submitted(r, org)) /\ Continues(r, Submitted(r, org))
  BY <1>3, SubmitOutcome DEF SInv
<1>5. IsRequest(req') /\ req'.status # "NONE"
  BY <1>2, <1>3, <1>4 DEF Continues
<1>6. req.steps = << >>
  BY <1>2 DEF SInv, NothingYet
<1>7. SInv'
  BY <1>2, <1>5 DEF SInv, NothingYet
<1>8. StepsKept
  <2>1. req'.steps \in Seq(Row)
    BY <1>5 DEF IsRequest
  <2> QED
    BY <1>6, <2>1 DEF StepsKept
<1> QED
  BY <1>7, <1>8

\* Loading: the request is there, and the session is one of the known kinds.
LEMMA LoadSafe ==
  ASSUME SInv, NEW h \in Handlers,
         \/ LoadUpdate(h) \/ LoadSubmit(h) \/ LoadCancel(h) \/ LoadDecision(h)
         \/ LoadComment(h) \/ LoadUpload(h) \/ LoadDeleteFile(h)
  PROVE  SInv' /\ StepsKept
<1>1. IsRequest(req) /\ Len(req.steps) \in Nat /\ DOMAIN req.steps = 1 .. Len(req.steps)
  BY ReqFacts DEF SInv
<1>2. \E s : Start(h, s) /\ IsSession(s) /\ req.status # "NONE"
  <2>1. CASE LoadUpdate(h)
    <3>1. PICK f : Start(h, Busy("update", Requester, 0, f)) /\ req.status = "DRAFT"
      BY <2>1 DEF LoadUpdate
    <3>2. IsSession(Busy("update", Requester, 0, f))
      BY <1>1 DEF IsSession, Busy, Ops
    <3> QED  BY <3>1, <3>2
  <2>2. CASE LoadSubmit(h)
    <3>1. Start(h, Busy("submit", Requester, 0, NoDev)) /\ req.status = "DRAFT"
      BY <2>2 DEF LoadSubmit
    <3>2. IsSession(Busy("submit", Requester, 0, NoDev))
      BY <1>1 DEF IsSession, Busy, Ops
    <3> QED  BY <3>1, <3>2
  <2>3. CASE LoadCancel(h)
    <3>1. Start(h, Busy("cancel", Requester, 0, NoDev)) /\ req.status # "NONE"
      BY <2>3 DEF LoadCancel, CanCancel, Open
    <3>2. IsSession(Busy("cancel", Requester, 0, NoDev))
      BY <1>1 DEF IsSession, Busy, Ops
    <3> QED  BY <3>1, <3>2
  <2>4. CASE LoadDecision(h)
    <3>1. PICK me \in Devs, i \in DOMAIN req.steps :
            /\ EnsureMyPending(req, i, me)
            /\ \/ Start(h, Busy("approve", me, i, NoDev))
               \/ Start(h, Busy("reject", me, i, NoDev))
               \/ \E target \in Devs \ {me, Requester} :
                    Start(h, Busy("delegate", me, i, target))
      BY <2>4 DEF LoadDecision
    <3>2. req.status # "NONE"
      BY <3>1 DEF EnsureMyPending, Open
    <3>3. /\ IsSession(Busy("approve", me, i, NoDev))
          /\ IsSession(Busy("reject", me, i, NoDev))
          /\ \A target \in Devs \ {Requester} : IsSession(Busy("delegate", me, i, target))
      BY <1>1 DEF IsSession, Busy, Ops
    <3> QED  BY <3>1, <3>2, <3>3
  <2>5. CASE LoadComment(h)
    <3>1. PICK me : Start(h, Busy("comment", me, 0, NoDev)) /\ req.status # "NONE"
      BY <2>5 DEF LoadComment, CanComment
    <3>2. IsSession(Busy("comment", me, 0, NoDev))
      BY <1>1 DEF IsSession, Busy, Ops
    <3> QED  BY <3>1, <3>2
  <2>6. CASE LoadUpload(h)
    <3>1. PICK f : Start(h, Busy("upload", Requester, 0, f)) /\ req.status # "NONE"
      BY <2>6 DEF LoadUpload, CanUpload
    <3>2. IsSession(Busy("upload", Requester, 0, f))
      BY <1>1 DEF IsSession, Busy, Ops
    <3> QED  BY <3>1, <3>2
  <2>7. CASE LoadDeleteFile(h)
    <3>1. PICK f \in req.files : Start(h, Busy("deletefile", Requester, 0, f))
      BY <2>7 DEF LoadDeleteFile
    <3>2. req.status # "NONE"
      BY <3>1 DEF SInv, NothingYet
    <3>3. IsSession(Busy("deletefile", Requester, 0, f))
      BY <1>1 DEF IsSession, Busy, Ops
    <3> QED  BY <3>1, <3>2, <3>3
  <2> QED
    BY <2>1, <2>2, <2>3, <2>4, <2>5, <2>6, <2>7
<1>3. PICK s : Start(h, s) /\ IsSession(s) /\ req.status # "NONE"
  BY <1>2
<1>4. session' = [session EXCEPT ![h] = s] /\ UNCHANGED <<org, tpl, req>>
  BY <1>3 DEF Start
<1>5. SInv'
  BY <1>3, <1>4 DEF SInv, NothingYet
<1>6. StepsKept
  BY <1>1, <1>4 DEF StepsKept
<1> QED
  BY <1>5, <1>6

LEMMA CommitSafe ==
  ASSUME SInv, NEW h \in Handlers, Commit(h)
  PROVE  SInv' /\ StepsKept
<1> DEFINE s == session[h]
<1>1. /\ s # Idle /\ IsSession(s)
      /\ req' = Merge(s.snap, Outcome(s), req)
      /\ session' = [session EXCEPT ![h] = Idle]
      /\ UNCHANGED <<org, tpl>>
  BY DEF Commit, SInv
<1>2. req.status # "NONE"
  BY <1>1 DEF SInv, NothingYet
<1> HIDE DEF s
<1>3. IsRequest(s.snap)
  BY <1>1 DEF IsSession
<1>4. IsRequest(Outcome(s)) /\ Continues(s.snap, Outcome(s))
  BY <1>1, OutcomeContinues DEF SInv
<1>5. IsRequest(req)
  BY DEF SInv
<1>6. IsRequest(req') /\ req'.status # "NONE" /\ StepsKept
  BY <1>1, <1>2, <1>3, <1>4, <1>5, MergeContinues DEF StepsKept
<1>7. \A g \in Handlers : IsSession(session'[g])
  BY <1>1 DEF SInv, IsSession
<1> QED
  BY <1>1, <1>6, <1>7 DEF SInv, NothingYet

LEMMA AbortSafe ==
  ASSUME SInv, NEW h \in Handlers, Abort(h)
  PROVE  SInv' /\ StepsKept
<1>1. Len(req.steps) \in Nat
  BY ReqFacts DEF SInv
<1>2. session' = [session EXCEPT ![h] = Idle] /\ UNCHANGED <<org, tpl, req>>
  BY DEF Abort
<1>3. IsSession(Idle)
  BY DEF IsSession
<1> QED
  BY <1>1, <1>2, <1>3 DEF SInv, NothingYet, StepsKept

LEMMA InitSInv == Init => SInv
<1> SUFFICES ASSUME Init PROVE SInv
  OBVIOUS
<1>1. /\ org \in Orgs /\ tpl \in Templates /\ req = Flow!NoRequest
      /\ session = [h \in Handlers |-> Idle]
  BY DEF Init, Flow!Init
<1>2. (CHOOSE rs \in Flow!RulesOfTemplates : TRUE) \in Seq(Rules)
  <2>1. tpl.rules \in Flow!RulesOfTemplates
    BY <1>1 DEF Flow!RulesOfTemplates
  <2>2. Flow!RulesOfTemplates \subseteq Seq(Rules)
    BY SessionsAssumption DEF Flow!RulesOfTemplates
  <2> QED
    BY <2>1, <2>2
<1>3. /\ req.rules \in Seq(Rules) /\ req.steps = << >> /\ req.files = {}
      /\ req = [x \in Columns |-> req[x]]
  <2>1. /\ req.rules = CHOOSE rs \in Flow!RulesOfTemplates : TRUE
        /\ req.steps = << >> /\ req.files = {}
    BY <1>1 DEF Flow!NoRequest
  <2>2. req = [x \in Columns |-> req[x]]
    <3>1. \E a, b, c : req = [status |-> "NONE", form |-> a, rules |-> b, slots |-> c,
                              steps |-> << >>, history |-> << >>, files |-> {}]
      BY <1>1, Zenon DEF Flow!NoRequest
    <3>2. PICK a, b, c : req = [status |-> "NONE", form |-> a, rules |-> b, slots |-> c,
                                steps |-> << >>, history |-> << >>, files |-> {}]
      BY <3>1, Zenon
    <3> QED
      BY <3>2 DEF Columns
  <2> QED
    BY <1>2, <2>1, <2>2
<1>4. IsRequest(req)
  BY <1>3 DEF IsRequest
<1> QED
  BY <1>1, <1>3, <1>4 DEF SInv, NothingYet, IsSession

LEMMA NextSafe == SInv /\ [Next]_vars => SInv' /\ StepsKept
<1> SUFFICES ASSUME SInv, [Next]_vars PROVE SInv' /\ StepsKept
  OBVIOUS
<1>1. Len(req.steps) \in Nat
  BY ReqFacts DEF SInv
<1>2. CASE Create
  BY <1>2, CreateSafe
<1>3. ASSUME NEW h \in Handlers,
             \/ LoadUpdate(h) \/ LoadSubmit(h) \/ LoadCancel(h) \/ LoadDecision(h)
             \/ LoadComment(h) \/ LoadUpload(h) \/ LoadDeleteFile(h)
      PROVE  SInv' /\ StepsKept
  BY <1>3, LoadSafe
<1>4. ASSUME NEW h \in Handlers, Commit(h)
      PROVE  SInv' /\ StepsKept
  BY <1>4, CommitSafe
<1>5. ASSUME NEW h \in Handlers, Abort(h)
      PROVE  SInv' /\ StepsKept
  BY <1>5, AbortSafe
<1>6. CASE EditTemplate
  <2>1. tpl' \in Templates /\ UNCHANGED <<org, req, session>>
    BY <1>6 DEF EditTemplate, Flow!EditTemplate
  <2> QED
    BY <1>1, <2>1 DEF SInv, NothingYet, StepsKept
<1>7. CASE Reorganise
  <2>1. org' \in Orgs /\ UNCHANGED <<tpl, req, session>>
    BY <1>7 DEF Reorganise, Flow!Reorganise
  <2> QED
    BY <1>1, <2>1 DEF SInv, NothingYet, StepsKept
<1>8. CASE UNCHANGED vars
  BY <1>1, <1>8 DEF vars, SInv, NothingYet, StepsKept
<1> QED
  BY <1>2, <1>3, <1>4, <1>5, <1>6, <1>7, <1>8 DEF Next

(***************************************************************************)
(* No overlap of any number of handlers makes the requester an approver of *)
(* his own request (approvals.py:1048, approval_engine.py:190).            *)
(***************************************************************************)
THEOREM NoOverlapSelfApproves == Spec => []Flow!NoSelfApproval
<1>1. SInv => Flow!NoSelfApproval
  <2> SUFFICES ASSUME SInv, NEW i \in DOMAIN req.steps
               PROVE  req.steps[i].approver # Requester
    BY DEF Flow!NoSelfApproval
  <2>1. req.steps[i] \in Row
    BY ReqFacts DEF SInv
  <2> QED
    BY <2>1 DEF Row
<1>2. SInv /\ [Next]_vars => SInv'
  BY NextSafe
<1> QED
  BY InitSInv, <1>1, <1>2, PTL DEF Spec

(***************************************************************************)
(* No overlap of any number of handlers puts a decided or skipped step     *)
(* back on somebody's desk, removes a step or changes whose it is          *)
(* (approvals.py:930-1082 commit without a lock on the rows they read).    *)
(***************************************************************************)
THEOREM NoOverlapReopens == Spec => NeverReopened
<1> DEFINE A == \A i \in DOMAIN req.steps :
                  /\ i \in DOMAIN req'.steps
                  /\ req'.steps[i].approver = req.steps[i].approver
                  /\ req.steps[i].status # "PENDING" => req'.steps[i].status # "PENDING"
<1>1. SInv /\ [Next]_vars => SInv' /\ [A]_vars
  <2> SUFFICES ASSUME SInv, [Next]_vars PROVE SInv' /\ A
    OBVIOUS
  <2>1. SInv' /\ StepsKept
    BY NextSafe
  <2>2. /\ req.steps \in Seq(Row) /\ DOMAIN req.steps = 1 .. Len(req.steps)
        /\ Len(req.steps) \in Nat
    BY ReqFacts DEF SInv
  <2>3. req'.steps \in Seq(Row)
    BY <2>1 DEF SInv, IsRequest
  <2>4. DOMAIN req'.steps = 1 .. Len(req'.steps) /\ Len(req'.steps) \in Nat
    BY <2>3
  <2> QED
    BY <2>1, <2>2, <2>4 DEF StepsKept
<1>2. Spec => [][A]_vars
  <2> HIDE DEF A
  <2> QED
    BY InitSInv, <1>1, PTL DEF Spec
<1> QED
  BY <1>2 DEF NeverReopened

-----------------------------------------------------------------------------
\* An entry of approval_history.
HRow == [event : Events, actor : Devs, step : Nat, skipped : SUBSET Nat]

(***************************************************************************)
(* Entries and steps of a request account for each other.                  *)
(***************************************************************************)
Traced(r) ==
  /\ r.history \in Seq(HRow)
  /\ \A k \in 1 .. Len(r.history) :
       r.history[k].event \in Decided =>
         /\ r.history[k].step \in 1 .. Len(r.steps)
         /\ r.steps[r.history[k].step].approver = r.history[k].actor
  /\ \A i \in 1 .. Len(r.steps) :
       r.steps[i].status \in Decided =>
         \E k \in 1 .. Len(r.history) : /\ r.history[k].step = i
                                        /\ r.history[k].event = r.steps[i].status

\* What a session loaded is still there, and its decision is its own to take.
Anchored(s, r) ==
  s # Idle =>
    /\ s.me \in Devs
    /\ s.snap.history \in Seq(HRow)
    /\ Len(s.snap.steps) <= Len(r.steps)
    /\ \A i \in 1 .. Len(s.snap.steps) : r.steps[i].approver = s.snap.steps[i].approver
    /\ s.op \in {"approve", "reject", "delegate"} =>
         s.snap.steps[s.step].approver = s.me

DInv == Traced(req) /\ \A h \in Handlers : Anchored(session[h], req)

\* A decided step of q had its decision in r already, or e is about it.
OldOrNoted(r, q, e) ==
  \A j \in 1 .. Len(q.steps) :
    q.steps[j].status \in Decided =>
      /\ j \in 1 .. Len(r.steps)
      /\ \/ q.steps[j].status = r.steps[j].status
         \/ e.step = j /\ e.event = q.steps[j].status

Refers(r, e) ==
  e.event \in Decided => /\ e.step \in 1 .. Len(r.steps)
                         /\ r.steps[e.step].approver = e.actor

\* q is r with at most one entry more, which accounts for what was decided.
Notes(r, q) ==
  \/ /\ q.history = r.history
     /\ \A j \in 1 .. Len(q.steps) :
          q.steps[j].status \in Decided =>
            j \in 1 .. Len(r.steps) /\ q.steps[j].status = r.steps[j].status
  \/ \E e \in HRow : /\ q.history = Append(r.history, e)
                     /\ Refers(r, e)
                     /\ OldOrNoted(r, q, e)

LEMMA EntryRow ==
  ASSUME NEW ev \in Events, NEW d \in Devs, NEW i \in Nat, NEW sk \in SUBSET Nat
  PROVE  /\ Entry(ev, d, i, sk) \in HRow
         /\ Entry(ev, d, i, sk).event = ev
         /\ Entry(ev, d, i, sk).actor = d
         /\ Entry(ev, d, i, sk).step = i
BY DEF Entry, HRow

LEMMA LogNotes ==
  ASSUME NEW r, IsRequest(r), NEW ev, NEW me, NEW i, NEW sk
  PROVE  /\ Log(r, ev, me, i, sk).history = Append(r.history, Entry(ev, me, i, sk))
         /\ Log(r, ev, me, i, sk).steps = r.steps
BY DEF IsRequest, Columns, Log

\* SetStatus decides the given steps, and only those.
LEMMA SetStatusWhich ==
  ASSUME NEW s \in Seq(Row), NEW ids, NEW v
  PROVE  /\ Len(SetStatus(s, ids, v)) = Len(s)
         /\ \A j \in 1 .. Len(s) :
              SetStatus(s, ids, v)[j].status = IF j \in ids THEN v ELSE s[j].status
<1>1. Len(s) \in Nat /\ DOMAIN s = 1 .. Len(s) /\ \A j \in 1 .. Len(s) : s[j] \in Row
  OBVIOUS
<1>2. SetStatus(s, ids, v) = [j \in 1 .. Len(s) |->
                                IF j \in ids THEN [s[j] EXCEPT !.status = v] ELSE s[j]]
  BY <1>1 DEF SetStatus
<1> QED
  BY <1>1, <1>2 DEF Row

LEMMA SubmitNotes ==
  ASSUME NEW r, IsRequest(r), NEW o \in Orgs
  PROVE  Notes(r, Submitted(r, o))
<1> DEFINE c == Chain(r, o)
           new == [i \in 1 .. Len(c) |-> NewStep(c[i])]
           q == [r EXCEPT !.steps = r.steps \o new, !.status = "IN_PROGRESS"]
           e == Entry("SUBMITTED", Requester, 0, {})
<1>1. IsRequest(Submitted(r, o)) /\ Continues(r, Submitted(r, o))
  BY SubmitOutcome
<1>2. Submitted(r, o) = Log(q, "SUBMITTED", Requester, 0, {})
  BY DEF Submitted
<1>3. Len(c) \in Nat
  <2>1. r.rules \in Seq(Rules) /\ IsOrg(o)
    BY SessionsAssumption DEF IsRequest
  <2>2. IsChain(c)
    BY <2>1, EvaluatedIsChain DEF Chain
  <2> HIDE DEF c
  <2> QED
    BY <2>2 DEF IsChain
<1>4. \A i \in 1 .. Len(c) : new[i].status = "PENDING"
  <2> HIDE DEF c
  <2> QED
    BY DEF NewStep
<1>5. new \in Seq({NewStep(c[i]) : i \in 1 .. Len(c)}) /\ Len(new) = Len(c)
  <2> HIDE DEF c
  <2> QED
    BY <1>3
<1>6. r.steps \in Seq(Row)
  BY DEF IsRequest
<1> HIDE DEF new, c
<1>7. /\ \A j \in 1 .. Len(r.steps \o new) :
           j \in 1 .. Len(r.steps) \/ (r.steps \o new)[j].status = "PENDING"
      /\ \A j \in 1 .. Len(r.steps) : (r.steps \o new)[j] = r.steps[j]
  BY <1>3, <1>4, <1>5, <1>6
<1>8. q.steps = r.steps \o new /\ q.history = r.history /\ q = [x \in Columns |-> q[x]]
  BY DEF IsRequest, Columns
<1>9. /\ Submitted(r, o).history = Append(r.history, e)
      /\ Submitted(r, o).steps = r.steps \o new
  <2> HIDE DEF q
  <2> QED
    BY <1>2, <1>8 DEF Log, Columns
<1>10. e \in HRow /\ e.event = "SUBMITTED"
  BY EntryRow, DevAssumption DEF Events
<1> HIDE DEF e
<1>11. OldOrNoted(r, Submitted(r, o), e)
  BY <1>7, <1>9 DEF OldOrNoted, Decided
<1>12. Refers(r, e)
  BY <1>10 DEF Refers, Decided
<1> QED
  BY <1>9, <1>10, <1>11, <1>12 DEF Notes

LEMMA CancelNotes ==
  ASSUME NEW r, IsRequest(r)
  PROVE  Notes(r, Cancelled(r))
<1> DEFINE t == SetStatus(r.steps, Pending(r.steps), "SKIPPED")
           q == [r EXCEPT !.status = "CANCELLED", !.steps = t]
           e == Entry("CANCELLED", Requester, 0, {})
<1>1. r.steps \in Seq(Row)
  BY DEF IsRequest
<1>2. /\ Len(t) = Len(r.steps)
      /\ \A j \in 1 .. Len(r.steps) : t[j].status \in {r.steps[j].status, "SKIPPED"}
  BY <1>1, SetStatusWhich
<1>3. Cancelled(r) = Log(q, "CANCELLED", Requester, 0, {})
  BY DEF Cancelled
<1> HIDE DEF t
<1>4. q.steps = t /\ q.history = r.history /\ q = [x \in Columns |-> q[x]]
  BY DEF IsRequest, Columns
<1>5. Cancelled(r).history = Append(r.history, e) /\ Cancelled(r).steps = t
  <2> HIDE DEF q
  <2> QED
    BY <1>3, <1>4 DEF Log, Columns
<1>6. e \in HRow /\ e.event = "CANCELLED"
  BY EntryRow, DevAssumption DEF Events
<1> HIDE DEF e
<1>7. OldOrNoted(r, Cancelled(r), e)
  BY <1>2, <1>5 DEF OldOrNoted, Decided
<1>8. Refers(r, e)
  BY <1>6 DEF Refers, Decided
<1> QED
  BY <1>5, <1>6, <1>7, <1>8 DEF Notes

\* A decision d on step i that skips others.
LEMMA DecisionNotes ==
  ASSUME NEW r, IsRequest(r), NEW i \in 1 .. Len(r.steps), NEW me \in Devs,
         r.steps[i].approver = me, NEW d \in Decided, NEW ids, NEW st,
         NEW sk \in SUBSET Nat
  PROVE  Notes(r, Log([r EXCEPT !.steps = SetStatus(SetStatus(r.steps, {i}, d), ids, "SKIPPED"),
                                !.status = st], d, me, i, sk))
<1> DEFINE a == SetStatus(r.steps, {i}, d)
           t == SetStatus(a, ids, "SKIPPED")
           q == [r EXCEPT !.steps = t, !.status = st]
           o == Log(q, d, me, i, sk)
           e == Entry(d, me, i, sk)
<1>1. r.steps \in Seq(Row) /\ d \in StepStatuses \ {"PENDING"} /\ d \in Events /\ i \in Nat
  BY DEF IsRequest, StepStatuses, Decided, Events
<1>2. /\ Len(a) = Len(r.steps)
      /\ \A j \in 1 .. Len(r.steps) :
           a[j].status = IF j \in {i} THEN d ELSE r.steps[j].status
  BY <1>1, SetStatusWhich
<1>10. a \in Seq(Row)
  BY <1>1, SetStatusContinues
<1> HIDE DEF a
<1>3. /\ Len(t) = Len(a)
      /\ \A j \in 1 .. Len(a) : t[j].status \in {a[j].status, "SKIPPED"}
  BY <1>2, <1>10, SetStatusWhich
<1> HIDE DEF t
<1>4. q.steps = t /\ q.history = r.history /\ q = [x \in Columns |-> q[x]]
  BY DEF IsRequest, Columns
<1>5. o.history = Append(r.history, e) /\ o.steps = t
  <2> HIDE DEF q
  <2> QED
    BY <1>4 DEF Log, Columns
<1>6. e \in HRow /\ e.event = d /\ e.step = i /\ e.actor = me
  BY <1>1, EntryRow
<1> HIDE DEF e, o
<1>7. OldOrNoted(r, o, e)
  BY <1>2, <1>3, <1>5, <1>6 DEF OldOrNoted, Decided
<1>8. Refers(r, e)
  BY <1>6 DEF Refers
<1>9. Notes(r, o)
  BY <1>5, <1>6, <1>7, <1>8 DEF Notes
<1> QED
  BY <1>9 DEF o, q, t, a

LEMMA ApproveNotes ==
  ASSUME NEW r, IsRequest(r), NEW o, NEW i \in 1 .. Len(r.steps), NEW me \in Devs,
         r.steps[i].approver = me
  PROVE  Notes(r, Approved(r, o, i, me))
<1> DEFINE sk == AutoSkipped(r, o, i)
           u == SetStatus(SetStatus(r.steps, {i}, "APPROVED"), sk, "SKIPPED")
           st == IF Pending(u) = {} THEN "APPROVED" ELSE r.status
<1>1. Approved(r, o, i, me) = Log([r EXCEPT !.steps = u, !.status = st], "APPROVED", me, i, sk)
  BY DEF Approved
<1>2. r.steps \in Seq(Row)
  BY DEF IsRequest
<1>3. sk \in SUBSET Nat
  BY <1>2 DEF AutoSkipped
<1>4. "APPROVED" \in Decided
  BY DEF Decided
<1> HIDE DEF sk, st
<1>5. Notes(r, Log([r EXCEPT !.steps = u, !.status = st], "APPROVED", me, i, sk))
  BY <1>3, <1>4, DecisionNotes, Zenon
<1> QED
  BY <1>1, <1>5, Zenon

LEMMA RejectNotes ==
  ASSUME NEW r, IsRequest(r), NEW i \in 1 .. Len(r.steps), NEW me \in Devs,
         r.steps[i].approver = me
  PROVE  Notes(r, Rejected(r, i, me))
<1> DEFINE later == {j \in Pending(r.steps) : r.steps[j].no > r.steps[i].no}
           u == SetStatus(SetStatus(r.steps, {i}, "REJECTED"), later, "SKIPPED")
<1>1. Rejected(r, i, me) =
        Log([r EXCEPT !.steps = u, !.status = "REJECTED"], "REJECTED", me, i, {})
  BY DEF Rejected
<1>2. "REJECTED" \in Decided /\ {} \in SUBSET Nat
  BY DEF Decided
<1> HIDE DEF later
<1>3. Notes(r, Log([r EXCEPT !.steps = u, !.status = "REJECTED"], "REJECTED", me, i, {}))
  BY <1>2, DecisionNotes, Zenon
<1> QED
  BY <1>1, <1>3, Zenon

LEMMA DelegateNotes ==
  ASSUME NEW r, IsRequest(r), NEW i \in 1 .. Len(r.steps), NEW me \in Devs,
         r.steps[i].approver = me, NEW target
  PROVE  Notes(r, Delegated(r, i, me, target))
<1> DEFINE n == Len(r.steps)
           newNo == r.steps[i].no + 1
           moved == [j \in DOMAIN r.steps |->
                       IF j = i THEN [r.steps[j] EXCEPT !.status = "DELEGATED"]
                       ELSE IF r.steps[j].no >= newNo THEN [r.steps[j] EXCEPT !.no = @ + 1]
                       ELSE r.steps[j]]
           copy == [no |-> newNo, approver |-> target, rule |-> r.steps[i].rule,
                    index |-> r.steps[i].index, status |-> "PENDING", from |-> i]
           v == Append(moved, copy)
           q == [r EXCEPT !.steps = v]
           e == Entry("DELEGATED", me, i, {})
           o == Delegated(r, i, me, target)
<1>1. n \in Nat /\ DOMAIN r.steps = 1 .. n /\ \A j \in 1 .. n : r.steps[j] \in Row
  <2>1. r.steps \in Seq(Row)
    BY DEF IsRequest
  <2> QED
    BY <2>1
<1>2. \A j \in 1 .. n : moved[j].status = IF j = i THEN "DELEGATED" ELSE r.steps[j].status
  <2> SUFFICES ASSUME NEW j \in 1 .. n
               PROVE  moved[j].status = IF j = i THEN "DELEGATED" ELSE r.steps[j].status
    OBVIOUS
  <2>1. r.steps[j] \in Row
    BY <1>1
  <2> HIDE DEF newNo
  <2> QED
    BY <1>1, <2>1 DEF Row
<1>3. copy.status = "PENDING"
  OBVIOUS
<1> DEFINE X == {moved[j] : j \in 1 .. n} \cup {copy}
<1>4. moved \in Seq(X) /\ Len(moved) = n /\ copy \in X
  <2>1. moved = [j \in 1 .. n |-> moved[j]]
    BY <1>1
  <2> HIDE DEF moved, n, copy
  <2>2. \A j \in 1 .. n : moved[j] \in X
    OBVIOUS
  <2>3. copy \in X
    OBVIOUS
  <2> HIDE DEF X
  <2> QED
    BY <1>1, <2>1, <2>2, <2>3, SeqOf
<1>5. o = Log(q, "DELEGATED", me, i, {})
  BY DEF Delegated
<1> HIDE DEF moved, copy, X
<1>6. /\ Len(v) = n + 1 /\ v[n + 1] = copy
      /\ \A j \in 1 .. n : v[j] = moved[j]
  BY <1>1, <1>4
<1> HIDE DEF v, o
<1>7. q.steps = v /\ q.history = r.history /\ q = [x \in Columns |-> q[x]]
  BY DEF IsRequest, Columns
<1>8. o.history = Append(r.history, e) /\ o.steps = v
  <2> HIDE DEF q
  <2> QED
    BY <1>5, <1>7 DEF Log, Columns
<1>9. e \in HRow /\ e.event = "DELEGATED" /\ e.step = i /\ e.actor = me
  BY <1>1, EntryRow DEF Events, Decided
<1> HIDE DEF e
<1>10. OldOrNoted(r, o, e)
  <2> SUFFICES ASSUME NEW j \in 1 .. n + 1, v[j].status \in Decided
               PROVE  /\ j \in 1 .. n
                      /\ \/ v[j].status = r.steps[j].status
                         \/ e.step = j /\ e.event = v[j].status
    BY <1>6, <1>8 DEF OldOrNoted
  <2>1. j # n + 1
    BY <1>3, <1>6 DEF Decided
  <2>2. j \in 1 .. n /\ v[j].status = moved[j].status
    BY <1>1, <1>6, <2>1
  <2> HIDE DEF n
  <2>3. moved[j].status = IF j = i THEN "DELEGATED" ELSE r.steps[j].status
    BY <1>2, <2>2
  <2>4. e.step = i /\ e.event = "DELEGATED"
    BY <1>9
  <2> QED
    BY <2>2, <2>3, <2>4
<1>11. Refers(r, e)
  BY <1>9 DEF Refers
<1> QED
  BY <1>8, <1>9, <1>10, <1>11 DEF Notes, o

LEMMA SameStepsNotes ==
  ASSUME NEW r, IsRequest(r), NEW x, NEW me \in Devs
  PROVE  /\ Notes(r, [r EXCEPT !.form = x])
         /\ Notes(r, [r EXCEPT !.files = x])
         /\ Notes(r, Commented(r, me))
<1>1. /\ [r EXCEPT !.form = x].steps = r.steps /\ [r EXCEPT !.form = x].history = r.history
      /\ [r EXCEPT !.files = x].steps = r.steps /\ [r EXCEPT !.files = x].history = r.history
  BY DEF IsRequest, Columns
<1>2. Notes(r, [r EXCEPT !.form = x]) /\ Notes(r, [r EXCEPT !.files = x])
  BY <1>1 DEF Notes
<1>3. Notes(r, Commented(r, me))
  <2> DEFINE e == Entry("COMMENTED", me, 0, {})
             q == Commented(r, me)
  <2>1. q.history = Append(r.history, e) /\ q.steps = r.steps
    BY LogNotes DEF Commented
  <2>2. e \in HRow /\ e.event = "COMMENTED"
    BY EntryRow DEF Events
  <2> HIDE DEF e, q
  <2>3. Refers(r, e) /\ OldOrNoted(r, q, e)
    BY <2>1, <2>2 DEF Refers, OldOrNoted, Decided
  <2>4. Notes(r, q)
    BY <2>1, <2>2, <2>3 DEF Notes
  <2> QED
    BY <2>4 DEF q
<1> QED
  BY <1>2, <1>3

LEMMA OutcomeNotes ==
  ASSUME NEW s, IsSession(s), s # Idle, org \in Orgs, s.me \in Devs,
         s.op \in {"approve", "reject", "delegate"} => s.snap.steps[s.step].approver = s.me
  PROVE  Notes(s.snap, Outcome(s))
<1> DEFINE r == s.snap
<1>1. s.op \in Ops /\ IsRequest(r)
  BY DEF IsSession
<1>2. s.op \in {"approve", "reject", "delegate"} =>
        s.step \in 1 .. Len(r.steps) /\ r.steps[s.step].approver = s.me
  BY DEF IsSession
<1> HIDE DEF r
<1>3. CASE s.op = "update"
  <2>1. Outcome(s) = [r EXCEPT !.form = s.arg]
    BY <1>3 DEF Outcome, r
  <2>2. Notes(r, [r EXCEPT !.form = s.arg])
    BY <1>1, SameStepsNotes
  <2> QED
    BY <2>1, <2>2 DEF r
<1>4. CASE s.op = "submit"
  <2> DEFINE q == RefreshSlots(r, tpl)
  <2>1. Outcome(s) = Submitted(q, org)
    BY <1>4 DEF Outcome, r
  <2>2. IsRequest(q) /\ q.steps = r.steps /\ q.history = r.history
    <3>1. /\ IsRequest([r EXCEPT !.slots = tpl.slots])
          /\ [r EXCEPT !.slots = tpl.slots].steps = r.steps
      BY <1>1, SameStepsOutcome
    <3>2. [r EXCEPT !.slots = tpl.slots].history = r.history
      BY <1>1 DEF IsRequest, Columns
    <3> QED
      BY <1>1, <3>1, <3>2 DEF RefreshSlots
  <2> HIDE DEF q
  <2>3. Notes(q, Submitted(q, org))
    BY <2>2, SubmitNotes
  <2> DEFINE o == Submitted(q, org)
  <2> HIDE DEF o
  <2>4. Notes(r, o)
    BY <2>2, <2>3 DEF Notes, Refers, OldOrNoted, o
  <2> QED
    BY <2>1, <2>4 DEF r, o
<1>5. CASE s.op = "cancel"
  <2>1. Outcome(s) = Cancelled(r)
    BY <1>5 DEF Outcome, r
  <2> QED
    BY <1>1, <2>1, CancelNotes DEF r
<1>6. CASE s.op = "approve"
  <2>1. Outcome(s) = Approved(r, org, s.step, s.me)
    BY <1>6 DEF Outcome, r
  <2> QED
    BY <1>1, <1>2, <1>6, <2>1, ApproveNotes DEF r
<1>7. CASE s.op = "reject"
  <2>1. Outcome(s) = Rejected(r, s.step, s.me)
    BY <1>7 DEF Outcome, r
  <2> QED
    BY <1>1, <1>2, <1>7, <2>1, RejectNotes DEF r
<1>8. CASE s.op = "delegate"
  <2>1. Outcome(s) = Delegated(r, s.step, s.me, s.arg)
    BY <1>8 DEF Outcome, r
  <2> QED
    BY <1>1, <1>2, <1>8, <2>1, DelegateNotes DEF r
<1>9. CASE s.op = "comment"
  <2>1. Outcome(s) = Commented(r, s.me)
    BY <1>9 DEF Outcome, r
  <2> QED
    BY <1>1, <2>1, SameStepsNotes DEF r
<1>10. CASE s.op \in {"upload", "deletefile"}
  <2>1. \E x : Outcome(s) = [r EXCEPT !.files = x]
    BY <1>10 DEF Outcome, r
  <2>2. PICK x : Outcome(s) = [r EXCEPT !.files = x]
    BY <2>1
  <2>3. Notes(r, [r EXCEPT !.files = x])
    BY <1>1, SameStepsNotes
  <2> QED
    BY <2>2, <2>3 DEF r
<1> QED
  BY <1>1, <1>3, <1>4, <1>5, <1>6, <1>7, <1>8, <1>9, <1>10 DEF Ops

\* The rows a session added to a list are the last ones of its version.
LEMMA AddedRows ==
  ASSUME NEW S, NEW a \in Seq(S), NEW b \in Seq(S), Len(a) <= Len(b)
  PROVE  /\ Added(a, b) \in Seq(S)
         /\ Len(Added(a, b)) = Len(b) - Len(a)
         /\ \A j \in 1 .. Len(Added(a, b)) : Added(a, b)[j] = b[Len(a) + j]
<1> DEFINE m == Len(a) + 1
           n == Len(b)
           d == SubSeq(b, m, n)
<1>1. Len(a) \in Nat /\ n \in Nat /\ m = Len(a) + 1
  OBVIOUS
<1>2. Added(a, b) = d
  BY DEF Added
<1> HIDE DEF m
<1>3. m \in 1 .. Len(b) + 1 /\ n \in m - 1 .. Len(b)
  BY <1>1
<1>4. /\ d \in Seq(S) /\ Len(d) = n - m + 1
      /\ \A i \in 1 .. n - m + 1 : d[i] = b[m + i - 1]
  BY <1>3, SubSeqProperties
<1> HIDE DEF d, n
<1>5. Len(d) = n - Len(a) /\ Len(d) \in Nat
  BY <1>1, <1>4
<1>6. ASSUME NEW j \in 1 .. Len(d)
      PROVE  d[j] = b[Len(a) + j]
  <2>1. j \in 1 .. n - m + 1 /\ m + j - 1 = Len(a) + j
    BY <1>1, <1>4
  <2> QED
    BY <1>4, <2>1
<1> QED
  BY <1>2, <1>4, <1>5, <1>6 DEF n

\* The entry a session adds ends up behind whatever the history has become.
LEMMA AddedHistory ==
  ASSUME NEW h \in Seq(HRow), NEW now \in Seq(HRow)
  PROVE  /\ now \o Added(h, h) = now
         /\ \A e \in HRow : now \o Added(h, Append(h, e)) = Append(now, e)
<1>1. Len(h) \in Nat
  OBVIOUS
<1>2. Added(h, h) = << >>
  <2>1. SubSeq(h, Len(h) + 1, Len(h)) = << >>
    BY <1>1
  <2> QED
    BY <2>1 DEF Added
<1>3. ASSUME NEW e \in HRow
      PROVE  Added(h, Append(h, e)) = <<e>>
  <2> DEFINE g == Append(h, e)
             a == Added(h, g)
  <2>1. g \in Seq(HRow) /\ Len(g) = Len(h) + 1 /\ g[Len(h) + 1] = e
    OBVIOUS
  <2> HIDE DEF g
  <2>2. g \in Seq(HRow) /\ Len(h) <= Len(g)
    BY <1>1, <2>1
  <2>3. /\ a \in Seq(HRow) /\ Len(a) = Len(g) - Len(h)
        /\ \A j \in 1 .. Len(a) : a[j] = g[Len(h) + j]
    BY <2>2, AddedRows, Zenon
  <2> HIDE DEF a
  <2>4. Len(a) = 1
    BY <1>1, <2>1, <2>3
  <2>5. a = <<e>>
    BY <2>1, <2>3, <2>4
  <2> QED
    BY <2>5 DEF g, a
<1>4. now \o << >> = now /\ \A e \in HRow : now \o <<e>> = Append(now, e)
  OBVIOUS
<1> QED
  BY <1>2, <1>3, <1>4

\* What a commit leaves decided was decided before or is by the session's entry.
LEMMA MergeDecides ==
  ASSUME NEW old, IsRequest(old), NEW new, IsRequest(new), Continues(old, new),
         NEW now, IsRequest(now), Len(old.steps) <= Len(now.steps)
  PROVE  \A i \in 1 .. Len(Merge(old, new, now).steps) :
           LET st == Merge(old, new, now).steps[i].status
           IN  \/ i \in 1 .. Len(now.steps) /\ st = now.steps[i].status
               \/ /\ i \in 1 .. Len(old.steps)
                  /\ st = new.steps[i].status /\ st # old.steps[i].status
               \/ \E j \in 1 .. Len(new.steps) :
                    j \notin 1 .. Len(old.steps) /\ st = new.steps[j].status
<1> DEFINE q == Merge(old, new, now)
           n == Len(now.steps)
           m == Len(old.steps)
           kept == [j \in DOMAIN now.steps |->
                      IF j \in DOMAIN old.steps
                      THEN WrittenRow(old.steps[j], new.steps[j], now.steps[j])
                      ELSE now.steps[j]]
           added == Added(old.steps, new.steps)
<1>1. /\ old.steps \in Seq(Row) /\ m \in Nat /\ DOMAIN old.steps = 1 .. m
      /\ new.steps \in Seq(Row) /\ Len(new.steps) \in Nat
      /\ now.steps \in Seq(Row) /\ n \in Nat /\ DOMAIN now.steps = 1 .. n
      /\ \A j \in 1 .. n : now.steps[j] \in Row
      /\ m <= Len(new.steps) /\ m <= n
  <2>1. old.steps \in Seq(Row) /\ new.steps \in Seq(Row) /\ now.steps \in Seq(Row)
    BY DEF IsRequest
  <2> QED
    BY <2>1 DEF Continues
<1>2. q.steps = kept \o added
  BY DEF Merge
<1>3. ASSUME NEW j \in 1 .. n
      PROVE  \/ kept[j].status = now.steps[j].status
             \/ /\ j \in 1 .. m /\ kept[j].status = new.steps[j].status
                /\ new.steps[j].status # old.steps[j].status
  <2>1. now.steps[j] \in Row
    BY <1>1
  <2>2. CASE j \in 1 .. m
    <3>1. kept[j] = WrittenRow(old.steps[j], new.steps[j], now.steps[j])
      BY <1>1, <2>2
    <3> DEFINE w == Written(old.steps[j].status, new.steps[j].status, now.steps[j].status)
               x == Written(old.steps[j].no, new.steps[j].no, now.steps[j].no)
    <3> HIDE DEF kept
    <3>2. kept[j] = [now.steps[j] EXCEPT !.no = x, !.status = w]
      BY <3>1 DEF WrittenRow
    <3>3. w = now.steps[j].status \/
          (w = new.steps[j].status /\ new.steps[j].status # old.steps[j].status)
      BY DEF Written
    <3> HIDE DEF w, x
    <3>4. kept[j].status = w
      BY <2>1, <3>2 DEF Row
    <3> QED
      BY <2>2, <3>3, <3>4
  <2>3. CASE j \notin 1 .. m
    BY <1>1, <2>3
  <2> QED
    BY <2>2, <2>3
<1>4. /\ kept = [j \in 1 .. n |-> kept[j]]
      /\ Len(kept) = n
  BY <1>1
<1>5. /\ added \in Seq(Row) /\ Len(added) = Len(new.steps) - m
      /\ \A j \in 1 .. Len(added) : added[j] = new.steps[m + j]
  BY <1>1, AddedRows DEF added
<1>6. kept \in Seq({kept[j] : j \in 1 .. n} \cup Row)
  <2> DEFINE X == {kept[j] : j \in 1 .. n} \cup Row
  <2> HIDE DEF kept, n
  <2>1. \A j \in 1 .. n : kept[j] \in X
    OBVIOUS
  <2> HIDE DEF X
  <2>2. kept \in Seq(X)
    BY <1>1, <1>4, <2>1, SeqOf
  <2> QED
    BY <2>2 DEF X
<1> HIDE DEF kept, added, q
<1>7. /\ Len(q.steps) = n + Len(added)
      /\ \A i \in 1 .. n : q.steps[i] = kept[i]
      /\ \A i \in 1 .. Len(added) : q.steps[n + i] = added[i]
  <2> DEFINE X == {kept[j] : j \in 1 .. n} \cup Row
  <2>1. kept \in Seq(X) /\ added \in Seq(X)
    <3>1. Row \subseteq X
      OBVIOUS
    <3> HIDE DEF X
    <3>2. added \in Seq(X)
      BY <1>5, <3>1
    <3> QED
      BY <1>6, <3>2 DEF X
  <2> HIDE DEF X, n
  <2> QED
    BY <1>1, <1>2, <1>4, <2>1
<1> SUFFICES ASSUME NEW i \in 1 .. Len(q.steps)
             PROVE  \/ i \in 1 .. n /\ q.steps[i].status = now.steps[i].status
                    \/ /\ i \in 1 .. m
                       /\ q.steps[i].status = new.steps[i].status
                       /\ q.steps[i].status # old.steps[i].status
                    \/ \E j \in 1 .. Len(new.steps) :
                         j \notin 1 .. m /\ q.steps[i].status = new.steps[j].status
  BY DEF q
<1>8. CASE i \in 1 .. n
  BY <1>3, <1>7, <1>8
<1>9. CASE i \notin 1 .. n
  <2>0. Len(added) \in Nat
    BY <1>5
  <2> HIDE DEF n, m
  <2>1. i - n \in 1 .. Len(added) /\ i = n + (i - n)
    BY <1>1, <1>7, <1>9, <2>0
  <2>2. q.steps[i] = added[i - n]
    BY <1>7, <2>1
  <2>3. added[i - n] = new.steps[m + (i - n)]
    BY <1>5, <2>1
  <2>4. m + (i - n) \in 1 .. Len(new.steps) /\ m + (i - n) \notin 1 .. m
    BY <1>1, <1>5, <2>0, <2>1
  <2>5. q.steps[i].status = new.steps[m + (i - n)].status
    BY <2>2, <2>3
  <2> QED
    BY <2>4, <2>5
<1> QED
  BY <1>8, <1>9

\* The first half of Traced: a longer list of steps with the same approvers.
LEMMA EntriesKept ==
  ASSUME NEW r, Traced(r), NEW q,
         Len(r.steps) \in Nat, Len(q.steps) \in Nat, Len(r.steps) <= Len(q.steps),
         \A i \in 1 .. Len(r.steps) : q.steps[i].approver = r.steps[i].approver
  PROVE  \A k \in 1 .. Len(r.history) :
           r.history[k].event \in Decided =>
             /\ r.history[k].step \in 1 .. Len(q.steps)
             /\ q.steps[r.history[k].step].approver = r.history[k].actor
<1> SUFFICES ASSUME NEW k \in 1 .. Len(r.history), r.history[k].event \in Decided
             PROVE  /\ r.history[k].step \in 1 .. Len(q.steps)
                    /\ q.steps[r.history[k].step].approver = r.history[k].actor
  OBVIOUS
<1> DEFINE i == r.history[k].step
<1>1. i \in 1 .. Len(r.steps) /\ r.steps[i].approver = r.history[k].actor
  BY DEF Traced
<1> HIDE DEF i
<1>2. i \in 1 .. Len(q.steps) /\ q.steps[i].approver = r.history[k].actor
  BY <1>1
<1> QED
  BY <1>2 DEF i

LEMMA MergeTraced ==
  ASSUME NEW old, IsRequest(old), old.history \in Seq(HRow),
         NEW new, IsRequest(new), Continues(old, new), Notes(old, new),
         NEW now, IsRequest(now), Traced(now),
         Len(old.steps) <= Len(now.steps),
         \A i \in 1 .. Len(old.steps) : now.steps[i].approver = old.steps[i].approver
  PROVE  Traced(Merge(old, new, now))
<1> DEFINE q == Merge(old, new, now)
<1>1. /\ IsRequest(q) /\ Len(now.steps) <= Len(q.steps)
      /\ \A i \in 1 .. Len(now.steps) : q.steps[i].approver = now.steps[i].approver
  BY MergeContinues
<1>2. \A i \in 1 .. Len(q.steps) :
        \/ i \in 1 .. Len(now.steps) /\ q.steps[i].status = now.steps[i].status
        \/ /\ i \in 1 .. Len(old.steps)
           /\ q.steps[i].status = new.steps[i].status
           /\ q.steps[i].status # old.steps[i].status
        \/ \E j \in 1 .. Len(new.steps) :
             j \notin 1 .. Len(old.steps) /\ q.steps[i].status = new.steps[j].status
  BY MergeDecides
<1>3. q.history = now.history \o Added(old.history, new.history)
  BY DEF Merge
<1>4. /\ Len(old.steps) \in Nat /\ Len(new.steps) \in Nat /\ Len(now.steps) \in Nat
      /\ Len(q.steps) \in Nat /\ Len(old.steps) <= Len(new.steps)
  <2>1. /\ old.steps \in Seq(Row) /\ new.steps \in Seq(Row) /\ now.steps \in Seq(Row)
        /\ q.steps \in Seq(Row)
    BY <1>1 DEF IsRequest
  <2> HIDE DEF q
  <2> QED
    BY <2>1 DEF Continues
<1>5. now.history \in Seq(HRow)
  BY DEF Traced
<1> HIDE DEF q
<1>6. \A k \in 1 .. Len(now.history) :
        now.history[k].event \in Decided =>
          /\ now.history[k].step \in 1 .. Len(q.steps)
          /\ q.steps[now.history[k].step].approver = now.history[k].actor
  BY <1>1, <1>4, EntriesKept
<1>7. \A i \in 1 .. Len(now.steps) :
        now.steps[i].status \in Decided =>
          \E k \in 1 .. Len(now.history) : /\ now.history[k].step = i
                                           /\ now.history[k].event = now.steps[i].status
  BY DEF Traced
<1>8. ASSUME new.history = old.history,
             \A j \in 1 .. Len(new.steps) :
               new.steps[j].status \in Decided =>
                 j \in 1 .. Len(old.steps) /\ new.steps[j].status = old.steps[j].status
      PROVE  Traced(q)
  <2>1. q.history = now.history
    BY <1>3, <1>5, <1>8, AddedHistory
  <2>2. ASSUME NEW i \in 1 .. Len(q.steps), q.steps[i].status \in Decided
        PROVE  i \in 1 .. Len(now.steps) /\ q.steps[i].status = now.steps[i].status
    <3>1. CASE /\ i \in 1 .. Len(old.steps)
               /\ q.steps[i].status = new.steps[i].status
               /\ q.steps[i].status # old.steps[i].status
      <4>1. i \in 1 .. Len(new.steps)
        BY <1>4, <3>1
      <4> QED
        BY <1>8, <2>2, <3>1, <4>1
    <3>2. CASE \E j \in 1 .. Len(new.steps) :
                 j \notin 1 .. Len(old.steps) /\ q.steps[i].status = new.steps[j].status
      BY <1>8, <2>2, <3>2
    <3> QED
      BY <1>2, <3>1, <3>2
  <2>3. \A i \in 1 .. Len(q.steps) :
          q.steps[i].status \in Decided =>
            \E k \in 1 .. Len(q.history) : /\ q.history[k].step = i
                                           /\ q.history[k].event = q.steps[i].status
    <3> SUFFICES ASSUME NEW i \in 1 .. Len(q.steps), q.steps[i].status \in Decided
                 PROVE  \E k \in 1 .. Len(q.history) :
                          q.history[k].step = i /\ q.history[k].event = q.steps[i].status
      OBVIOUS
    <3>1. i \in 1 .. Len(now.steps) /\ q.steps[i].status = now.steps[i].status
      BY <2>2
    <3>2. \E k \in 1 .. Len(now.history) : /\ now.history[k].step = i
                                           /\ now.history[k].event = now.steps[i].status
      BY <1>7, <3>1
    <3> QED
      BY <2>1, <3>1, <3>2
  <2> QED
    BY <1>5, <1>6, <2>1, <2>3 DEF Traced
<1>9. ASSUME NEW e \in HRow, new.history = Append(old.history, e),
             Refers(old, e), OldOrNoted(old, new, e)
      PROVE  Traced(q)
  <2> DEFINE g == Append(now.history, e)
             n == Len(now.history)
  <2>1. q.history = g
    <3>1. now.history \o Added(old.history, Append(old.history, e)) = g
      BY <1>5, AddedHistory
    <3> QED
      BY <1>3, <1>9, <3>1
  <2>2. /\ n \in Nat /\ g \in Seq(HRow) /\ Len(g) = n + 1 /\ g[n + 1] = e
        /\ \A k \in 1 .. n : g[k] = now.history[k]
    BY <1>5
  <2> HIDE DEF g
  <2>3. \A k \in 1 .. n + 1 :
          g[k].event \in Decided =>
            /\ g[k].step \in 1 .. Len(q.steps)
            /\ q.steps[g[k].step].approver = g[k].actor
    <3> SUFFICES ASSUME NEW k \in 1 .. n + 1, g[k].event \in Decided
                 PROVE  /\ g[k].step \in 1 .. Len(q.steps)
                        /\ q.steps[g[k].step].approver = g[k].actor
      OBVIOUS
    <3>1. CASE k \in 1 .. n
      BY <1>6, <2>2, <3>1
    <3>2. CASE k \notin 1 .. n
      <4>1. k = n + 1 /\ g[k] = e
        BY <2>2, <3>2
      <4>2. e.step \in 1 .. Len(old.steps) /\ old.steps[e.step].approver = e.actor
        BY <1>9, <4>1 DEF Refers
      <4>3. e.step \in 1 .. Len(now.steps) /\ now.steps[e.step].approver = e.actor
        BY <1>4, <4>2
      <4>4. e.step \in 1 .. Len(q.steps) /\ q.steps[e.step].approver = e.actor
        BY <1>1, <1>4, <4>3
      <4> QED
        BY <4>1, <4>4
    <3> QED
      BY <3>1, <3>2
  <2>4. ASSUME NEW i \in 1 .. Len(q.steps), q.steps[i].status \in Decided
        PROVE  \E k \in 1 .. n + 1 : g[k].step = i /\ g[k].event = q.steps[i].status
    <3>1. CASE i \in 1 .. Len(now.steps) /\ q.steps[i].status = now.steps[i].status
      <4>1. PICK k \in 1 .. n : /\ now.history[k].step = i
                                /\ now.history[k].event = now.steps[i].status
        BY <1>7, <2>4, <3>1
      <4>2. k \in 1 .. n + 1 /\ g[k] = now.history[k]
        BY <2>2
      <4> QED
        BY <3>1, <4>1, <4>2
    <3>2. CASE /\ i \in 1 .. Len(old.steps)
               /\ q.steps[i].status = new.steps[i].status
               /\ q.steps[i].status # old.steps[i].status
      <4>1. i \in 1 .. Len(new.steps)
        BY <1>4, <3>2
      <4>2. e.step = i /\ e.event = q.steps[i].status
        BY <1>9, <2>4, <3>2, <4>1 DEF OldOrNoted
      <4>3. n + 1 \in 1 .. n + 1
        BY <2>2
      <4> QED
        BY <2>2, <4>2, <4>3
    <3>3. CASE \E j \in 1 .. Len(new.steps) :
                 j \notin 1 .. Len(old.steps) /\ q.steps[i].status = new.steps[j].status
      BY <1>9, <2>4, <3>3 DEF OldOrNoted
    <3> QED
      BY <1>2, <3>1, <3>2, <3>3
  <2> QED
    BY <2>1, <2>2, <2>3, <2>4 DEF Traced
<1>10. Traced(q)
  <2>1. CASE \E e \in HRow : /\ new.history = Append(old.history, e)
                             /\ Refers(old, e)
                             /\ OldOrNoted(old, new, e)
    BY <1>9, <2>1
  <2>2. CASE /\ new.history = old.history
             /\ \A j \in 1 .. Len(new.steps) :
                  new.steps[j].status \in Decided =>
                    j \in 1 .. Len(old.steps) /\ new.steps[j].status = old.steps[j].status
    BY <1>8, <2>2
  <2> QED
    BY <2>1, <2>2, Zenon DEF Notes
<1> QED
  BY <1>10 DEF q

\* Steps that stay with their approvers keep every session anchored.
LEMMA AnchorKept ==
  ASSUME NEW s, IsSession(s), NEW r, NEW q, Anchored(s, r),
         Len(r.steps) \in Nat, Len(q.steps) \in Nat, Len(r.steps) <= Len(q.steps),
         \A i \in 1 .. Len(r.steps) : q.steps[i].approver = r.steps[i].approver
  PROVE  Anchored(s, q)
<1> SUFFICES ASSUME s # Idle PROVE Anchored(s, q)
  BY DEF Anchored
<1>1. Len(s.snap.steps) \in Nat
  <2>1. s.snap.steps \in Seq(Row)
    BY DEF IsSession, IsRequest
  <2> QED
    BY <2>1
<1>2. Len(s.snap.steps) <= Len(q.steps)
  BY <1>1 DEF Anchored
<1>3. ASSUME NEW i \in 1 .. Len(s.snap.steps)
      PROVE  q.steps[i].approver = s.snap.steps[i].approver
  <2>1. r.steps[i].approver = s.snap.steps[i].approver /\ i \in 1 .. Len(r.steps)
    BY <1>1 DEF Anchored
  <2> QED
    BY <2>1
<1> QED
  BY <1>2, <1>3 DEF Anchored

\* Submission of a request that has no steps yet.
LEMMA FirstNotesTraced ==
  ASSUME NEW r, r.steps = << >>, Traced(r), NEW q, Notes(r, q)
  PROVE  Traced(q)
<1>1. 1 .. Len(r.steps) = {}
  OBVIOUS
<1>2. r.history \in Seq(HRow) /\ \A k \in 1 .. Len(r.history) : r.history[k].event \notin Decided
  BY <1>1 DEF Traced
<1>3. \A j \in 1 .. Len(q.steps) : q.steps[j].status \notin Decided
  BY <1>1 DEF Notes, OldOrNoted
<1>4. CASE q.history = r.history
  BY <1>2, <1>3, <1>4 DEF Traced
<1>5. ASSUME NEW e \in HRow, q.history = Append(r.history, e), Refers(r, e)
      PROVE  Traced(q)
  <2>1. e.event \notin Decided
    BY <1>1, <1>5 DEF Refers
  <2>2. /\ q.history \in Seq(HRow)
        /\ \A k \in 1 .. Len(q.history) : q.history[k].event \notin Decided
    BY <1>2, <1>5, <2>1
  <2> QED
    BY <1>3, <2>2 DEF Traced
<1>6. CASE \E e \in HRow : q.history = Append(r.history, e) /\ Refers(r, e)
  BY <1>5, <1>6
<1> QED
  BY <1>4, <1>6, Zenon DEF Notes

LEMMA CreateTraced ==
  ASSUME SInv, DInv, Create
  PROVE  DInv'
<1>1. PICK f \in Forms, now \in BOOLEAN : Flow!Create(f, now)
  BY DEF Create
<1> DEFINE r == Flow!NewRequest(tpl, f)
<1>2. /\ req' = IF now THEN Submitted(r, org) ELSE r
      /\ req.status = "NONE"
      /\ UNCHANGED session
  <2>1. /\ req' = IF now THEN Flow!Submitted(r, org) ELSE r
        /\ req.status = "NONE"
    BY <1>1 DEF Flow!Create
  <2>2. UNCHANGED session
    BY DEF Create
  <2> QED
    BY <2>1, <2>2, FlowSubmitted
<1>3. IsRequest(r) /\ r.steps = << >>
  BY NewRequestShape DEF SInv
<1>4. Traced(r)
  <2> DEFINE e == Entry("CREATED", Requester, 0, {})
  <2>1. r.history = <<e>>
    BY DEF Flow!NewRequest, Flow!Entry, Entry
  <2>2. e \in HRow /\ e.event = "CREATED"
    BY EntryRow, DevAssumption DEF Events
  <2> HIDE DEF e, r
  <2>3. r.history \in Seq(HRow) /\ Len(r.history) = 1 /\ r.history[1] = e
    BY <2>1, <2>2
  <2>4. \A k \in 1 .. Len(r.history) : r.history[k].event \notin Decided
    BY <2>2, <2>3 DEF Decided
  <2> QED
    BY <1>3, <2>3, <2>4 DEF Traced
<1> HIDE DEF r
<1>5. Traced(Submitted(r, org))
  BY <1>3, <1>4, SubmitNotes, FirstNotesTraced DEF SInv
<1>6. Traced(req')
  BY <1>2, <1>4, <1>5
<1>7. \A h \in Handlers : session'[h] = Idle
  BY <1>2 DEF SInv, NothingYet
<1> QED
  BY <1>6, <1>7 DEF DInv, Anchored

LEMMA LoadTraced ==
  ASSUME SInv, DInv, NEW h \in Handlers,
         \/ LoadUpdate(h) \/ LoadSubmit(h) \/ LoadCancel(h) \/ LoadDecision(h)
         \/ LoadComment(h) \/ LoadUpload(h) \/ LoadDeleteFile(h)
  PROVE  DInv'
<1>1. req.history \in Seq(HRow) /\ Len(req.steps) \in Nat
  BY ReqFacts DEF DInv, Traced, SInv
<1>2. ASSUME NEW op, NEW me \in Devs, NEW i, NEW arg,
             op \in {"approve", "reject", "delegate"} => req.steps[i].approver = me
      PROVE  Anchored(Busy(op, me, i, arg), req)
  BY <1>1, <1>2 DEF Anchored, Busy
<1>3. \E s : Start(h, s) /\ Anchored(s, req)
  <2>1. CASE LoadUpdate(h)
    <3>1. PICK f : Start(h, Busy("update", Requester, 0, f))
      BY <2>1 DEF LoadUpdate
    <3> QED  BY <1>2, <3>1, DevAssumption
  <2>2. CASE LoadSubmit(h)
    <3>1. Start(h, Busy("submit", Requester, 0, NoDev))
      BY <2>2 DEF LoadSubmit
    <3> QED  BY <1>2, <3>1, DevAssumption
  <2>3. CASE LoadCancel(h)
    <3>1. Start(h, Busy("cancel", Requester, 0, NoDev))
      BY <2>3 DEF LoadCancel
    <3> QED  BY <1>2, <3>1, DevAssumption
  <2>4. CASE LoadDecision(h)
    <3>1. PICK me \in Devs, i \in DOMAIN req.steps :
            /\ EnsureMyPending(req, i, me)
            /\ \/ Start(h, Busy("approve", me, i, NoDev))
               \/ Start(h, Busy("reject", me, i, NoDev))
               \/ \E target \in Devs \ {me, Requester} :
                    Start(h, Busy("delegate", me, i, target))
      BY <2>4 DEF LoadDecision
    <3>2. req.steps[i].approver = me
      BY <3>1 DEF EnsureMyPending
    <3> QED  BY <1>2, <3>1, <3>2
  <2>5. CASE LoadComment(h)
    <3>1. PICK me \in Devs : Start(h, Busy("comment", me, 0, NoDev))
      BY <2>5 DEF LoadComment
    <3> QED  BY <1>2, <3>1
  <2>6. CASE LoadUpload(h)
    <3>1. PICK f : Start(h, Busy("upload", Requester, 0, f))
      BY <2>6 DEF LoadUpload
    <3> QED  BY <1>2, <3>1, DevAssumption
  <2>7. CASE LoadDeleteFile(h)
    <3>1. PICK f : Start(h, Busy("deletefile", Requester, 0, f))
      BY <2>7 DEF LoadDeleteFile
    <3> QED  BY <1>2, <3>1, DevAssumption
  <2> QED
    BY <2>1, <2>2, <2>3, <2>4, <2>5, <2>6, <2>7
<1>4. PICK s : Start(h, s) /\ Anchored(s, req)
  BY <1>3
<1>5. session' = [session EXCEPT ![h] = s] /\ UNCHANGED req
  BY <1>4 DEF Start
<1>6. \A g \in Handlers : session'[g] = s \/ session'[g] = session[g]
  BY <1>5 DEF SInv
<1> QED
  BY <1>4, <1>5, <1>6 DEF DInv

LEMMA CommitTraced ==
  ASSUME SInv, DInv, NEW h \in Handlers, Commit(h)
  PROVE  DInv'
<1> DEFINE s == session[h]
<1>1. /\ s # Idle /\ IsSession(s) /\ Anchored(s, req)
      /\ req' = Merge(s.snap, Outcome(s), req)
      /\ session' = [session EXCEPT ![h] = Idle]
  BY DEF Commit, SInv, DInv
<1>2. /\ IsRequest(s.snap) /\ s.snap.history \in Seq(HRow)
      /\ Len(s.snap.steps) <= Len(req.steps)
      /\ \A i \in 1 .. Len(s.snap.steps) : req.steps[i].approver = s.snap.steps[i].approver
  BY <1>1 DEF IsSession, Anchored
<1>3. /\ IsRequest(Outcome(s)) /\ Continues(s.snap, Outcome(s))
      /\ Notes(s.snap, Outcome(s))
  BY <1>1, OutcomeContinues, OutcomeNotes DEF Anchored, SInv
<1>4. IsRequest(req) /\ Traced(req)
  BY DEF SInv, DInv
<1> HIDE DEF s
<1>5. Traced(req')
  BY <1>1, <1>2, <1>3, <1>4, MergeTraced
<1>6. SInv' /\ StepsKept
  BY CommitSafe
<1>7. ASSUME NEW g \in Handlers
      PROVE  Anchored(session'[g], req')
  <2>1. session'[g] = Idle \/ session'[g] = session[g]
    BY <1>1 DEF SInv
  <2>2. Anchored(Idle, req')
    BY DEF Anchored
  <2>3. Anchored(session[g], req')
    <3>1. Len(req.steps) \in Nat /\ IsSession(session[g]) /\ Anchored(session[g], req)
      BY ReqFacts DEF SInv, DInv
    <3>2. Len(req'.steps) \in Nat
      <4>1. req'.steps \in Seq(Row)
        BY <1>6 DEF SInv, IsRequest
      <4> QED
        BY <4>1
    <3> QED
      BY <1>6, <3>1, <3>2, AnchorKept DEF StepsKept
  <2> QED
    BY <2>1, <2>2, <2>3
<1> QED
  BY <1>5, <1>7 DEF DInv

LEMMA InitTraced == Init => DInv
<1> SUFFICES ASSUME Init PROVE DInv
  OBVIOUS
<1>1. req.history = << >> /\ req.steps = << >>
  BY DEF Init, Flow!Init, Flow!NoRequest
<1>2. << >> \in Seq(HRow)
  OBVIOUS
<1>3. Traced(req)
  BY <1>1, <1>2 DEF Traced
<1> QED
  BY <1>3 DEF DInv, Anchored, Init

LEMMA NextTraced == SInv /\ DInv /\ [Next]_vars => DInv'
<1> SUFFICES ASSUME SInv, DInv, [Next]_vars PROVE DInv'
  OBVIOUS
<1>1. ASSUME NEW h \in Handlers, Abort(h)
      PROVE  DInv'
  <2>1. session' = [session EXCEPT ![h] = Idle] /\ UNCHANGED req
    BY <1>1 DEF Abort
  <2>2. \A g \in Handlers : session'[g] = Idle \/ session'[g] = session[g]
    BY <2>1 DEF SInv
  <2> QED
    BY <2>1, <2>2 DEF DInv, Anchored
<1>2. CASE EditTemplate \/ Reorganise \/ UNCHANGED vars
  BY <1>2 DEF EditTemplate, Reorganise, Flow!EditTemplate, Flow!Reorganise, vars, DInv
<1> QED
  BY <1>1, <1>2, CreateTraced, LoadTraced, CommitTraced DEF Next

(***************************************************************************)
(* However handlers overlap, nobody decides for somebody else, and every   *)
(* decided step can be traced to an entry of its own approver              *)
(* (approvals.py:936-1082 write the step and its entry from one session).  *)
(***************************************************************************)
THEOREM DecisionsTraceable == Spec => []DecisionsAreTraceable
<1>1. SInv /\ DInv => DecisionsAreTraceable
  <2> SUFFICES ASSUME SInv, DInv PROVE DecisionsAreTraceable
    OBVIOUS
  <2>1. /\ DOMAIN req.steps = 1 .. Len(req.steps)
        /\ DOMAIN req.history = 1 .. Len(req.history)
    BY ReqFacts DEF SInv, DInv, Traced
  <2> QED
    BY <2>1 DEF DInv, Traced, DecisionsAreTraceable
<1>2. SInv /\ DInv /\ [Next]_vars => (SInv /\ DInv)'
  BY NextSafe, NextTraced
<1> QED
  BY InitSInv, InitTraced, <1>1, <1>2, PTL DEF Spec

-----------------------------------------------------------------------------
(***************************************************************************)
(* The files of a slot, and those that handlers are about to add.          *)
(***************************************************************************)
Uploading == {h \in Handlers : session[h].op = "upload"}

\* Every slot there is allows M files.
Allows(M, slots) == slots # NoSlots => slots.max = M

UInv(M) ==
  /\ Allows(M, req.slots)
  /\ \A h \in Handlers : session[h] # Idle => Allows(M, session[h].snap.slots)
  /\ IsFiniteSet(req.files)
  /\ Cardinality(req.files) + Cardinality(Uploading) <= M + Cardinality(Handlers) - 1

LEMMA LogFiles ==
  ASSUME NEW r, r = [x \in Columns |-> r[x]], NEW ev, NEW me, NEW i, NEW sk
  PROVE  /\ Log(r, ev, me, i, sk).files = r.files
         /\ Log(r, ev, me, i, sk).slots = r.slots
BY DEF Columns, Log

\* Only the two attachment handlers touch the files; only a submission takes
\* over the slots of the template.
LEMMA OutcomeFiles ==
  ASSUME NEW s, IsSession(s), s # Idle
  PROVE  /\ Outcome(s).files = IF s.op = "upload" THEN s.snap.files \cup {s.arg}
                               ELSE IF s.op = "deletefile" THEN s.snap.files \ {s.arg}
                               ELSE s.snap.files
         /\ Outcome(s).slots = s.snap.slots \/ (tpl.slots # NoSlots /\ Outcome(s).slots = tpl.slots)
<1> DEFINE r == s.snap
           Same(q) == q.files = r.files /\ q.slots = r.slots
<1>1. s.op \in Ops /\ r = [x \in Columns |-> r[x]]
  BY DEF IsSession, IsRequest
<1>2. ASSUME NEW t, NEW st, NEW ev, NEW me, NEW i, NEW sk
      PROVE  Same(Log([r EXCEPT !.steps = t, !.status = st], ev, me, i, sk))
  <2> DEFINE q == [r EXCEPT !.steps = t, !.status = st]
  <2> HIDE DEF r
  <2>1. q = [x \in Columns |-> q[x]] /\ q.files = r.files /\ q.slots = r.slots
    BY <1>1 DEF Columns
  <2> HIDE DEF q
  <2>2. Same(Log(q, ev, me, i, sk))
    BY <2>1, LogFiles
  <2> QED
    BY <2>2 DEF q
<1> HIDE DEF r
<1>3. CASE s.op = "update"
  <2>1. Outcome(s) = [r EXCEPT !.form = s.arg]
    BY <1>3 DEF Outcome, r
  <2>2. Same(Outcome(s))
    BY <1>1, <2>1 DEF Columns
  <2> QED
    BY <1>3, <2>2 DEF r
<1>4. CASE s.op = "submit"
  <2> DEFINE q == RefreshSlots(r, tpl)
             c == Chain(q, org)
             t == q.steps \o [i \in 1 .. Len(c) |-> NewStep(c[i])]
             p == [q EXCEPT !.steps = t, !.status = "IN_PROGRESS"]
  <2>1. Outcome(s) = Log(p, "SUBMITTED", Requester, 0, {})
    BY <1>4 DEF Outcome, Submitted, r
  <2>2. /\ q = [x \in Columns |-> q[x]]
        /\ q.files = r.files
        /\ q.slots = r.slots \/ (tpl.slots # NoSlots /\ q.slots = tpl.slots)
    BY <1>1 DEF RefreshSlots, Columns
  <2> HIDE DEF q, t
  <2>3. p = [x \in Columns |-> p[x]] /\ p.files = q.files /\ p.slots = q.slots
    BY <2>2 DEF Columns
  <2> HIDE DEF p
  <2>4. Outcome(s).files = p.files /\ Outcome(s).slots = p.slots
    BY <2>1, <2>3, LogFiles
  <2> QED
    BY <1>4, <2>2, <2>3, <2>4 DEF r
<1>5. CASE s.op = "cancel"
  <2> DEFINE t == SetStatus(r.steps, Pending(r.steps), "SKIPPED")
             p == [r EXCEPT !.status = "CANCELLED", !.steps = t]
  <2>1. Outcome(s) = Log(p, "CANCELLED", Requester, 0, {})
    BY <1>5 DEF Outcome, Cancelled, r
  <2> HIDE DEF t
  <2>2. p = [x \in Columns |-> p[x]] /\ p.files = r.files /\ p.slots = r.slots
    BY <1>1 DEF Columns
  <2> HIDE DEF p
  <2>3. Outcome(s).files = r.files /\ Outcome(s).slots = r.slots
    BY <2>1, <2>2, LogFiles
  <2> QED
    BY <1>5, <2>3 DEF r
<1>6. CASE s.op = "approve"
  <2> DEFINE sk == AutoSkipped(r, org, s.step)
             u == SetStatus(SetStatus(r.steps, {s.step}, "APPROVED"), sk, "SKIPPED")
             st == IF Pending(u) = {} THEN "APPROVED" ELSE r.status
  <2>1. Outcome(s) = Log([r EXCEPT !.steps = u, !.status = st], "APPROVED", s.me, s.step, sk)
    BY <1>6 DEF Outcome, Approved, r
  <2> HIDE DEF u, st, sk, Same
  <2>2. Same(Log([r EXCEPT !.steps = u, !.status = st], "APPROVED", s.me, s.step, sk))
    BY <1>2, Zenon
  <2>3. Same(Outcome(s))
    BY <2>1, <2>2, Zenon
  <2> QED
    BY <1>6, <2>3 DEF r, Same
<1>7. CASE s.op = "reject"
  <2> DEFINE later == {j \in Pending(r.steps) : r.steps[j].no > r.steps[s.step].no}
             u == SetStatus(SetStatus(r.steps, {s.step}, "REJECTED"), later, "SKIPPED")
  <2>1. Outcome(s) = Log([r EXCEPT !.steps = u, !.status = "REJECTED"], "REJECTED", s.me, s.step, {})
    BY <1>7 DEF Outcome, Rejected, r
  <2> HIDE DEF u, later, Same
  <2>2. Same(Log([r EXCEPT !.steps = u, !.status = "REJECTED"], "REJECTED", s.me, s.step, {}))
    BY <1>2, Zenon
  <2>3. Same(Outcome(s))
    BY <2>1, <2>2, Zenon
  <2> QED
    BY <1>7, <2>3 DEF r, Same
<1>8. CASE s.op = "delegate"
  <2>1. \E v : Outcome(s) = Log([r EXCEPT !.steps = v], "DELEGATED", s.me, s.step, {})
    BY <1>8 DEF Outcome, Delegated, r
  <2>2. PICK v : Outcome(s) = Log([r EXCEPT !.steps = v], "DELEGATED", s.me, s.step, {})
    BY <2>1
  <2> DEFINE p == [r EXCEPT !.steps = v]
  <2>3. p = [x \in Columns |-> p[x]] /\ p.files = r.files /\ p.slots = r.slots
    BY <1>1 DEF Columns
  <2>4. Outcome(s) = Log(p, "DELEGATED", s.me, s.step, {})
    BY <2>2
  <2> HIDE DEF p
  <2>5. Outcome(s).files = r.files /\ Outcome(s).slots = r.slots
    BY <2>3, <2>4, LogFiles
  <2> QED
    BY <1>8, <2>5 DEF r
<1>9. CASE s.op = "comment"
  <2>1. Outcome(s) = Log(r, "COMMENTED", s.me, 0, {})
    BY <1>9 DEF Outcome, Commented, r
  <2>2. Outcome(s).files = r.files /\ Outcome(s).slots = r.slots
    BY <1>1, <2>1, LogFiles
  <2> QED
    BY <1>9, <2>2 DEF r
<1>10. CASE s.op \in {"upload", "deletefile"}
  <2> DEFINE x == IF s.op = "upload" THEN r.files \cup {s.arg} ELSE r.files \ {s.arg}
  <2>1. Outcome(s) = [r EXCEPT !.files = x]
    BY <1>10 DEF Outcome, r
  <2> HIDE DEF x
  <2>2. Outcome(s).files = x /\ Outcome(s).slots = r.slots
    BY <1>1, <2>1 DEF Columns
  <2> QED
    BY <1>10, <2>2 DEF r, x
<1> QED
  BY <1>1, <1>3, <1>4, <1>5, <1>6, <1>7, <1>8, <1>9, <1>10 DEF Ops

LEMMA UploadingFinite ==
  ASSUME IsFiniteSet(Handlers)
  PROVE  /\ IsFiniteSet(Uploading)
         /\ Cardinality(Uploading) <= Cardinality(Handlers)
         /\ Cardinality(Uploading) \in Nat /\ Cardinality(Handlers) \in Nat
<1>1. Uploading \subseteq Handlers
  BY DEF Uploading
<1> HIDE DEF Uploading
<1> QED
  BY <1>1, FS_Subset, FS_CardinalityType

\* A load: the session is not an upload, or there was room for one.
LEMMA LoadUploads ==
  ASSUME NEW M \in Nat, IsFiniteSet(Handlers),
         \A t \in Templates : t.slots # NoSlots => t.slots.max = M,
         SInv, UInv(M), NEW h \in Handlers, NEW op, NEW me, NEW i, NEW arg,
         Start(h, Busy(op, me, i, arg)),
         op = "upload" => \E editor : CanUpload(req, tpl, editor)
  PROVE  UInv(M)'
<1> DEFINE s == Busy(op, me, i, arg)
<1>1. /\ session[h] = Idle /\ session' = [session EXCEPT ![h] = s] /\ UNCHANGED req
      /\ s.snap = req /\ s.op = op
  BY DEF Start, Busy
<1> HIDE DEF s
<1>2. /\ session'[h] = s
      /\ \A g \in Handlers : g # h => session'[g] = session[g]
  BY <1>1 DEF SInv
<1>3. ASSUME NEW g \in Handlers, session'[g] # Idle
      PROVE  Allows(M, session'[g].snap.slots)
  BY <1>1, <1>2, <1>3 DEF UInv
<1>4. CASE op = "upload"
  <2>1. PICK editor : CanUpload(req, tpl, editor)
    BY <1>4
  <2> DEFINE slot == SlotsInForce(req, tpl)
  <2>2. slot # NoSlots /\ Cardinality(req.files) < slot.max
    BY <2>1 DEF CanUpload
  <2>3. slot.max = M
    BY <2>2 DEF SlotsInForce, UInv, Allows, SInv
  <2>4. Cardinality(req.files) < M
    BY <2>2, <2>3
  <2>5. Cardinality(req.files) \in Nat
    BY FS_CardinalityType DEF UInv
  <2>6. Cardinality(Uploading') <= Cardinality(Handlers) /\ Cardinality(Uploading') \in Nat
    <3>1. Uploading' \subseteq Handlers
      BY DEF Uploading
    <3> QED
      BY <3>1, FS_Subset, FS_CardinalityType
  <2>7. Cardinality(Handlers) \in Nat
    BY FS_CardinalityType
  <2>8. Cardinality(req.files) + Cardinality(Uploading') <= M + Cardinality(Handlers) - 1
    BY <2>4, <2>5, <2>6, <2>7
  <2> QED
    BY <1>1, <1>3, <2>8 DEF UInv
<1>5. CASE op # "upload"
  <2>1. Uploading' = Uploading
    BY <1>1, <1>2, <1>5 DEF Uploading, Idle
  <2> QED
    BY <1>1, <1>3, <2>1 DEF UInv
<1> QED
  BY <1>4, <1>5

LEMMA CommitUploads ==
  ASSUME NEW M \in Nat, IsFiniteSet(Handlers),
         \A t \in Templates : t.slots # NoSlots => t.slots.max = M,
         SInv, UInv(M), NEW h \in Handlers, Commit(h)
  PROVE  UInv(M)'
<1> DEFINE s == session[h]
           o == Outcome(s)
           old == s.snap
<1>1. /\ s # Idle /\ IsSession(s)
      /\ req' = Merge(old, o, req)
      /\ session' = [session EXCEPT ![h] = Idle]
  BY DEF Commit, SInv
<1>2. /\ o.files = IF s.op = "upload" THEN old.files \cup {s.arg}
                   ELSE IF s.op = "deletefile" THEN old.files \ {s.arg}
                   ELSE old.files
      /\ o.slots = old.slots \/ (tpl.slots # NoSlots /\ o.slots = tpl.slots)
  BY <1>1, OutcomeFiles
<1> HIDE DEF o
<1>3. /\ req'.slots \in {o.slots, req.slots}
      /\ req'.files = (req.files \ (old.files \ o.files)) \cup (o.files \ old.files)
  BY <1>1 DEF Merge, Written
<1>4. Allows(M, req'.slots)
  <2>1. Allows(M, old.slots) /\ Allows(M, req.slots)
    BY <1>1 DEF UInv
  <2>2. tpl \in Templates
    BY DEF SInv
  <2> QED
    BY <1>2, <1>3, <2>1, <2>2 DEF Allows
<1>5. /\ session'[h] = Idle
      /\ \A g \in Handlers : g # h => session'[g] = session[g]
  BY <1>1 DEF SInv
<1>6. \A g \in Handlers : session'[g] # Idle => Allows(M, session'[g].snap.slots)
  BY <1>5 DEF UInv
<1>7. IsFiniteSet(req.files) /\ Cardinality(req.files) \in Nat
  BY FS_CardinalityType DEF UInv
<1>8. /\ IsFiniteSet(Uploading) /\ Cardinality(Uploading) \in Nat
      /\ Cardinality(Handlers) \in Nat
  BY UploadingFinite
<1>9. CASE s.op = "upload"
  <2>1. req'.files \subseteq req.files \cup {s.arg}
    BY <1>2, <1>3, <1>9
  <2> DEFINE f == req.files
             all == req.files \cup {s.arg}
  <2>2. IsFiniteSet(all) /\ Cardinality(all) <= Cardinality(f) + 1
    <3>1. /\ IsFiniteSet(f \cup {s.arg})
          /\ Cardinality(f \cup {s.arg}) = IF s.arg \in f THEN Cardinality(f)
                                                        ELSE Cardinality(f) + 1
      BY <1>7, FS_AddElement
    <3> QED
      BY <1>7, <3>1
  <2>3. IsFiniteSet(req'.files) /\ Cardinality(req'.files) <= Cardinality(f) + 1
    <3>1. IsFiniteSet(req'.files) /\ Cardinality(req'.files) <= Cardinality(all)
      BY <2>1, <2>2, FS_Subset
    <3>2. Cardinality(req'.files) \in Nat /\ Cardinality(all) \in Nat
      BY <3>1, <2>2, FS_CardinalityType
    <3> QED
      BY <1>7, <2>2, <3>1, <3>2
  <2>4. Uploading' = Uploading \ {h} /\ h \in Uploading
    BY <1>5, <1>9 DEF Uploading, Idle
  <2>5. Cardinality(Uploading') = Cardinality(Uploading) - 1
    BY <1>8, <2>4, FS_RemoveElement
  <2>6. Cardinality(req'.files) \in Nat
    BY <2>3, FS_CardinalityType
  <2>7. Cardinality(f) + Cardinality(Uploading) <= M + Cardinality(Handlers) - 1
    BY DEF UInv
  <2> HIDE DEF f, all
  <2>8. Cardinality(f) \in Nat
    BY <1>7 DEF f
  <2>9. Cardinality(req'.files) + Cardinality(Uploading')
          <= M + Cardinality(Handlers) - 1
    BY <1>8, <2>3, <2>5, <2>6, <2>7, <2>8
  <2> QED
    BY <1>4, <1>6, <2>3, <2>9 DEF UInv
<1>10. CASE s.op # "upload"
  <2>1. req'.files \subseteq req.files
    BY <1>2, <1>3, <1>10
  <2>2. /\ IsFiniteSet(req'.files) /\ Cardinality(req'.files) <= Cardinality(req.files)
        /\ Cardinality(req'.files) \in Nat
    BY <1>7, <2>1, FS_Subset, FS_CardinalityType
  <2>3. Uploading' = Uploading
    BY <1>5, <1>10 DEF Uploading, Idle
  <2>4. Cardinality(req.files) + Cardinality(Uploading) <= M + Cardinality(Handlers) - 1
    BY DEF UInv
  <2>5. Cardinality(req'.files) + Cardinality(Uploading')
          <= M + Cardinality(Handlers) - 1
    BY <1>7, <1>8, <2>2, <2>3, <2>4
  <2> QED
    BY <1>4, <1>6, <2>2, <2>5 DEF UInv
<1> QED
  BY <1>9, <1>10

\* A submission changes neither the files nor the slots.
LEMMA SubmittedFiles ==
  ASSUME NEW r, r = [x \in Columns |-> r[x]], NEW o
  PROVE  Submitted(r, o).files = r.files /\ Submitted(r, o).slots = r.slots
<1> DEFINE t == r.steps \o [i \in 1 .. Len(Chain(r, o)) |-> NewStep(Chain(r, o)[i])]
           p == [r EXCEPT !.steps = t, !.status = "IN_PROGRESS"]
<1>1. Submitted(r, o) = Log(p, "SUBMITTED", Requester, 0, {})
  BY DEF Submitted
<1> HIDE DEF t
<1>2. p = [x \in Columns |-> p[x]] /\ p.files = r.files /\ p.slots = r.slots
  BY DEF Columns
<1> HIDE DEF p
<1> QED
  BY <1>1, <1>2, LogFiles

\* Nobody uploads before the request exists.
LEMMA CreateUploads ==
  ASSUME NEW M \in Nat, IsFiniteSet(Handlers), Handlers # {},
         \A t \in Templates : t.slots # NoSlots => t.slots.max = M,
         SInv, UInv(M), Create
  PROVE  UInv(M)'
<1>1. PICK f \in Forms, now \in BOOLEAN : Flow!Create(f, now)
  BY DEF Create
<1> DEFINE r == Flow!NewRequest(tpl, f)
<1>2. /\ req' = IF now THEN Submitted(r, org) ELSE r
      /\ req.status = "NONE"
      /\ UNCHANGED session
  <2>1. /\ req' = IF now THEN Flow!Submitted(r, org) ELSE r
        /\ req.status = "NONE"
    BY <1>1 DEF Flow!Create
  <2>2. UNCHANGED session
    BY DEF Create
  <2> QED
    BY <2>1, <2>2, FlowSubmitted
<1>3. r.files = {} /\ r.slots = tpl.slots /\ r = [x \in Columns |-> r[x]]
  BY DEF Flow!NewRequest, Columns
<1> HIDE DEF r
<1>4. Submitted(r, org).files = r.files /\ Submitted(r, org).slots = r.slots
  BY <1>3, SubmittedFiles
<1>5. req'.files = {} /\ req'.slots = tpl.slots
  BY <1>2, <1>3, <1>4
<1>6. \A h \in Handlers : session'[h] = Idle
  BY <1>2 DEF SInv, NothingYet
<1>7. Uploading' = {}
  BY <1>6 DEF Uploading, Idle
<1>8. Cardinality(Handlers) \in Nat /\ Cardinality(Handlers) # 0
  BY FS_CardinalityType, FS_EmptySet
<1>9. Cardinality(req'.files) + Cardinality(Uploading') <= M + Cardinality(Handlers) - 1
  <2>1. Cardinality(req'.files) = 0 /\ Cardinality(Uploading') = 0
    BY <1>5, <1>7, FS_EmptySet
  <2> QED
    BY <1>8, <2>1
<1>10. Allows(M, req'.slots)
  BY <1>5 DEF SInv, Allows
<1>11. IsFiniteSet(req'.files)
  BY <1>5, FS_EmptySet
<1> QED
  BY <1>6, <1>9, <1>10, <1>11 DEF UInv

(***************************************************************************)
(* The check of max_count is made on the files that were loaded: however   *)
(* many uploads overlap, the slot ends with at most one file too many for  *)
(* every other handler (approvals.py:1222).  The bound is the one number   *)
(* all contents of the template agree on; where it is lowered, a submitted *)
(* draft may have had more files all along.                                *)
(***************************************************************************)
THEOREM UploadsBounded ==
  ASSUME NEW M \in Nat, IsFiniteSet(Handlers), Handlers # {},
         \A t \in Templates : t.slots # NoSlots => t.slots.max = M
  PROVE  Spec => []OvershootBounded
<1>1. Init => UInv(M)
  <2> SUFFICES ASSUME Init PROVE UInv(M)
    OBVIOUS
  <2>1. /\ req.files = {} /\ req.slots = NoSlots
        /\ \A h \in Handlers : session[h] = Idle
    BY DEF Init, Flow!Init, Flow!NoRequest
  <2>2. Uploading = {}
    BY <2>1 DEF Uploading, Idle
  <2>3. Cardinality(Handlers) \in Nat /\ Cardinality(Handlers) # 0
    BY FS_CardinalityType, FS_EmptySet
  <2>4. Cardinality(req.files) = 0 /\ Cardinality(Uploading) = 0 /\ IsFiniteSet(req.files)
    BY <2>1, <2>2, FS_EmptySet
  <2> QED
    BY <2>1, <2>3, <2>4 DEF UInv, Allows
<1>2. SInv /\ UInv(M) /\ [Next]_vars => UInv(M)'
  <2> SUFFICES ASSUME SInv, UInv(M), [Next]_vars PROVE UInv(M)'
    OBVIOUS
  <2>1. ASSUME NEW h \in Handlers,
               \/ LoadUpdate(h) \/ LoadSubmit(h) \/ LoadCancel(h) \/ LoadDecision(h)
               \/ LoadComment(h) \/ LoadUpload(h) \/ LoadDeleteFile(h)
        PROVE  UInv(M)'
    <3>1. \E op, me, i, arg : /\ Start(h, Busy(op, me, i, arg))
                              /\ op = "upload" => \E editor : CanUpload(req, tpl, editor)
      <4>1. CASE LoadUpload(h)
        BY <4>1 DEF LoadUpload
      <4>2. CASE \/ LoadUpdate(h) \/ LoadSubmit(h) \/ LoadCancel(h) \/ LoadDecision(h)
                 \/ LoadComment(h) \/ LoadDeleteFile(h)
        <5>1. ASSUME NEW op, NEW me, NEW i, NEW arg, Start(h, Busy(op, me, i, arg)),
                     op # "upload"
              PROVE  \E op2, me2, i2, arg2 :
                       /\ Start(h, Busy(op2, me2, i2, arg2))
                       /\ op2 = "upload" => \E editor : CanUpload(req, tpl, editor)
          BY <5>1
        <5>2. \E op \in Ops \ {"upload"} : \E me, i, arg : Start(h, Busy(op, me, i, arg))
          BY <4>2 DEF LoadUpdate, LoadSubmit, LoadCancel, LoadDecision, LoadComment,
                      LoadDeleteFile, Ops
        <5> QED
          BY <5>1, <5>2
      <4> QED
        BY <2>1, <4>1, <4>2
    <3> QED
      BY <3>1, LoadUploads
  <2>2. ASSUME NEW h \in Handlers, Abort(h)
        PROVE  UInv(M)'
    <3>1. session' = [session EXCEPT ![h] = Idle] /\ UNCHANGED req
      BY <2>2 DEF Abort
    <3>2. \A g \in Handlers : session'[g] = Idle \/ session'[g] = session[g]
      BY <3>1 DEF SInv
    <3>3. Uploading' \subseteq Uploading
      BY <3>2 DEF Uploading, Idle
    <3>4. /\ Cardinality(Uploading') <= Cardinality(Uploading)
          /\ Cardinality(Uploading') \in Nat /\ Cardinality(Uploading) \in Nat
          /\ Cardinality(Handlers) \in Nat
      BY <3>3, UploadingFinite, FS_Subset, FS_CardinalityType
    <3>5. Cardinality(req.files) \in Nat
      BY FS_CardinalityType DEF UInv
    <3>6. Cardinality(req'.files) + Cardinality(Uploading')
            <= M + Cardinality(Handlers) - 1
      BY <3>1, <3>4, <3>5 DEF UInv
    <3> QED
      BY <3>1, <3>2, <3>6 DEF UInv
  <2>3. CASE EditTemplate \/ Reorganise \/ UNCHANGED vars
    BY <2>3 DEF EditTemplate, Reorganise, Flow!EditTemplate, Flow!Reorganise, vars, UInv,
                Uploading
  <2> QED
    BY <2>1, <2>2, <2>3, CreateUploads, CommitUploads DEF Next
<1>3. SInv /\ UInv(M) => OvershootBounded
  <2> SUFFICES ASSUME SInv, UInv(M), SlotsInForce(req, tpl) # NoSlots
               PROVE  Cardinality(req.files)
                        <= SlotsInForce(req, tpl).max + Cardinality(Handlers) - 1
    BY DEF OvershootBounded
  <2>1. SlotsInForce(req, tpl).max = M
    BY DEF SlotsInForce, UInv, Allows, SInv
  <2>2. /\ Cardinality(Uploading) \in Nat /\ Cardinality(Handlers) \in Nat
        /\ Cardinality(req.files) \in Nat
    BY UploadingFinite, FS_CardinalityType DEF UInv
  <2> QED
    BY <2>1, <2>2 DEF UInv
<1>4. SInv /\ UInv(M) /\ [Next]_vars => SInv' /\ UInv(M)'
  BY <1>2, NextSafe
<1> QED
  BY InitSInv, <1>1, <1>3, <1>4, PTL DEF Spec

-----------------------------------------------------------------------------
(***************************************************************************)
(* A commit over a request that nobody has touched since the load.         *)
(***************************************************************************)

\* q has the columns that no handler ever writes as r has them.
Fixed(r, q) ==
  /\ q.rules = r.rules
  /\ \A i \in 1 .. Len(r.steps) :
       /\ q.steps[i].approver = r.steps[i].approver
       /\ q.steps[i].rule = r.steps[i].rule
       /\ q.steps[i].index = r.steps[i].index
       /\ q.steps[i].from = r.steps[i].from

\* At most one entry is added.
OneEntry(r, q) == q.history = r.history \/ \E e \in HRow : q.history = Append(r.history, e)

LEMMA WrittenRowAlone ==
  ASSUME NEW a \in Row, NEW b \in Row, b.approver = a.approver, b.rule = a.rule,
         b.index = a.index, b.from = a.from
  PROVE  WrittenRow(a, b, a) = b
<1>1. Written(a.no, b.no, a.no) = b.no /\ Written(a.status, b.status, a.status) = b.status
  BY DEF Written
<1>2. WrittenRow(a, b, a) = [a EXCEPT !.no = b.no, !.status = b.status]
  BY <1>1 DEF WrittenRow
<1>3. \A x, y : x = b.no /\ y = b.status => [a EXCEPT !.no = x, !.status = y] = b
  BY DEF Row
<1>4. [a EXCEPT !.no = b.no, !.status = b.status] = b
  BY <1>3
<1> QED
  BY <1>2, <1>4

LEMMA MergeAlone ==
  ASSUME NEW r, IsRequest(r), r.history \in Seq(HRow),
         NEW q, IsRequest(q), Len(r.steps) <= Len(q.steps), Fixed(r, q), OneEntry(r, q)
  PROVE  Merge(r, q, r) = q
<1> DEFINE kept == [j \in DOMAIN r.steps |->
                      IF j \in DOMAIN r.steps
                      THEN WrittenRow(r.steps[j], q.steps[j], r.steps[j])
                      ELSE r.steps[j]]
           n == Len(r.steps)
           added == Added(r.steps, q.steps)
           m == Merge(r, q, r)
<1>1. /\ r.steps \in Seq(Row) /\ q.steps \in Seq(Row) /\ n \in Nat /\ Len(q.steps) \in Nat
      /\ DOMAIN r.steps = 1 .. n
      /\ \A j \in 1 .. n : r.steps[j] \in Row
      /\ \A j \in 1 .. Len(q.steps) : q.steps[j] \in Row
  <2>1. r.steps \in Seq(Row) /\ q.steps \in Seq(Row)
    BY DEF IsRequest
  <2> QED
    BY <2>1
<1>2. \A j \in 1 .. n : kept[j] = q.steps[j] /\ kept[j] \in Row
  <2> SUFFICES ASSUME NEW j \in 1 .. n PROVE kept[j] = q.steps[j] /\ kept[j] \in Row
    OBVIOUS
  <2>1. kept[j] = WrittenRow(r.steps[j], q.steps[j], r.steps[j])
    BY <1>1
  <2>2. r.steps[j] \in Row /\ q.steps[j] \in Row
    <3>1. j \in 1 .. Len(q.steps)
      BY <1>1
    <3> QED
      BY <1>1, <3>1
  <2>3. WrittenRow(r.steps[j], q.steps[j], r.steps[j]) = q.steps[j]
    BY <2>2, WrittenRowAlone DEF Fixed
  <2> QED
    BY <2>1, <2>2, <2>3
<1>3. kept \in Seq(Row) /\ Len(kept) = n
  <2>1. kept = [j \in 1 .. n |-> kept[j]]
    BY <1>1
  <2>2. \A j \in 1 .. n : kept[j] \in Row
    BY <1>2
  <2> HIDE DEF kept, n
  <2> QED
    BY <1>1, <2>1, <2>2, SeqOf
<1>4. /\ added \in Seq(Row) /\ Len(added) = Len(q.steps) - n
      /\ \A j \in 1 .. Len(added) : added[j] = q.steps[n + j]
  BY <1>1, AddedRows
<1>5. m.steps = kept \o added
  BY DEF Merge
<1> HIDE DEF kept, added
<1>6. kept \o added = q.steps
  <2> DEFINE k == kept \o added
             s == q.steps
  <2> HIDE DEF n, s
  <2>0. Len(s) \in Nat /\ n \in Nat /\ Len(added) = Len(s) - n
    BY <1>1, <1>4 DEF s
  <2>1. /\ k \in Seq(Row) /\ Len(k) = Len(s)
        /\ \A j \in 1 .. n : k[j] = kept[j]
        /\ \A j \in 1 .. Len(added) : k[n + j] = added[j]
    BY <1>3, <1>4, <2>0
  <2>2. ASSUME NEW j \in 1 .. Len(s)
        PROVE  k[j] = s[j]
    <3>1. CASE j \in 1 .. n
      BY <1>2, <2>1, <3>1 DEF s
    <3>2. CASE j \notin 1 .. n
      <4> HIDE DEF k
      <4>1. j - n \in 1 .. Len(added) /\ j = n + (j - n)
        BY <2>0, <3>2
      <4>2. k[n + (j - n)] = added[j - n] /\ added[j - n] = s[n + (j - n)]
        BY <1>4, <2>1, <4>1 DEF s
      <4> QED
        BY <4>1, <4>2
    <3> QED
      BY <3>1, <3>2
  <2> HIDE DEF k, s
  <2>3. s \in Seq(Row)
    BY <1>1 DEF s
  <2>4. k = s
    BY <2>1, <2>2, <2>3
  <2> QED
    BY <2>4 DEF k, s
<1>7. m.history = q.history
  <2>1. m.history = r.history \o Added(r.history, q.history)
    BY DEF Merge
  <2>2. CASE q.history = r.history
    BY <2>1, <2>2, AddedHistory
  <2>3. CASE \E e \in HRow : q.history = Append(r.history, e)
    <3>1. PICK e \in HRow : q.history = Append(r.history, e)
      BY <2>3
    <3>2. r.history \o Added(r.history, Append(r.history, e)) = Append(r.history, e)
      BY AddedHistory
    <3> QED
      BY <2>1, <3>1, <3>2
  <2> QED
    BY <2>2, <2>3 DEF OneEntry
<1>8. m.rules = q.rules
  BY DEF Merge, Fixed
<1>9. m.status = q.status /\ m.form = q.form /\ m.slots = q.slots
  BY DEF Merge, Written
<1>10. m.files = q.files
  <2>1. m.files = (r.files \ (r.files \ q.files)) \cup (q.files \ r.files)
    BY DEF Merge
  <2> QED
    BY <2>1
<1>11. m = [x \in Columns |-> m[x]]
  BY DEF Merge, Columns
<1>12. q = [x \in Columns |-> q[x]]
  BY DEF IsRequest
<1> HIDE DEF m
<1>13. \A x \in Columns : m[x] = q[x]
  BY <1>5, <1>6, <1>7, <1>8, <1>9, <1>10 DEF Columns
<1>14. m = q
  BY <1>11, <1>12, <1>13
<1> QED
  BY <1>14 DEF m

\* Two lists of rows that differ in numbers and statuses at most.
SameRows(s, t) ==
  \A i \in 1 .. Len(s) :
    /\ t[i].approver = s[i].approver
    /\ t[i].rule = s[i].rule
    /\ t[i].index = s[i].index
    /\ t[i].from = s[i].from

LEMMA SetStatusSame ==
  ASSUME NEW s \in Seq(Row), NEW ids, NEW v
  PROVE  Len(SetStatus(s, ids, v)) = Len(s) /\ SameRows(s, SetStatus(s, ids, v))
<1>1. Len(s) \in Nat /\ DOMAIN s = 1 .. Len(s) /\ \A j \in 1 .. Len(s) : s[j] \in Row
  OBVIOUS
<1>2. SetStatus(s, ids, v) = [j \in 1 .. Len(s) |->
                                IF j \in ids THEN [s[j] EXCEPT !.status = v] ELSE s[j]]
  BY <1>1 DEF SetStatus
<1> QED
  BY <1>1, <1>2 DEF Row, SameRows

\* A handler that rewrites some rows and adds an entry.
LEMMA StepsFixed ==
  ASSUME NEW r, IsRequest(r), NEW t, SameRows(r.steps, t), NEW st,
         NEW ev, NEW me, NEW i, NEW sk
  PROVE  Fixed(r, Log([r EXCEPT !.steps = t, !.status = st], ev, me, i, sk))
<1> DEFINE q == [r EXCEPT !.steps = t, !.status = st]
           o == Log(q, ev, me, i, sk)
<1>1. q.steps = t /\ q.rules = r.rules /\ q = [x \in Columns |-> q[x]]
  BY DEF IsRequest, Columns
<1> HIDE DEF q
<1>2. o.steps = t /\ o.rules = r.rules
  BY <1>1 DEF Log, Columns
<1> HIDE DEF o
<1>3. Fixed(r, o)
  BY <1>2 DEF Fixed, SameRows
<1> QED
  BY <1>3 DEF o, q

LEMMA SubmitFixed ==
  ASSUME NEW r, IsRequest(r), NEW o \in Orgs
  PROVE  Fixed(r, Submitted(r, o))
<1> DEFINE c == Chain(r, o)
           new == [i \in 1 .. Len(c) |-> NewStep(c[i])]
           t == r.steps \o new
<1>1. Submitted(r, o) = Log([r EXCEPT !.steps = t, !.status = "IN_PROGRESS"],
                            "SUBMITTED", Requester, 0, {})
  BY DEF Submitted
<1>2. Len(c) \in Nat
  <2>1. r.rules \in Seq(Rules) /\ IsOrg(o)
    BY SessionsAssumption DEF IsRequest
  <2>2. IsChain(c)
    BY <2>1, EvaluatedIsChain DEF Chain
  <2> HIDE DEF c
  <2> QED
    BY <2>2 DEF IsChain
<1>3. new \in Seq({NewStep(c[i]) : i \in 1 .. Len(c)}) /\ Len(new) = Len(c)
  <2> HIDE DEF c
  <2> QED
    BY <1>2
<1>4. r.steps \in Seq(Row)
  BY DEF IsRequest
<1> HIDE DEF new, c
<1>5. SameRows(r.steps, t)
  <2>1. \A j \in 1 .. Len(r.steps) : t[j] = r.steps[j]
    BY <1>2, <1>3, <1>4
  <2> HIDE DEF t
  <2> QED
    BY <2>1 DEF SameRows
<1> HIDE DEF t
<1>6. Fixed(r, Log([r EXCEPT !.steps = t, !.status = "IN_PROGRESS"],
                   "SUBMITTED", Requester, 0, {}))
  BY <1>5, StepsFixed, Zenon
<1> QED
  BY <1>1, <1>6, Zenon

LEMMA DecisionFixed ==
  ASSUME NEW r, IsRequest(r), NEW i, NEW me, NEW d, d \in StepStatuses \ {"PENDING"},
         NEW ids, NEW st, NEW sk
  PROVE  Fixed(r, Log([r EXCEPT !.steps = SetStatus(SetStatus(r.steps, {i}, d), ids, "SKIPPED"),
                                !.status = st], d, me, i, sk))
<1> DEFINE a == SetStatus(r.steps, {i}, d)
           t == SetStatus(a, ids, "SKIPPED")
<1>1. r.steps \in Seq(Row)
  BY DEF IsRequest
<1>2. a \in Seq(Row) /\ Len(a) = Len(r.steps) /\ SameRows(r.steps, a)
  BY <1>1, SetStatusSame, SetStatusContinues
<1> HIDE DEF a
<1>3. Len(t) = Len(a) /\ SameRows(a, t)
  BY <1>2, SetStatusSame
<1> HIDE DEF t
<1>4. SameRows(r.steps, t)
  BY <1>2, <1>3 DEF SameRows
<1>5. Fixed(r, Log([r EXCEPT !.steps = t, !.status = st], d, me, i, sk))
  BY <1>4, StepsFixed, Zenon
<1> QED
  BY <1>5 DEF t, a

LEMMA DelegateFixed ==
  ASSUME NEW r, IsRequest(r), NEW i \in 1 .. Len(r.steps), NEW me, NEW target
  PROVE  Fixed(r, Delegated(r, i, me, target))
<1> DEFINE n == Len(r.steps)
           newNo == r.steps[i].no + 1
           moved == [j \in DOMAIN r.steps |->
                       IF j = i THEN [r.steps[j] EXCEPT !.status = "DELEGATED"]
                       ELSE IF r.steps[j].no >= newNo THEN [r.steps[j] EXCEPT !.no = @ + 1]
                       ELSE r.steps[j]]
           copy == [no |-> newNo, approver |-> target, rule |-> r.steps[i].rule,
                    index |-> r.steps[i].index, status |-> "PENDING", from |-> i]
           v == Append(moved, copy)
           q == [r EXCEPT !.steps = v]
           o == Delegated(r, i, me, target)
<1>1. n \in Nat /\ DOMAIN r.steps = 1 .. n /\ \A j \in 1 .. n : r.steps[j] \in Row
  <2>1. r.steps \in Seq(Row)
    BY DEF IsRequest
  <2> QED
    BY <2>1
<1>2. ASSUME NEW j \in 1 .. n
      PROVE  /\ moved[j].approver = r.steps[j].approver
             /\ moved[j].rule = r.steps[j].rule
             /\ moved[j].index = r.steps[j].index
             /\ moved[j].from = r.steps[j].from
  <2>1. r.steps[j] \in Row
    BY <1>1
  <2> HIDE DEF newNo
  <2> QED
    BY <1>1, <2>1 DEF Row
<1> DEFINE X == {moved[j] : j \in 1 .. n} \cup {copy}
<1>3. moved \in Seq(X) /\ Len(moved) = n /\ copy \in X
  <2>1. moved = [j \in 1 .. n |-> moved[j]]
    BY <1>1
  <2> HIDE DEF moved, n, copy
  <2>2. \A j \in 1 .. n : moved[j] \in X
    OBVIOUS
  <2>3. copy \in X
    OBVIOUS
  <2> HIDE DEF X
  <2> QED
    BY <1>1, <2>1, <2>2, <2>3, SeqOf
<1>4. o = Log(q, "DELEGATED", me, i, {})
  BY DEF Delegated
<1> HIDE DEF moved, copy, X
<1>5. \A j \in 1 .. n : v[j] = moved[j]
  BY <1>1, <1>3
<1> HIDE DEF v, o
<1>6. q.steps = v /\ q.rules = r.rules /\ q = [x \in Columns |-> q[x]]
  BY DEF IsRequest, Columns
<1> HIDE DEF q
<1>7. o.steps = v /\ o.rules = r.rules
  BY <1>4, <1>6 DEF Log, Columns
<1>8. Fixed(r, o)
  BY <1>2, <1>5, <1>7 DEF Fixed
<1> QED
  BY <1>8 DEF o

\* What each handler makes of its request differs in the written columns only.
LEMMA OutcomeFixed ==
  ASSUME NEW s, IsSession(s), s # Idle, org \in Orgs
  PROVE  Fixed(s.snap, Outcome(s))
<1> DEFINE r == s.snap
<1>1. s.op \in Ops /\ IsRequest(r)
  BY DEF IsSession
<1>2. ASSUME NEW q, q.steps = r.steps, q.rules = r.rules
      PROVE  Fixed(r, q)
  BY <1>2 DEF Fixed
<1>3. {"APPROVED", "REJECTED"} \subseteq StepStatuses \ {"PENDING"}
  BY DEF StepStatuses, Decided
<1> HIDE DEF r
<1>4. CASE s.op = "update"
  <2>1. Outcome(s) = [r EXCEPT !.form = s.arg]
    BY <1>4 DEF Outcome, r
  <2>2. Outcome(s).steps = r.steps /\ Outcome(s).rules = r.rules
    BY <1>1, <2>1 DEF IsRequest, Columns
  <2> QED
    BY <1>2, <2>2 DEF r
<1>5. CASE s.op = "submit"
  <2> DEFINE q == RefreshSlots(r, tpl)
             o == Submitted(q, org)
  <2>1. Outcome(s) = o
    BY <1>5 DEF Outcome, r
  <2>2. IsRequest(q) /\ q.steps = r.steps /\ q.rules = r.rules
    <3>1. /\ IsRequest([r EXCEPT !.slots = tpl.slots])
          /\ [r EXCEPT !.slots = tpl.slots].steps = r.steps
      BY <1>1, SameStepsOutcome
    <3>2. [r EXCEPT !.slots = tpl.slots].rules = r.rules
      BY <1>1 DEF IsRequest, Columns
    <3> QED
      BY <1>1, <3>1, <3>2 DEF RefreshSlots
  <2> HIDE DEF q
  <2>3. Fixed(q, o)
    BY <2>2, SubmitFixed
  <2> HIDE DEF o
  <2>4. Fixed(r, o)
    BY <2>2, <2>3 DEF Fixed
  <2> QED
    BY <2>1, <2>4 DEF r
<1>6. CASE s.op = "cancel"
  <2> DEFINE t == SetStatus(r.steps, Pending(r.steps), "SKIPPED")
  <2>1. Outcome(s) = Log([r EXCEPT !.status = "CANCELLED", !.steps = t],
                         "CANCELLED", Requester, 0, {})
    BY <1>6 DEF Outcome, Cancelled, r
  <2>2. SameRows(r.steps, t)
    BY <1>1, SetStatusSame DEF IsRequest
  <2> DEFINE q == [r EXCEPT !.status = "CANCELLED", !.steps = t]
  <2> HIDE DEF t
  <2>3. q.steps = t /\ q.rules = r.rules /\ q = [x \in Columns |-> q[x]]
    BY <1>1 DEF IsRequest, Columns
  <2> HIDE DEF q
  <2>4. Outcome(s).steps = t /\ Outcome(s).rules = r.rules
    BY <2>1, <2>3 DEF Log, Columns, q
  <2> QED
    BY <2>2, <2>4 DEF Fixed, SameRows, r
<1>7. CASE s.op = "approve"
  <2> DEFINE sk == AutoSkipped(r, org, s.step)
             u == SetStatus(SetStatus(r.steps, {s.step}, "APPROVED"), sk, "SKIPPED")
             st == IF Pending(u) = {} THEN "APPROVED" ELSE r.status
  <2>1. Outcome(s) = Log([r EXCEPT !.steps = u, !.status = st], "APPROVED", s.me, s.step, sk)
    BY <1>7 DEF Outcome, Approved, r
  <2> HIDE DEF st, sk
  <2>2. Fixed(r, Log([r EXCEPT !.steps = u, !.status = st], "APPROVED", s.me, s.step, sk))
    BY <1>1, <1>3, DecisionFixed
  <2> HIDE DEF u
  <2> QED
    BY <2>1, <2>2, Zenon DEF r
<1>8. CASE s.op = "reject"
  <2> DEFINE later == {j \in Pending(r.steps) : r.steps[j].no > r.steps[s.step].no}
             u == SetStatus(SetStatus(r.steps, {s.step}, "REJECTED"), later, "SKIPPED")
  <2>1. Outcome(s) = Log([r EXCEPT !.steps = u, !.status = "REJECTED"],
                         "REJECTED", s.me, s.step, {})
    BY <1>8 DEF Outcome, Rejected, r
  <2> HIDE DEF later
  <2>2. Fixed(r, Log([r EXCEPT !.steps = u, !.status = "REJECTED"],
                     "REJECTED", s.me, s.step, {}))
    BY <1>1, <1>3, DecisionFixed
  <2> HIDE DEF u
  <2> QED
    BY <2>1, <2>2, Zenon DEF r
<1>9. CASE s.op = "delegate"
  <2>1. Outcome(s) = Delegated(r, s.step, s.me, s.arg)
    BY <1>9 DEF Outcome, r
  <2>2. s.step \in 1 .. Len(r.steps)
    BY <1>9 DEF IsSession, r
  <2> QED
    BY <1>1, <2>1, <2>2, DelegateFixed DEF r
<1>10. CASE s.op = "comment"
  <2>1. Outcome(s) = Log(r, "COMMENTED", s.me, 0, {})
    BY <1>10 DEF Outcome, Commented, r
  <2>2. Outcome(s).steps = r.steps /\ Outcome(s).rules = r.rules
    BY <1>1, <2>1, LogKeeps
  <2> QED
    BY <1>2, <2>2 DEF r
<1>11. CASE s.op \in {"upload", "deletefile"}
  <2>1. \E x : Outcome(s) = [r EXCEPT !.files = x]
    BY <1>11 DEF Outcome, r
  <2>2. PICK x : Outcome(s) = [r EXCEPT !.files = x]
    BY <2>1
  <2>3. Outcome(s).steps = r.steps /\ Outcome(s).rules = r.rules
    BY <1>1, <2>2 DEF IsRequest, Columns
  <2> QED
    BY <1>2, <2>3 DEF r
<1> QED
  BY <1>1, <1>4, <1>5, <1>6, <1>7, <1>8, <1>9, <1>10, <1>11 DEF Ops

-----------------------------------------------------------------------------
LEMMA FlowCardinality ==
  ASSUME NEW S
  PROVE  Flow!Cardinality(S) = Cardinality(S)
BY Zenon DEF Cardinality, Flow!Cardinality

\* The operators of the workflow, as ApprovalFlow sees them.
LEMMA FlowGuards ==
  ASSUME NEW r, NEW t, NEW o, NEW i, NEW me, NEW x
  PROVE  /\ Flow!EnsureMyPending(r, i, me) = EnsureMyPending(r, i, me)
         /\ Flow!HasRequiredFiles(r, t) = HasRequiredFiles(r, t)
         /\ Flow!CanCancel(r) = CanCancel(r)
         /\ Flow!CanComment(r, me) = CanComment(r, me)
         /\ Flow!CanModifyFiles(r, x) = CanModifyFiles(r, x)
         /\ Flow!CanUpload(r, t, x) = CanUpload(r, t, x)
         /\ Flow!CanDelegate(r, o, me, x) = CanDelegate(r, o, me, x)
         /\ Flow!RefreshSlots(r, t) = RefreshSlots(r, t)
<1>1. /\ Flow!EnsureMyPending(r, i, me) = EnsureMyPending(r, i, me)
      /\ Flow!CanCancel(r) = CanCancel(r)
      /\ Flow!CanComment(r, me) = CanComment(r, me)
  BY Zenon DEF EnsureMyPending, EarlierPending, Open, CanCancel, CanComment,
         Flow!EnsureMyPending, Flow!EarlierPending, Flow!Open, Flow!CanCancel, Flow!CanComment
<1>2. /\ Flow!HasRequiredFiles(r, t) = HasRequiredFiles(r, t)
      /\ Flow!CanModifyFiles(r, x) = CanModifyFiles(r, x)
      /\ Flow!CanUpload(r, t, x) = CanUpload(r, t, x)
  BY FlowCardinality, Zenon DEF HasRequiredFiles, CanModifyFiles, CanUpload, SlotsInForce,
         Closed, Flow!HasRequiredFiles, Flow!CanModifyFiles, Flow!CanUpload, Flow!SlotsInForce,
         Flow!Closed
<1>3. /\ Flow!CanDelegate(r, o, me, x) = CanDelegate(r, o, me, x)
      /\ Flow!RefreshSlots(r, t) = RefreshSlots(r, t)
  BY Zenon DEF CanDelegate, RefreshSlots, Flow!CanDelegate, Flow!RefreshSlots
<1> QED
  BY <1>1, <1>2, <1>3

LEMMA FlowEffects ==
  ASSUME NEW r, NEW o, NEW i, NEW me, NEW x
  PROVE  /\ Flow!Cancelled(r) = Cancelled(r)
         /\ Flow!Approved(r, o, i, me) = Approved(r, o, i, me)
         /\ Flow!Rejected(r, i, me) = Rejected(r, i, me)
         /\ Flow!Delegated(r, i, me, x) = Delegated(r, i, me, x)
         /\ Flow!Commented(r, me) = Commented(r, me)
<1>1. /\ Flow!Cancelled(r) = Cancelled(r)
      /\ Flow!Rejected(r, i, me) = Rejected(r, i, me)
      /\ Flow!Commented(r, me) = Commented(r, me)
  BY Zenon DEF Cancelled, Rejected, Commented, Log, Entry, SetStatus, Pending,
         Flow!Cancelled, Flow!Rejected, Flow!Commented, Flow!Log, Flow!Entry,
         Flow!SetStatus, Flow!Pending
<1>2. Flow!Approved(r, o, i, me) = Approved(r, o, i, me)
  BY Zenon DEF Approved, AutoSkipped, GradeCovers, Log, Entry, SetStatus, Pending,
         Flow!Approved, Flow!AutoSkipped, Flow!GradeCovers, Flow!Log, Flow!Entry,
         Flow!SetStatus, Flow!Pending
<1>3. Flow!Delegated(r, i, me, x) = Delegated(r, i, me, x)
  BY Zenon DEF Delegated, Log, Entry, Flow!Delegated, Flow!Log, Flow!Entry
<1> QED
  BY <1>1, <1>2, <1>3

LEMMA FlowCanSubmit ==
  ASSUME NEW r, NEW t, NEW o
  PROVE  Flow!CanSubmit(r, t, o) = CanSubmit(r, t, o)
BY FlowGuards, FlowChain, Zenon DEF CanSubmit, Flow!CanSubmit

-----------------------------------------------------------------------------
(***************************************************************************)
(* One handler: until it commits, the request is the one it loaded and     *)
(* what it tested still holds, whatever becomes of template and chart.     *)
(***************************************************************************)
Ready(s) ==
  s # Idle =>
    /\ s.snap = req
    /\ s.op \in {"update", "submit"} => req.status = "DRAFT"
    /\ s.op = "update" => s.arg \in Forms
    /\ s.op = "cancel" => CanCancel(req)
    /\ s.op \in {"approve", "reject", "delegate"} => EnsureMyPending(req, s.step, s.me)
    /\ s.op = "approve" => HasRequiredFiles(req, tpl)
    /\ s.op = "delegate" => Len(req.steps) < MaxSteps /\ s.arg \in Devs \ {s.me, Requester}
    /\ s.op = "comment" => Len(req.history) < MaxHistory /\ CanComment(req, s.me)
    /\ s.op = "upload" => /\ s.arg \in FileIds \ req.files
                          /\ \E editor \in Editors : CanUpload(req, tpl, editor)
    /\ s.op = "deletefile" => /\ s.arg \in req.files
                              /\ \E editor \in Editors : CanModifyFiles(req, editor)

RInv ==
  /\ SInv /\ DInv
  /\ req.status # "NONE" => (req.slots = NoSlots <=> tpl.slots = NoSlots)
  /\ req.files \subseteq FileIds
  /\ \A h \in Handlers : Ready(session[h])

\* Editing the template neither gives it attachment slots nor takes them away.
SlotsStay == \A t, u \in Templates : t.slots = NoSlots <=> u.slots = NoSlots

\* What a request may do does not depend on the template's slots, when it has
\* slots of its own or when there are none.
LEMMA OwnSlots ==
  ASSUME NEW r, NEW t, NEW u, NEW x,
         r.slots = NoSlots => t.slots = NoSlots /\ u.slots = NoSlots
  PROVE  /\ HasRequiredFiles(r, t) = HasRequiredFiles(r, u)
         /\ CanUpload(r, t, x) = CanUpload(r, u, x)
BY Zenon DEF HasRequiredFiles, CanUpload, SlotsInForce

LEMMA LoadReady ==
  ASSUME RInv, NEW h \in Handlers,
         \/ LoadUpdate(h) \/ LoadSubmit(h) \/ LoadCancel(h) \/ LoadDecision(h)
         \/ LoadComment(h) \/ LoadUpload(h) \/ LoadDeleteFile(h)
  PROVE  RInv' /\ UNCHANGED <<org, tpl, req>>
<1>1. \E s : Start(h, s) /\ Ready(s)
  <2>1. CASE LoadUpdate(h)
    <3>1. PICK f \in Forms : Start(h, Busy("update", Requester, 0, f)) /\ req.status = "DRAFT"
      BY <2>1 DEF LoadUpdate
    <3>2. Ready(Busy("update", Requester, 0, f))
      BY <3>1 DEF Ready, Busy
    <3> QED  BY <3>1, <3>2
  <2>2. CASE LoadSubmit(h)
    <3>1. Start(h, Busy("submit", Requester, 0, NoDev)) /\ req.status = "DRAFT"
      BY <2>2 DEF LoadSubmit
    <3>2. Ready(Busy("submit", Requester, 0, NoDev))
      BY <3>1 DEF Ready, Busy
    <3> QED  BY <3>1, <3>2
  <2>3. CASE LoadCancel(h)
    <3>1. Start(h, Busy("cancel", Requester, 0, NoDev)) /\ CanCancel(req)
      BY <2>3 DEF LoadCancel
    <3>2. Ready(Busy("cancel", Requester, 0, NoDev))
      BY <3>1 DEF Ready, Busy
    <3> QED  BY <3>1, <3>2
  <2>4. CASE LoadDecision(h)
    <3>1. PICK me \in Devs, i \in DOMAIN req.steps :
            /\ EnsureMyPending(req, i, me)
            /\ \/ HasRequiredFiles(req, tpl) /\ Start(h, Busy("approve", me, i, NoDev))
               \/ Start(h, Busy("reject", me, i, NoDev))
               \/ /\ Len(req.steps) < MaxSteps
                  /\ \E target \in Devs \ {me, Requester} :
                       Start(h, Busy("delegate", me, i, target))
      BY <2>4 DEF LoadDecision
    <3>2. HasRequiredFiles(req, tpl) => Ready(Busy("approve", me, i, NoDev))
      BY <3>1 DEF Ready, Busy
    <3>3. Ready(Busy("reject", me, i, NoDev))
      BY <3>1 DEF Ready, Busy
    <3>4. ASSUME Len(req.steps) < MaxSteps, NEW target \in Devs \ {me, Requester}
          PROVE  Ready(Busy("delegate", me, i, target))
      BY <3>1, <3>4 DEF Ready, Busy
    <3> QED  BY <3>1, <3>2, <3>3, <3>4
  <2>5. CASE LoadComment(h)
    <3>1. PICK me \in Devs : /\ Start(h, Busy("comment", me, 0, NoDev))
                             /\ Len(req.history) < MaxHistory /\ CanComment(req, me)
      BY <2>5 DEF LoadComment
    <3>2. Ready(Busy("comment", me, 0, NoDev))
      BY <3>1 DEF Ready, Busy
    <3> QED  BY <3>1, <3>2
  <2>6. CASE LoadUpload(h)
    <3>1. PICK f \in FileIds \ req.files, editor \in Editors :
            Start(h, Busy("upload", Requester, 0, f)) /\ CanUpload(req, tpl, editor)
      BY <2>6 DEF LoadUpload
    <3>2. Ready(Busy("upload", Requester, 0, f))
      BY <3>1 DEF Ready, Busy
    <3> QED  BY <3>1, <3>2
  <2>7. CASE LoadDeleteFile(h)
    <3>1. PICK f \in req.files, editor \in Editors :
            Start(h, Busy("deletefile", Requester, 0, f)) /\ CanModifyFiles(req, editor)
      BY <2>7 DEF LoadDeleteFile
    <3>2. Ready(Busy("deletefile", Requester, 0, f))
      BY <3>1 DEF Ready, Busy
    <3> QED  BY <3>1, <3>2
  <2> QED
    BY <2>1, <2>2, <2>3, <2>4, <2>5, <2>6, <2>7
<1>2. PICK s : Start(h, s) /\ Ready(s)
  BY <1>1
<1>3. session' = [session EXCEPT ![h] = s] /\ UNCHANGED <<org, tpl, req>>
  BY <1>2 DEF Start
<1>4. SInv' /\ DInv'
  BY LoadSafe, LoadTraced DEF RInv
<1>5. \A g \in Handlers : session'[g] = s \/ session'[g] = session[g]
  BY <1>3 DEF RInv, SInv
<1>6. ASSUME NEW x, Ready(x)
      PROVE  Ready(x)'
  BY <1>3, <1>6 DEF Ready
<1>7. ASSUME NEW g \in Handlers
      PROVE  Ready(session[g])'
  BY <1>2, <1>3, <1>5 DEF RInv, Ready
<1> QED
  BY <1>3, <1>4, <1>7 DEF RInv

\* The commit of the only handler is the step of the workflow it stands for.
LEMMA CommitIsFlow ==
  ASSUME RInv, NEW h \in Handlers, Commit(h)
  PROVE  /\ Flow!Next
         /\ req'.slots = NoSlots <=> tpl'.slots = NoSlots
         /\ req'.files \subseteq FileIds
<1> DEFINE s == session[h]
           o == Outcome(s)
<1>1. /\ s # Idle /\ IsSession(s) /\ Anchored(s, req) /\ Ready(s) /\ MayCommit(s)
      /\ req' = Merge(s.snap, o, req)
      /\ UNCHANGED <<org, tpl>>
  BY DEF Commit, RInv, SInv, DInv
<1>2. /\ IsRequest(req) /\ s.snap = req /\ s.op \in Ops /\ s.me \in Devs
      /\ req.history \in Seq(HRow)
      /\ s.op \in {"approve", "reject", "delegate"} => s.step \in 1 .. Len(req.steps)
  BY <1>1 DEF RInv, SInv, Anchored, Ready, IsSession
<1>3. IsRequest(o) /\ Continues(req, o) /\ Notes(req, o) /\ Fixed(req, o)
  BY <1>1, <1>2, OutcomeContinues, OutcomeNotes, OutcomeFixed DEF Anchored, RInv, SInv
<1>4. req' = o
  <2>1. OneEntry(req, o) /\ Len(req.steps) <= Len(o.steps)
    BY <1>3 DEF OneEntry, Notes, Continues
  <2> HIDE DEF o, s
  <2> QED
    BY <1>1, <1>2, <1>3, <2>1, MergeAlone
<1>5. /\ o.files = IF s.op = "upload" THEN req.files \cup {s.arg}
                   ELSE IF s.op = "deletefile" THEN req.files \ {s.arg} ELSE req.files
      /\ o.slots = req.slots \/ (tpl.slots # NoSlots /\ o.slots = tpl.slots)
  BY <1>1, <1>2, OutcomeFiles
<1>6. req.status # "NONE"
  BY <1>1 DEF RInv, SInv, NothingYet
<1>7. req'.slots = NoSlots <=> tpl'.slots = NoSlots
  <2>1. req.slots = NoSlots <=> tpl.slots = NoSlots
    BY <1>6 DEF RInv
  <2>2. req'.slots = o.slots /\ tpl' = tpl
    BY <1>1, <1>4
  <2> HIDE DEF o
  <2> QED
    BY <1>5, <2>1, <2>2
<1>8. req'.files \subseteq FileIds
  BY <1>1, <1>4, <1>5 DEF Ready, RInv
<1>9. DOMAIN req.steps = 1 .. Len(req.steps)
  BY ReqFacts DEF RInv, SInv
<1> HIDE DEF s, o
<1>10. Flow!Next
  <2>1. CASE s.op = "update"
    <3>1. req' = [req EXCEPT !.form = s.arg] /\ req.status = "DRAFT" /\ s.arg \in Forms
      BY <1>1, <1>2, <1>4, <2>1 DEF Outcome, o, Ready
    <3>2. Flow!Update(s.arg)
      BY <1>1, <3>1 DEF Flow!Update
    <3> QED  BY <3>1, <3>2 DEF Flow!Next
  <2>2. CASE s.op = "submit"
    <3>1. /\ req' = Submitted(RefreshSlots(req, tpl), org) /\ req.status = "DRAFT"
          /\ CanSubmit(RefreshSlots(req, tpl), tpl, org)
      BY <1>1, <1>2, <1>4, <2>2 DEF Outcome, o, Ready, MayCommit
    <3>2. Flow!Submit
      BY <1>1, <3>1, FlowGuards, FlowCanSubmit, FlowSubmitted DEF Flow!Submit
    <3> QED  BY <3>2 DEF Flow!Next
  <2>3. CASE s.op = "cancel"
    <3>1. req' = Cancelled(req) /\ CanCancel(req)
      BY <1>1, <1>2, <1>4, <2>3 DEF Outcome, o, Ready
    <3>2. Flow!Cancel
      BY <1>1, <3>1, FlowGuards, FlowEffects DEF Flow!Cancel
    <3> QED  BY <3>2 DEF Flow!Next
  <2>4. CASE s.op = "approve"
    <3>1. /\ req' = Approved(req, org, s.step, s.me)
          /\ EnsureMyPending(req, s.step, s.me) /\ HasRequiredFiles(req, tpl)
      BY <1>1, <1>2, <1>4, <2>4 DEF Outcome, o, Ready
    <3>2. Flow!Approve(s.step, s.me)
      BY <1>1, <3>1, FlowGuards, FlowEffects DEF Flow!Approve
    <3> QED  BY <1>2, <1>9, <2>4, <3>2 DEF Flow!Next
  <2>5. CASE s.op = "reject"
    <3>1. req' = Rejected(req, s.step, s.me) /\ EnsureMyPending(req, s.step, s.me)
      BY <1>1, <1>2, <1>4, <2>5 DEF Outcome, o, Ready
    <3>2. Flow!Reject(s.step, s.me)
      BY <1>1, <3>1, FlowGuards, FlowEffects DEF Flow!Reject
    <3> QED  BY <1>2, <1>9, <2>5, <3>2 DEF Flow!Next
  <2>6. CASE s.op = "delegate"
    <3>1. /\ req' = Delegated(req, s.step, s.me, s.arg)
          /\ EnsureMyPending(req, s.step, s.me) /\ Len(req.steps) < MaxSteps
          /\ s.arg \in Devs \ {s.me, Requester} /\ s.arg \in org.active
      BY <1>1, <1>2, <1>4, <2>6 DEF Outcome, o, Ready, MayCommit
    <3>2. CanDelegate(req, org, s.me, s.arg)
      BY <3>1 DEF CanDelegate
    <3>3. Flow!Delegate(s.step, s.me, s.arg)
      BY <1>1, <3>1, <3>2, FlowGuards, FlowEffects DEF Flow!Delegate
    <3> QED  BY <1>2, <1>9, <2>6, <3>1, <3>3 DEF Flow!Next
  <2>7. CASE s.op = "comment"
    <3>1. /\ req' = Commented(req, s.me)
          /\ Len(req.history) < MaxHistory /\ CanComment(req, s.me)
      BY <1>1, <1>2, <1>4, <2>7 DEF Outcome, o, Ready
    <3>2. Flow!Comment(s.me)
      BY <1>1, <3>1, FlowGuards, FlowEffects DEF Flow!Comment
    <3> QED  BY <1>2, <3>2 DEF Flow!Next
  <2>8. CASE s.op = "upload"
    <3>1. /\ req' = [req EXCEPT !.files = req.files \cup {s.arg}]
          /\ s.arg \in FileIds \ req.files
      BY <1>1, <1>2, <1>4, <2>8 DEF Outcome, o, Ready
    <3>2. PICK editor \in Editors : CanUpload(req, tpl, editor)
      BY <1>1, <2>8 DEF Ready
    <3>3. Flow!Upload(s.arg, editor)
      BY <1>1, <3>1, <3>2, FlowGuards DEF Flow!Upload
    <3> QED  BY <3>1, <3>3 DEF Flow!Next
  <2>9. CASE s.op = "deletefile"
    <3>1. req' = [req EXCEPT !.files = req.files \ {s.arg}] /\ s.arg \in req.files
      BY <1>1, <1>2, <1>4, <2>9 DEF Outcome, o, Ready
    <3>2. PICK editor \in Editors : CanModifyFiles(req, editor)
      BY <1>1, <2>9 DEF Ready
    <3>3. Flow!DeleteFile(s.arg, editor) /\ s.arg \in FileIds
      BY <1>1, <3>1, <3>2, FlowGuards DEF Flow!DeleteFile, RInv
    <3> QED  BY <3>3 DEF Flow!Next
  <2> QED
    BY <1>2, <2>1, <2>2, <2>3, <2>4, <2>5, <2>6, <2>7, <2>8, <2>9 DEF Ops
<1> QED
  BY <1>7, <1>8, <1>10

(***************************************************************************)
(* One handler at a time, loads and commits apart, implements the workflow *)
(* of ApprovalFlow, whatever edits of the template and the chart come      *)
(* between a load and its commit, as long as the edits neither give it     *)
(* attachment slots nor take them away: a request without slots of its own *)
(* reads the template's at its load, and again at its next one.            *)
(***************************************************************************)
THEOREM OneHandlerIsFlow ==
  ASSUME NEW only, Handlers = {only}, SlotsStay
  PROVE  Spec => ImplementsFlow
<1>1. Init => RInv /\ Flow!Init
  <2> SUFFICES ASSUME Init PROVE RInv /\ Flow!Init
    OBVIOUS
  <2>1. /\ req.files = {} /\ req.status = "NONE"
        /\ \A h \in Handlers : session[h] = Idle
    BY DEF Init, Flow!Init, Flow!NoRequest
  <2> QED
    BY <2>1, InitSInv, InitTraced DEF RInv, Ready, Init
<1>2. RInv /\ [Next]_vars => RInv' /\ [Flow!Next]_(Flow!vars)
  <2> SUFFICES ASSUME RInv, [Next]_vars PROVE RInv' /\ [Flow!Next]_(Flow!vars)
    OBVIOUS
  <2>1. SInv' /\ DInv'
    BY NextSafe, NextTraced DEF RInv
  <2>2. CASE Create
    <3>1. PICK f \in Forms, now \in BOOLEAN : Flow!Create(f, now)
      BY <2>2 DEF Create
    <3> DEFINE r == Flow!NewRequest(tpl, f)
    <3>2. /\ req' = IF now THEN Submitted(r, org) ELSE r
          /\ req.status = "NONE"
          /\ UNCHANGED session
      <4>1. /\ req' = IF now THEN Flow!Submitted(r, org) ELSE r
            /\ req.status = "NONE"
        BY <3>1 DEF Flow!Create
      <4>2. UNCHANGED session
        BY <2>2 DEF Create
      <4> QED
        BY <4>1, <4>2, FlowSubmitted
    <3>3. r.files = {} /\ r.slots = tpl.slots /\ r = [x \in Columns |-> r[x]]
      BY DEF Flow!NewRequest, Columns
    <3> HIDE DEF r
    <3>4. req'.files = {} /\ req'.slots = tpl.slots /\ tpl' = tpl
      <4>1. tpl' = tpl
        BY <3>1 DEF Flow!Create
      <4> QED
        BY <3>2, <3>3, <4>1, SubmittedFiles
    <3>5. \A h \in Handlers : session'[h] = Idle
      BY <3>2 DEF RInv, SInv, NothingYet
    <3>6. Flow!Next
      BY <3>1 DEF Flow!Next
    <3> QED
      BY <2>1, <3>4, <3>5, <3>6 DEF RInv, Ready
  <2>3. ASSUME NEW h \in Handlers,
               \/ LoadUpdate(h) \/ LoadSubmit(h) \/ LoadCancel(h) \/ LoadDecision(h)
               \/ LoadComment(h) \/ LoadUpload(h) \/ LoadDeleteFile(h)
        PROVE  RInv' /\ [Flow!Next]_(Flow!vars)
    <3>1. RInv' /\ UNCHANGED <<org, tpl, req>>
      BY <2>3, LoadReady
    <3> QED
      BY <3>1 DEF Flow!vars
  <2>4. ASSUME NEW h \in Handlers, Commit(h)
        PROVE  RInv' /\ [Flow!Next]_(Flow!vars)
    <3>1. /\ Flow!Next
          /\ req'.slots = NoSlots <=> tpl'.slots = NoSlots
          /\ req'.files \subseteq FileIds
      BY <2>4, CommitIsFlow
    <3>2. \A g \in Handlers : session'[g] = Idle
      BY <2>4 DEF Commit, RInv, SInv
    <3> QED
      BY <2>1, <3>1, <3>2 DEF RInv, Ready
  <2>5. ASSUME NEW h \in Handlers, Abort(h)
        PROVE  RInv' /\ [Flow!Next]_(Flow!vars)
    <3>1. UNCHANGED <<org, tpl, req>> /\ \A g \in Handlers : session'[g] = Idle
      BY <2>5 DEF Abort, RInv, SInv
    <3> QED
      BY <2>1, <3>1 DEF RInv, Ready, Flow!vars
  <2>6. CASE EditTemplate
    <3>1. Flow!EditTemplate /\ UNCHANGED <<org, req, session>>
      BY <2>6 DEF EditTemplate, Flow!EditTemplate
    <3>0. tpl.slots = NoSlots <=> tpl'.slots = NoSlots
      <4>1. tpl \in Templates /\ tpl' \in Templates
        BY <3>1 DEF RInv, SInv, Flow!EditTemplate
      <4> QED
        BY <4>1 DEF SlotsStay
    <3>2. ASSUME NEW h \in Handlers, session[h] # Idle
          PROVE  req.slots = NoSlots => tpl.slots = NoSlots /\ tpl'.slots = NoSlots
      BY <3>0, <3>2 DEF RInv, SInv, NothingYet
    <3>3. ASSUME NEW h \in Handlers, session[h] # Idle
          PROVE  /\ HasRequiredFiles(req, tpl') = HasRequiredFiles(req, tpl)
                 /\ \A editor : CanUpload(req, tpl', editor) = CanUpload(req, tpl, editor)
      BY <3>2, <3>3, OwnSlots
    <3>4. \A h \in Handlers : Ready(session[h])'
      <4> SUFFICES ASSUME NEW h \in Handlers, session[h] # Idle PROVE Ready(session[h])'
        BY <3>1 DEF Ready
      <4>1. Ready(session[h])
        BY DEF RInv
      <4>2. HasRequiredFiles(req, tpl)' = HasRequiredFiles(req, tpl)
        BY <3>1, <3>3 DEF HasRequiredFiles, SlotsInForce
      <4>3. \A editor : CanUpload(req, tpl, editor)' = CanUpload(req, tpl, editor)
        BY <3>1, <3>3 DEF CanUpload, SlotsInForce, CanModifyFiles
      <4>4. /\ \A i, me : EnsureMyPending(req, i, me)' = EnsureMyPending(req, i, me)
            /\ CanCancel(req)' = CanCancel(req)
            /\ \A me : CanComment(req, me)' = CanComment(req, me)
            /\ \A editor : CanModifyFiles(req, editor)' = CanModifyFiles(req, editor)
        BY <3>1 DEF EnsureMyPending, EarlierPending, CanCancel, CanComment, CanModifyFiles
      <4> QED
        BY <3>1, <4>1, <4>2, <4>3, <4>4 DEF Ready
    <3> QED
      BY <2>1, <3>0, <3>1, <3>4 DEF RInv, Flow!Next
  <2>7. CASE Reorganise
    <3>1. Flow!Reorganise /\ UNCHANGED <<tpl, req, session>>
      BY <2>7 DEF Reorganise, Flow!Reorganise
    <3> QED
      BY <2>1, <3>1 DEF RInv, Ready, Flow!Next
  <2>8. CASE UNCHANGED vars
    BY <2>1, <2>8 DEF RInv, Ready, Flow!vars, vars
  <2> QED
    BY <2>2, <2>3, <2>4, <2>5, <2>6, <2>7, <2>8 DEF Next
<1> QED
  BY <1>1, <1>2, PTL DEF Spec, ImplementsFlow, Flow!Spec
=============================================================================
