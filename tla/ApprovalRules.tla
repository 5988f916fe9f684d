--------------------------- MODULE ApprovalRules ---------------------------
(***************************************************************************)
(* The approval-line engine (services/approval_engine.py): how the rules   *)
(* of an approval template and the organisation chart turn into the list   *)
(* of approvers of a request.  No variables: the module is the data and    *)
(* the pure operators the approval modules share.                          *)
(*                                                                         *)
(* An organisation chart is a record                                       *)
(*   [mgr    |-> the manager of each employee, or NoDev,                   *)
(*    rank   |-> the level of the employee's rank (0: no rank),            *)
(*    title  |-> the level of the employee's position (0: no position),    *)
(*    active |-> the employees whose status is ACTIVE].                    *)
(* A rank or position is identified with its level, so "names" of the      *)
(* rank_in and title_in specifications are sets of levels.                 *)
(* A rule is [when |-> the form values it matches, approvers |-> a         *)
(* sequence of approver specifications].                                   *)
(***************************************************************************)
EXTENDS Integers, Sequences, FiniteSets

CONSTANTS Devs,         \* employees (developers rows)
          Requester,    \* the employee whose request is modelled
          NoDev,        \* SQL NULL in a column that refers to an employee
          Forms,        \* the form inputs the rules can tell apart
          MaxDepth      \* max_depth of the manager chain (10 in the code)

ASSUME DevAssumption == /\ Requester \in Devs
                        /\ NoDev \notin Devs
                        /\ MaxDepth \in Nat

ApproverTypes == {"manager", "specific_user", "rank_min_level",
                  "title_min_level", "rank_in", "title_in"}

Specs == [type : ApproverTypes, level : Nat \ {0}, names : SUBSET Nat, user : Devs]

Rules == [when : SUBSET Forms, approvers : Seq(Specs)]

IsOrg(o) == /\ o.mgr \in [Devs -> Devs \cup {NoDev}]
            /\ o.rank \in [Devs -> Nat]
            /\ o.title \in [Devs -> Nat]
            /\ o.active \subseteq Devs

(***************************************************************************)
(* Walking up the organisation chart.  Entry 0 is the employee, entry k    *)
(* the k-th manager above; the walk stops (NoDev from there on) at the     *)
(* top, at the first employee met twice, and at MaxDepth.                  *)
(***************************************************************************)
ManagerChain(org, dev) ==
  LET above[k \in 0 .. MaxDepth] ==
        IF k = 0 THEN dev
        ELSE IF above[k-1] = NoDev THEN NoDev
        ELSE IF org.mgr[above[k-1]] \in {above[j] : j \in 0 .. k-1} THEN NoDev
        ELSE org.mgr[above[k-1]]
  IN  above

\* Does employee d of the chain meet specification s?
Meets(org, s, d) ==
  \/ s.type = "manager"
  \/ s.type = "rank_min_level"  /\ org.rank[d] >= s.level
  \/ s.type = "title_min_level" /\ org.title[d] >= s.level
  \/ s.type = "rank_in"         /\ org.rank[d] \in s.names
  \/ s.type = "title_in"        /\ org.title[d] \in s.names

\* The employee a specification stands for, NoDev when there is none.  The
\* requester and the employees of "used" are never chosen.  Only a named user
\* has to be ACTIVE: the managers of the chain are taken as they are.
ResolveApprover(org, s, used) ==
  LET chain   == ManagerChain(org, Requester)
      exclude == used \cup {Requester}
      fits    == {k \in 1 .. MaxDepth : /\ chain[k] \in Devs \ exclude
                                        /\ Meets(org, s, chain[k])}
  IN  IF s.type = "specific_user"
      THEN IF s.user \in org.active \ exclude THEN s.user ELSE NoDev
      ELSE IF fits = {} THEN NoDev
      ELSE chain[CHOOSE k \in fits : \A j \in fits : k <= j]

(***************************************************************************)
(* evaluate_rules as a function of one chart, without its local variables: *)
(* the steps chosen so far say who is used and which grades are met.       *)
(* ApprovalEngine is the loop itself.                                      *)
(***************************************************************************)
ApproversOf(out) == {out[i].approver : i \in DOMAIN out}

\* An approver already chosen satisfies this grade requirement.
Redundant(org, out, s) ==
  /\ s.type \in {"rank_min_level", "title_min_level"}
  /\ \E d \in ApproversOf(out) : Meets(org, s, d)

ResolveStep(org, out, s, ai, ri) ==
  LET d == ResolveApprover(org, s, ApproversOf(out))
  IN  IF Redundant(org, out, s) \/ d = NoDev
      THEN out
      ELSE Append(out, [no |-> Len(out) + 1, approver |-> d, rule |-> ri, index |-> ai])

\* The first rule whose condition the form satisfies, 0 when there is none.
FindMatchingRule(rules, form) ==
  LET hits == {i \in DOMAIN rules : form \in rules[i].when}
  IN  IF hits = {} THEN 0 ELSE CHOOSE i \in hits : \A j \in hits : i <= j

\* The steps after each of the specifications.
ResolveAll(org, specs, ri) ==
  LET out[k \in 0 .. Len(specs)] ==
        IF k = 0 THEN << >>
        ELSE ResolveStep(org, out[k-1], specs[k], k, ri)
  IN  out

EvaluateRules(org, rules, form) ==
  LET ri == FindMatchingRule(rules, form)
      specs == rules[ri].approvers
  IN  IF ri = 0 THEN << >> ELSE ResolveAll(org, specs, ri)[Len(specs)]

(***************************************************************************)
(* What the callers of evaluate_rules rely on: the steps are numbered 1,   *)
(* 2, 3 ..., every step has an approver, nobody approves twice and nobody  *)
(* approves a request of his own.                                          *)
(***************************************************************************)
ChainSteps == [no : Nat, approver : Devs, rule : Nat, index : Nat]

IsChain(c) ==
  /\ c \in Seq(ChainSteps)
  /\ \A i \in 1 .. Len(c) : c[i].no = i /\ c[i].approver # Requester
  /\ \A i, j \in 1 .. Len(c) : c[i].approver = c[j].approver => i = j
=============================================================================
