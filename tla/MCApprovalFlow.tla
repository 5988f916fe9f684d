-------------------------- MODULE MCApprovalFlow --------------------------
(***************************************************************************)
(* Instances of ApprovalFlow for TLC: a requester and three colleagues,    *)
(* two charts that differ in who manages whom, in the ranks and in who is  *)
(* active, and a template whose rules and attachment slot are edited.      *)
(***************************************************************************)
EXTENDS ApprovalFlow

CONSTANTS rita, ann, ben, cid, small, large, f1

MCDevs == {rita, ann, ben, cid}
MCForms == {small, large}
OneFile == {f1}

Spec1(t, l, u) == [type |-> t, level |-> l, names |-> {}, user |-> u]
Manager    == Spec1("manager", 1, ann)
RankMin(l) == Spec1("rank_min_level", l, ann)
User(u)    == Spec1("specific_user", 1, u)

Rule(w, aps) == [when |-> w, approvers |-> aps]

\* Small requests go to the manager; large ones climb the ranks, then to a user.
LadderRules == << Rule({small}, <<Manager>>),
                  Rule({large}, <<Manager, RankMin(2), User(cid)>>) >>
\* The user comes first, and small requests have no rule.
UserRules == << Rule({large}, <<User(ben), RankMin(2)>>) >>

Template(rs, slot, act) == [rules |-> rs, slots |-> slot, active |-> act]
OneNeeded == [need |-> 1, max |-> 1]

MCTemplates == { Template(LadderRules, OneNeeded, TRUE),
                 Template(UserRules, NoSlots, TRUE),
                 Template(LadderRules, NoSlots, FALSE) }

Managers(x, y, z) ==
  [d \in MCDevs |-> CASE d = rita -> x [] d = x -> y [] d = y -> z [] OTHER -> NoDev]
Ranks(x, y, z) ==
  [d \in MCDevs |-> CASE d = ann -> x [] d = ben -> y [] d = cid -> z [] OTHER -> 0]
NoTitles == [d \in MCDevs |-> 0]

Chart1 == [mgr |-> Managers(ann, ben, cid), rank |-> Ranks(1, 2, 3), title |-> NoTitles,
           active |-> MCDevs]
Chart2 == [mgr |-> Managers(ben, cid, ann), rank |-> Ranks(2, 1, 2), title |-> NoTitles,
           active |-> MCDevs \ {ben}]

MCOrgs == {Chart1, Chart2}
=============================================================================
