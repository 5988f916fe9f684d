------------------------ MODULE MCApprovalSessions ------------------------
(***************************************************************************)
(* Instances of ApprovalSessions for TLC: two steps in the chain of a      *)
(* large request, and enough colleagues to delegate to.                    *)
(***************************************************************************)
EXTENDS ApprovalSessions, TLC

CONSTANTS rita, ann, ben, cid, large, f1, f2, f3, h1, h2

MCDevs == {rita, ann, ben, cid}
ThreeDevs == {rita, ann, ben}
MCForms == {large}
ThreeFiles == {f1, f2, f3}
NoFiles == {}
TwoHandlers == {h1, h2}
Symmetry == Permutations(TwoHandlers) \cup Permutations(ThreeFiles)

Spec1(t, l, u) == [type |-> t, level |-> l, names |-> {}, user |-> u]
Climb == <<[when |-> {large},
            approvers |-> <<Spec1("manager", 1, ann), Spec1("rank_min_level", 2, ann)>>]>>

OneNeeded == [need |-> 1, max |-> 1]
PlainTemplate == { [rules |-> Climb, slots |-> NoSlots, active |-> TRUE] }
SlotTemplate == { [rules |-> Climb, slots |-> OneNeeded, active |-> TRUE] }

Managers == [d \in Devs |-> CASE d = rita -> ann [] d = ann -> ben [] OTHER -> NoDev]
Ranks(x, y, z) ==
  [d \in Devs |-> CASE d = ann -> x [] d = ben -> y [] d = cid -> z [] OTHER -> 0]
Chart(ranks, titles) == [mgr |-> Managers, rank |-> ranks, title |-> titles, active |-> Devs]

OneOrg == {Chart(Ranks(1, 2, 2), [d \in Devs |-> 0])}
TwoOrgs == OneOrg \cup {Chart(Ranks(1, 2, 2), [d \in Devs |-> 1])}
TwoTemplates == SlotTemplate \cup { [rules |-> Climb, slots |-> OneNeeded, active |-> FALSE] }

\* Bound, an action constraint: the handlers overlap as long as nobody has
\* commented and chart and template are the first ones; otherwise one handler
\* is at work at a time.
Quiet == /\ org \in OneOrg /\ tpl \in SlotTemplate
         /\ \A i \in DOMAIN req.history : req.history[i].event # "COMMENTED"
         /\ \A h \in Handlers : session[h].op # "comment"
Overlaps == Cardinality({h \in Handlers : session[h] # Idle}) > 1
OverlapsWhenQuiet == Overlaps' => Quiet'
=============================================================================
