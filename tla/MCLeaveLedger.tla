--------------------------- MODULE MCLeaveLedger ---------------------------
(***************************************************************************)
(* Instances of LeaveLedger for TLC: two years, requests that fall in one  *)
(* of them, cross the boundary, or take nothing.                           *)
(***************************************************************************)
EXTENDS LeaveLedger, TLC

CONSTANTS r1, r2, worker, boss, root

MCYears == {1, 2}
In(a, b) == [y \in MCYears |-> IF y = 1 THEN a ELSE b]

MCNeeds == {In(1, 0), In(2, 1), In(0, 2), In(0, 0)}
TwoIds == {r1, r2}
IdSymmetry == Permutations(Ids)
=============================================================================
