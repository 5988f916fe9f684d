-------------------------- MODULE MCLeaveSessions --------------------------
(***************************************************************************)
(* An instance of LeaveSessions for TLC: one year, one day of leave each,  *)
(* and two clients that ask for it.                                        *)
(***************************************************************************)
EXTENDS LeaveSessions, TLC

CONSTANTS r1, r2, worker, boss, root, c1, c2

OneYear == {1}
OneDay == {[y \in OneYear |-> 1]}
TwoIds == {r1, r2}
TwoClients == {c1, c2}

Creating == [c \in TwoClients |-> {"create"}]
=============================================================================
