---------------------------- MODULE LeaveLedger ----------------------------
(***************************************************************************)
(* The leave books of one employee when the handlers of leaves.py run one  *)
(* after the other.  No handler touches the rows of two employees in a way *)
(* that relates them, so one employee stands for all.                      *)
(***************************************************************************)
EXTENDS LeaveRules, FiniteSets

CONSTANTS Self,         \* the user accounts of the employee
          Admins,       \* users with the role ADMIN
          Approvers,    \* the employee's developer_approvers
          Needs,        \* what a request may ask for: functions from Years to days
          InitialDays,  \* granted_days of a new balance
          AccrualDays,  \* days added by an accrual, a catch-up or a transition
          RewardDays,   \* granted_days of a reward
          UsedDays,     \* used_days set by bulk_update_used_days
          Correctable,  \* years bulk_update_used_days is called for
          Purgeable,    \* years delete_all_balances is called for
          MaxGranted    \* bound: days granted to a year by accruals

ASSUME LedgerAssumption ==
  /\ IsFiniteSet(Years) /\ IsFiniteSet(Ids)
  /\ Needs \subseteq [Years -> Nat]
  /\ UNION {InitialDays, AccrualDays, RewardDays, UsedDays} \subseteq Nat
  /\ 0 \notin RewardDays
  /\ Correctable \cup Purgeable \subseteq Years

VARIABLES bal, grants, reqs

ledgerVars == <<bal, grants, reqs>>

Books == [bal |-> bal, grants |-> grants, reqs |-> reqs]

Become(L) == bal' = L.bal /\ grants' = L.grants /\ reqs' = L.reqs

Users == Self \cup Admins \cup Approvers

LedgerInit == /\ bal = [y \in Years |-> NoBalance]
              /\ grants = << >>
              /\ reqs = [id \in Ids |-> NoRequest]

\* The employee's own requests, or any when the caller is an ADMIN.
MayHandle(u) == u \in Self \cup Admins

\* _can_approve_for
MayDecide(u) == u \in Admins \cup Approvers

Create(id, need, u) ==
  /\ reqs[id].status = "NONE"
  /\ MayHandle(u)
  /\ CanCharge(Books, need)
  /\ Become(Charged(Books, id, need, Plan(Books, need)))

\* The old allocations are reverted and the new dates planned from what is free then.
Update(id, need, u) ==
  LET freed == Refunded(Books, id, "PENDING")
  IN  /\ reqs[id].status = "PENDING"
      /\ MayHandle(u)
      /\ BalancesExist(Books, id)
      /\ CanCharge(freed, need)
      /\ Become(Charged(freed, id, need, Plan(freed, need)))

\* A PENDING or APPROVED request; on a closed one the handler changes nothing.
Cancel(id, u) ==
  /\ reqs[id].status \in {"PENDING", "APPROVED"}
  /\ MayHandle(u)
  /\ BalancesExist(Books, id)
  /\ Become(Refunded(Books, id, "CANCELLED"))

Approve(id, u) ==
  /\ reqs[id].status = "PENDING"
  /\ MayDecide(u) /\ u \notin Self
  /\ BalancesExist(Books, id)
  /\ Become(Approved(Books, id))

\* Mutated form of Reject: a status the other handlers do not know.
RejectMisspelt(id, u) ==
  /\ reqs[id].status = "PENDING"
  /\ MayDecide(u)
  /\ BalancesExist(Books, id)
  /\ Become(Refunded(Books, id, "DENIED"))

Reject(id, u) ==
  /\ reqs[id].status = "PENDING"
  /\ MayDecide(u)
  /\ BalancesExist(Books, id)
  /\ Become(Refunded(Books, id, "REJECTED"))

\* initialize_balances skips an employee who has a row for the year.
Initialize(y, days) == bal[y] = NoBalance /\ Become(Initialized(Books, y, days))

\* accrue_monthly, catchup_monthly_accrual, run_anniversary_transition.
Accrue(y, days) ==
  /\ bal[y] # NoBalance
  /\ bal[y].granted + days <= MaxGranted
  /\ Become(Accrued(Books, y, days))

SetUsed(y, days) ==
  /\ bal[y] # NoBalance
  /\ bal[y].used # days
  /\ Become(UsedSetTo(Books, y, days))

Purge(y) == bal[y] # NoBalance /\ Become(Purged(Books, y))

Reward(days) == Len(grants) < MaxGrants /\ Become(Rewarded(Books, days))

Revoke(g) == ~grants[g].revoked /\ Become(Revoked(Books, g))

LedgerNext ==
  \/ \E id \in Ids, u \in Users :
       \/ \E need \in Needs : Create(id, need, u) \/ Update(id, need, u)
       \/ Cancel(id, u)
       \/ Approve(id, u)
       \/ Reject(id, u)
  \/ \E y \in Years :
       \/ \E days \in InitialDays : Initialize(y, days)
       \/ \E days \in AccrualDays : Accrue(y, days)
  \/ \E y \in Correctable, days \in UsedDays : SetUsed(y, days)
  \/ \E y \in Purgeable : Purge(y)
  \/ \E days \in RewardDays : Reward(days)
  \/ \E g \in DOMAIN grants : Revoke(g)

LedgerSpec == LedgerInit /\ [][LedgerNext]_ledgerVars
-----------------------------------------------------------------------------
Statuses == {"NONE", "PENDING", "APPROVED", "REJECTED", "CANCELLED"}

Request == [status : Statuses, need : [Years -> Nat],
            year : [Years -> Nat], grant : [GrantIds -> Nat]]

BooksTyped ==
  /\ bal \in [Years -> [granted : Int, used : Int, pending : Int] \cup {NoBalance}]
  /\ grants \in Seq([granted : Nat, remaining : Int, revoked : BOOLEAN])
  /\ Len(grants) <= MaxGrants
  /\ reqs \in [Ids -> Request]

InStatus(S) == {id \in Ids : reqs[id].status \in S}

Active == InStatus({"PENDING", "APPROVED"})

DaysOf(S, y) == SumFunctionOnSet([id \in Ids |-> reqs[id].year[y]], S)

RewardOf(S, g) == SumFunctionOnSet([id \in Ids |-> reqs[id].grant[g]], S)

\* The years whose books administrators correct.
ByHand == Correctable \cup Purgeable

(***************************************************************************)
(* pending_days is what the waiting requests have reserved, however often  *)
(* they are edited, rejected, cancelled and approved (leaves.py:1356,      *)
(* 1397, 1776), in years whose balances nobody deletes.                    *)
(***************************************************************************)
PendingMatches ==
  \A y \in Years \ Purgeable :
    bal[y] # NoBalance => bal[y].pending = DaysOf(InStatus({"PENDING"}), y)

(***************************************************************************)
(* used_days is what the approved requests have taken, in years nobody     *)
(* corrects by hand (leaves.py:1399, 1777).                                *)
(***************************************************************************)
UsedMatches ==
  \A y \in Years \ ByHand :
    bal[y] # NoBalance => bal[y].used = DaysOf(InStatus({"APPROVED"}), y)

(***************************************************************************)
(* A reward's remaining days and the days taken from it make up the days   *)
(* granted; a revoked one may have less, never more, and never less than   *)
(* nothing (leaves.py:1369, 1412, 1194).                                   *)
(***************************************************************************)
RewardsMatch ==
  \A g \in DOMAIN grants :
    /\ grants[g].remaining >= 0
    /\ grants[g].remaining + RewardOf(Active, g) <= grants[g].granted
    /\ ~grants[g].revoked => grants[g].remaining + RewardOf(Active, g) = grants[g].granted

\* The three books that the requests are kept in.
BooksAgree == PendingMatches /\ UsedMatches /\ RewardsMatch

Covered(b) == b.used + b.pending <= b.granted

(***************************************************************************)
(* No year is overdrawn: what is used and reserved is covered by what was  *)
(* granted, in years whose books nobody corrects by hand.  A request for   *)
(* more than what is left is refused (leaves.py:1511).                     *)
(***************************************************************************)
NoOverdraft == \A y \in Years \ ByHand : bal[y] # NoBalance => Covered(bal[y])

(***************************************************************************)
(* A request takes exactly the days it is for, no matter on how many       *)
(* years and rewards they are spread (models/leave.py:10, "from which      *)
(* ledger one request took how much").                                     *)
(***************************************************************************)
TakesWhatItNeeds ==
  \A id \in Active :
    SumFunction(reqs[id].year) + SumFunction(reqs[id].grant) = SumFunction(reqs[id].need)

(***************************************************************************)
(* "Statutory first, then rewards (FIFO)" (models/leave.py:13): when a     *)
(* request takes reward days, the years it falls in have nothing left, and *)
(* neither have the older rewards.  A revoked reward is not spent any      *)
(* more, even when cancelled requests have put days back into it           *)
(* (leaves.py:1272, 1412).                                                 *)
(***************************************************************************)
SpendsInOrder ==
  /\ \A id \in Ids : \A g \in GrantIds :
       (reqs'[id].grant[g] > 0 /\ reqs'[id] # reqs[id] /\ reqs'[id].status = "PENDING") =>
         /\ \E y \in Years : reqs'[id].need[y] > reqs'[id].year[y]
         /\ \A y \in Years : reqs'[id].need[y] > reqs'[id].year[y]
                               => Remaining(bal'[y]) <= 0
         /\ \A h \in 1 .. g - 1 : Usable(grants', h) = 0
  /\ \A g \in DOMAIN grants :
       grants[g].revoked => grants'[g].remaining >= grants[g].remaining

SpendingOrder == [][SpendsInOrder]_ledgerVars

(***************************************************************************)
(* "Deleting a balance CASCADEs to the allocations" (leaves.py:790): no    *)
(* request holds days of a year whose balance is gone.                     *)
(***************************************************************************)
AllocationsHaveBalance == \A id \in Ids : BalancesExist(Books, id)
=============================================================================
