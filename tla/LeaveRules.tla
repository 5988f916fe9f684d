----------------------------- MODULE LeaveRules -----------------------------
(***************************************************************************)
(* The books of one employee's leave and what the handlers of              *)
(* api/v1/leaves.py do to them, as operators on a record L with            *)
(*   bal     leave_balances: per year [granted, used, pending] or          *)
(*           NoBalance                                                     *)
(*   grants  leave_reward_grants in the order of granted_at:               *)
(*           [granted, remaining, revoked]                                 *)
(*   reqs    leave_requests, each with its leave_request_allocations       *)
(*           folded into the days taken per year and per grant             *)
(* LeaveLedger runs the handlers one at a time; LeaveSessions interleaves  *)
(* their reads and commits.  Days are counted in units of 0.5.             *)
(***************************************************************************)
EXTENDS Integers, Sequences, Functions

CONSTANTS Years,        \* the calendar years of leave_balances
          Ids,          \* identities of requests
          MaxGrants,    \* bound: rows in leave_reward_grants
          NoBalance     \* the year has not been initialised

ASSUME RulesAssumption ==
  /\ MaxGrants \in Nat
  /\ NoBalance \notin [granted : Int, used : Int, pending : Int]

GrantIds == 1 .. MaxGrants
NoDays   == [y \in Years |-> 0]
NoReward == [g \in GrantIds |-> 0]

NoRequest == [status |-> "NONE", need |-> NoDays, year |-> NoDays, grant |-> NoReward]

Least(a, b) == IF a <= b THEN a ELSE b
Minus(f)    == [x \in DOMAIN f |-> -f[x]]

(***************************************************************************)
(* build_allocation_plan: "need" maps years to working days, 0 where the   *)
(* request has none; a request of type UNPAID_PUBLIC needs NoDays.         *)
(***************************************************************************)
\* Mutated form of Remaining: days waiting for approval count as free.
RemainingButPending(b) == b.granted - b.used

Remaining(b) == b.granted - b.used - b.pending

StatutoryTake(bal, need, y) ==
  IF need[y] = 0 THEN 0 ELSE Least(Remaining(bal[y]), need[y])

\* Mutated form of Leftover: a later year overwrites what an earlier one lacks.
LeftoverLastYear(bal, need) ==
  LET last == CHOOSE y \in Years : need[y] > 0 /\ \A z \in Years : need[z] > 0 => z <= y
  IN  IF need = NoDays THEN 0 ELSE need[last] - StatutoryTake(bal, need, last)

Leftover(bal, need) ==
  SumFunction([y \in Years |-> need[y] - StatutoryTake(bal, need, y)])

Usable(grants, g) ==
  IF grants[g].revoked \/ grants[g].remaining <= 0 THEN 0 ELSE grants[g].remaining

\* Mutated form of RewardTakes: the newest grant first.
RewardTakesNewestFirst(grants, days) ==
  LET n == Len(grants)
      left[g \in 1 .. n + 1] ==
        IF g = n + 1 THEN days ELSE left[g + 1] - Least(Usable(grants, g), left[g + 1])
  IN  [g \in GrantIds |-> IF g <= n THEN left[g + 1] - left[g] ELSE 0]

\* left[g] days are still to be found behind grant g.
RewardTakes(grants, days) ==
  LET left[g \in 0 .. Len(grants)] ==
        IF g = 0 THEN days ELSE left[g - 1] - Least(Usable(grants, g), left[g - 1])
  IN  [g \in GrantIds |-> IF g <= Len(grants) THEN left[g - 1] - left[g] ELSE 0]

Plan(L, need) ==
  LET leftover == Leftover(L.bal, need)
      reward   == RewardTakes(L.grants, leftover)
  IN  [year  |-> [y \in Years |-> LET t == StatutoryTake(L.bal, need, y)
                                  IN  IF t > 0 THEN t ELSE 0],
       grant |-> reward,
       short |-> leftover - SumFunction(reward)]

\* The years needed are initialised and the days suffice.
CanCharge(L, need) ==
  /\ \A y \in Years : need[y] > 0 => L.bal[y] # NoBalance
  /\ Plan(L, need).short = 0

(***************************************************************************)
(* _apply_allocations, _revert_allocations and the approval.               *)
(***************************************************************************)
\* Adds days to a column of the balances; rows without days are not touched.
Post(bal, column, days) ==
  [y \in Years |-> IF days[y] = 0 THEN bal[y]
                   ELSE [bal[y] EXCEPT ![column] = @ + days[y]]]

PostReward(grants, days) ==
  [g \in DOMAIN grants |-> [grants[g] EXCEPT !.remaining = @ + days[g]]]

Charged(L, id, need, plan) ==
  [bal    |-> Post(L.bal, "pending", plan.year),
   grants |-> PostReward(L.grants, Minus(plan.grant)),
   reqs   |-> [L.reqs EXCEPT ![id] = [status |-> "PENDING", need |-> need,
                                      year |-> plan.year, grant |-> plan.grant]]]

\* The SELECT ... scalar_one for each allocated year finds its row.
BalancesExist(L, id) == \A y \in Years : L.reqs[id].year[y] > 0 => L.bal[y] # NoBalance

Refunded(L, id, status) ==
  LET column == IF L.reqs[id].status = "PENDING" THEN "pending" ELSE "used"
  IN  [bal    |-> Post(L.bal, column, Minus(L.reqs[id].year)),
       grants |-> PostReward(L.grants, L.reqs[id].grant),
       reqs   |-> [L.reqs EXCEPT ![id].status = status,
                                 ![id].year = NoDays, ![id].grant = NoReward]]

\* Mutated form of Approved: the days are not taken out of pending.
ApprovedTwiceBooked(L, id) ==
  [L EXCEPT !.bal = Post(@, "used", L.reqs[id].year),
            !.reqs[id].status = "APPROVED"]

Approved(L, id) ==
  [L EXCEPT !.bal = Post(Post(@, "pending", Minus(L.reqs[id].year)),
                         "used", L.reqs[id].year),
            !.reqs[id].status = "APPROVED"]

(***************************************************************************)
(* The administrators' operations.                                         *)
(***************************************************************************)
Initialized(L, y, days) ==
  [L EXCEPT !.bal[y] = [granted |-> days, used |-> 0, pending |-> 0]]

Accrued(L, y, days) == [L EXCEPT !.bal[y].granted = @ + days]

UsedSetTo(L, y, days) == [L EXCEPT !.bal[y].used = days]

Purged(L, y) == [L EXCEPT !.bal[y] = NoBalance]

Rewarded(L, days) ==
  [L EXCEPT !.grants = Append(@, [granted |-> days, remaining |-> days, revoked |-> FALSE])]

Revoked(L, g) == [L EXCEPT !.grants[g].remaining = 0, !.grants[g].revoked = TRUE]
=============================================================================
