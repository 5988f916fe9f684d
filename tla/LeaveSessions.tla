--------------------------- MODULE LeaveSessions ---------------------------
(***************************************************************************)
(* The handlers of leaves.py as they run: each in a database session of    *)
(* its own, READ COMMITTED, with no lock on what it reads.  A handler of a *)
(* request reads in two rounds (the request with its allocations, or the   *)
(* plan's figures; then the balance and grant rows it is going to change)  *)
(* and writes at its commit.  The commit writes the columns the session    *)
(* changed and deletes or inserts whole rows, over what others have        *)
(* committed since.  Inserting a row that nobody refers to yet             *)
(* (initialize_balances, create_reward_grant) is one step.                 *)
(* update_leave_request is left to LeaveLedger.                            *)
(***************************************************************************)
EXTENDS LeaveLedger

CONSTANTS Clients,      \* handlers the server runs at a time
          Allowed       \* the operations each client calls: [Clients -> SUBSET Operations]

Operations == {"create", "cancel", "approve", "reject",
               "accrue", "setused", "purge", "revoke"}

VARIABLE client    \* what each handler is doing

\* The rows are the state of LeaveLedger; what a session holds is not in it.
sessionVars == <<bal, grants, reqs, client>>

Idle == [op |-> "idle"]

SessionsInit == LedgerInit /\ client = [c \in Clients |-> Idle]

(***************************************************************************)
(* The first read, with the guards on what it returns.                     *)
(***************************************************************************)
Begin(c, op, x, arg, ready) ==
  /\ op \in Allowed[c]
  /\ client[c] = Idle
  /\ client' = [client EXCEPT ![c] = [op |-> op, x |-> x, arg |-> arg,
                                      ready |-> ready, snap |-> Books]]
  /\ UNCHANGED <<bal, grants, reqs>>

Claimed(id) == \E c \in Clients : client[c].op = "create" /\ client[c].x = id

LoadCreate(c) ==
  \E id \in Ids, need \in Needs, u \in Users :
    /\ reqs[id].status = "NONE" /\ ~Claimed(id)
    /\ MayHandle(u)
    /\ CanCharge(Books, need)
    /\ Begin(c, "create", id, [need |-> need, plan |-> Plan(Books, need)], FALSE)

LoadCancel(c) ==
  \E id \in Ids, u \in Users :
    /\ reqs[id].status \in {"PENDING", "APPROVED"}
    /\ MayHandle(u)
    /\ Begin(c, "cancel", id, NoDays, FALSE)

LoadDecision(c) ==
  \E id \in Ids, u \in Users :
    /\ reqs[id].status = "PENDING"
    /\ MayDecide(u)
    /\ \/ u \notin Self /\ Begin(c, "approve", id, NoDays, FALSE)
       \/ Begin(c, "reject", id, NoDays, FALSE)

LoadBalance(c) ==
  \E y \in Years :
    /\ bal[y] # NoBalance
    /\ \/ \E days \in AccrualDays : /\ bal[y].granted + days <= MaxGranted
                                    /\ Begin(c, "accrue", y, days, TRUE)
       \/ /\ y \in Correctable
          /\ \E days \in UsedDays \ {bal[y].used} : Begin(c, "setused", y, days, TRUE)
       \/ y \in Purgeable /\ Begin(c, "purge", y, 0, TRUE)

LoadReward(c) ==
  \E g \in DOMAIN grants : ~grants[g].revoked /\ Begin(c, "revoke", g, 0, TRUE)

(***************************************************************************)
(* The second read: the rows that _apply_allocations, _revert_allocations  *)
(* and the approval fetch to change.  A missing balance ends the handler.  *)
(***************************************************************************)
Fetch(c) ==
  LET s == client[c]
      snap == [s.snap EXCEPT !.bal = bal, !.grants = grants]
  IN  /\ s # Idle /\ ~s.ready
      /\ IF s.op = "create"
         THEN \A y \in Years : s.arg.plan.year[y] > 0 => bal[y] # NoBalance
         ELSE BalancesExist(snap, s.x)
      /\ client' = [client EXCEPT ![c].snap = snap, ![c].ready = TRUE]
      /\ UNCHANGED <<bal, grants, reqs>>

\* Mutated form of Outcome: an approval drops the allocations.
OutcomeDropping(s) ==
  CASE s.op = "create"  -> Charged(s.snap, s.x, s.arg.need, s.arg.plan)
    [] s.op = "cancel"  -> Refunded(s.snap, s.x, "CANCELLED")
    [] s.op = "approve" -> [Approved(s.snap, s.x) EXCEPT !.reqs[s.x].year = NoDays]
    [] s.op = "reject"  -> Refunded(s.snap, s.x, "REJECTED")
    [] s.op = "accrue"  -> Accrued(s.snap, s.x, s.arg)
    [] s.op = "setused" -> UsedSetTo(s.snap, s.x, s.arg)
    [] s.op = "purge"   -> Purged(s.snap, s.x)
    [] s.op = "revoke"  -> Revoked(s.snap, s.x)

\* What the handler makes of the rows it has read.
Outcome(s) ==
  CASE s.op = "create"  -> Charged(s.snap, s.x, s.arg.need, s.arg.plan)
    [] s.op = "cancel"  -> Refunded(s.snap, s.x, "CANCELLED")
    [] s.op = "approve" -> Approved(s.snap, s.x)
    [] s.op = "reject"  -> Refunded(s.snap, s.x, "REJECTED")
    [] s.op = "accrue"  -> Accrued(s.snap, s.x, s.arg)
    [] s.op = "setused" -> UsedSetTo(s.snap, s.x, s.arg)
    [] s.op = "purge"   -> Purged(s.snap, s.x)
    [] s.op = "revoke"  -> Revoked(s.snap, s.x)

(***************************************************************************)
(* The flush of a session: columns that differ from what was read.         *)
(***************************************************************************)
\* Mutated form of Written: a changed row is written as a whole.
WrittenRowWise(old, new, now) == IF new = old THEN now ELSE new

Written(old, new, now) ==
  [k \in DOMAIN now |-> IF new[k] = old[k] THEN now[k] ELSE new[k]]

\* An UPDATE that meets no row fails the commit (StaleDataError); a DELETE does not.
RowsThere(old, new) ==
  \A y \in Years : (new.bal[y] # old.bal[y] /\ new.bal[y] # NoBalance)
                     => bal[y] # NoBalance

Merge(old, new) ==
  [bal    |-> [y \in Years |-> IF new.bal[y] = old.bal[y] THEN bal[y]
                               ELSE IF new.bal[y] = NoBalance THEN NoBalance
                               ELSE Written(old.bal[y], new.bal[y], bal[y])],
   grants |-> [g \in DOMAIN grants |->
                 IF g \in DOMAIN old.grants
                 THEN Written(old.grants[g], new.grants[g], grants[g]) ELSE grants[g]],
   reqs   |-> [id \in Ids |-> Written(old.reqs[id], new.reqs[id], reqs[id])]]

Commit(c) ==
  LET s == client[c]
      new == Outcome(s)
  IN  /\ s # Idle /\ s.ready
      /\ RowsThere(s.snap, new)
      /\ Become(Merge(s.snap, new))
      /\ client' = [client EXCEPT ![c] = Idle]

\* An error answer, a lost connection or a restart of the server before the commit.
Abort(c) == /\ client[c] # Idle
            /\ client' = [client EXCEPT ![c] = Idle]
            /\ UNCHANGED <<bal, grants, reqs>>

Insert ==
  /\ \/ \E y \in Years, days \in InitialDays : Initialize(y, days)
     \/ \E days \in RewardDays : Reward(days)
  /\ UNCHANGED client

SessionsNext ==
  \/ \E c \in Clients :
       \/ LoadCreate(c)
       \/ LoadCancel(c)
       \/ LoadDecision(c)
       \/ LoadBalance(c)
       \/ LoadReward(c)
       \/ Fetch(c)
       \/ Commit(c)
       \/ Abort(c)
  \/ Insert

SessionsSpec == SessionsInit /\ [][SessionsNext]_sessionVars
-----------------------------------------------------------------------------
(***************************************************************************)
(* One handler at a time, the reads and the commit of leaves.py implement  *)
(* the handlers of LeaveLedger, although balances are initialised and      *)
(* rewards granted in between.                                             *)
(***************************************************************************)
ImplementsLedger == LedgerSpec

(***************************************************************************)
(* A request handler may overlap an accrual: they change different columns *)
(* of leave_balances, and the session writes columns, not rows             *)
(* (leaves.py:732, 1088, 1356).  The books stay in agreement, and the      *)
(* requests get the days they ask for and not more than there are.         *)
(***************************************************************************)
ColumnsAgree == BooksAgree /\ NoOverdraft /\ TakesWhatItNeeds
=============================================================================
