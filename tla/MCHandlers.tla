---------------------------- MODULE MCHandlers ----------------------------
(***************************************************************************)
(* Handlers by themselves, one kind per behaviour: the evaluation of the   *)
(* rules of a template while the chart changes, an approval handler that   *)
(* loads and commits, a leave handler that reads twice and commits, and a  *)
(* leave handler beside an accrual (LeaveSessions under its own names).    *)
(* What a behaviour is not about stays as it started.                      *)
(***************************************************************************)
EXTENDS ApprovalEngine, LeaveSessions

CONSTANTS rita, ann, ben, cid, small, large, f1, f2, h1, NoSlots,
          r1, r2, worker, boss, root, c1, c2

MCDevs == {rita, ann, ben, cid}
MCForms == {small, large}

Spec1(t, l, ns, u) == [type |-> t, level |-> l, names |-> ns, user |-> u]
Manager      == Spec1("manager", 1, {}, ann)
RankMin(l)   == Spec1("rank_min_level", l, {}, ann)
TitleMin(l)  == Spec1("title_min_level", l, {}, ann)
RankIn(ns)   == Spec1("rank_in", 1, ns, ann)
TitleIn(ns)  == Spec1("title_in", 1, ns, ann)
User(u)      == Spec1("specific_user", 1, {}, u)

Rule(w, aps) == [when |-> w, approvers |-> aps]

MCRuleSets ==
  { << Rule({small}, <<Manager>>),
       Rule({small, large}, <<Manager, RankMin(1), RankMin(2)>>) >>,
    << Rule({large}, <<RankMin(2), TitleMin(1), Manager, User(cid)>>) >>,
    << Rule({small, large}, <<RankIn({1}), RankMin(2), TitleIn({1}), User(rita)>>) >> }

Charts(mgrs, ranks, titles) ==
  { [mgr |-> m, rank |-> g, title |-> t, active |-> MCDevs \ {ben}] :
      m \in mgrs, g \in ranks, t \in titles }

\* Chains of every length up to one beyond MaxDepth, with and without a cycle.
Managers == {m \in [MCDevs -> MCDevs \cup {NoDev}] :
               /\ \A d \in MCDevs : m[d] # d
               /\ m[rita] \in {ann, ben} /\ m[ben] \in {ann, NoDev} /\ m[cid] = NoDev}

Ranks == {[d \in MCDevs |-> CASE d = rita -> 1 [] d = ann -> 2 [] OTHER -> 1],
          [d \in MCDevs |-> CASE d = rita -> 1 [] d = ann -> 0 [] OTHER -> 2]}

MCOrgs == Charts(Managers, Ranks, {[d \in MCDevs |-> IF d = ben THEN 1 ELSE 0]})

---------------------------------------------------------------------------
(* Approval handlers: a large request with two steps, two templates.       *)

VARIABLES aOrg, aTpl, aReq, aSession
aVars == <<aOrg, aTpl, aReq, aSession>>

Climb == <<Rule({large}, <<Manager, RankMin(2)>>)>>
ToBen == <<Rule({large}, <<User(ben)>>)>>
ATemplates == {[rules |-> Climb, slots |-> [need |-> 1, max |-> 1], active |-> TRUE],
               [rules |-> ToBen, slots |-> [need |-> 0, max |-> 2], active |-> FALSE]}

AChart(x, y, z, act) ==
  [mgr |-> [d \in MCDevs |-> CASE d = rita -> ann [] d = ann -> ben [] OTHER -> NoDev],
   rank |-> [d \in MCDevs |-> CASE d = ann -> x [] d = ben -> y [] d = cid -> z [] OTHER -> 0],
   title |-> [d \in MCDevs |-> 0], active |-> act]

ACharts == {AChart(1, 2, 2, MCDevs), AChart(2, 2, 1, MCDevs \ {cid})}

A == INSTANCE ApprovalSessions WITH
  Forms <- {large}, MaxDepth <- 3, FileIds <- {f1, f2}, Templates <- ATemplates,
  Orgs <- ACharts,
  Editors <- {"requester"}, MaxSteps <- 4, MaxHistory <- 3, Handlers <- {h1},
  org <- aOrg, tpl <- aTpl, req <- aReq, session <- aSession

\* The same for templates that ask for no files.
VARIABLES bOrg, bTpl, bReq, bSession
bVars == <<bOrg, bTpl, bReq, bSession>>

BTemplates == {[t EXCEPT !.slots = NoSlots] : t \in ATemplates}

B == INSTANCE ApprovalSessions WITH
  Forms <- {large}, MaxDepth <- 3, FileIds <- {f1}, Templates <- BTemplates,
  Orgs <- ACharts,
  Editors <- {"requester"}, MaxSteps <- 4, MaxHistory <- 3, Handlers <- {h1},
  org <- bOrg, tpl <- bTpl, req <- bReq, session <- bSession

---------------------------------------------------------------------------
(* Leave handlers: every operation over two years, one at a time; and the  *)
(* handlers of requests beside an accrual, over one year.                  *)

VARIABLES lBal, lGrants, lReqs, lClient
lVars == <<lBal, lGrants, lReqs, lClient>>

MCYears == {1}
MCNeeds == {[y \in MCYears |-> 1]}
MCIds == {r1, r2}
MCClients == {c1, c2}

\* One handles requests, the other accrues.
MCAllowed == [c \in MCClients |-> IF c = c1 THEN {"create", "cancel", "approve", "reject"}
                                 ELSE {"accrue"}]

L == INSTANCE LeaveSessions WITH
  Years <- {1, 2}, Needs <- {[y \in {1, 2} |-> 1]},
  Clients <- {c1}, Allowed <- [c \in {c1} |-> Operations],
  UsedDays <- {0}, Correctable <- {1}, Purgeable <- {1},
  bal <- lBal, grants <- lGrants, reqs <- lReqs, client <- lClient

---------------------------------------------------------------------------

VARIABLE which   \* what this behaviour is about

hVars == <<which, vars, aVars, bVars, lVars, sessionVars>>

Chosen(S) == CHOOSE x \in S : TRUE

HandlersInit ==
  /\ which \in {"engine", "approval", "plain", "leave", "columns"}
  /\ IF which = "engine" THEN Init
     ELSE /\ org = Chosen(Orgs) /\ rules = Chosen(RuleSets) /\ form = large /\ reorgs = 0
          /\ held = {RowOf(org, Requester)} /\ at = "match"
          /\ rule = 0 /\ ai = 0 /\ acc = Begun /\ walk = NoWalk /\ pick = NoDev
  /\ A!Init /\ B!Init
  /\ which # "approval" => aOrg = AChart(1, 2, 2, MCDevs) /\ aTpl.active
  /\ which # "plain" => bOrg = AChart(1, 2, 2, MCDevs) /\ bTpl.active
  /\ L!SessionsInit /\ SessionsInit

HandlersNext ==
  \/ which = "engine" /\ Next /\ UNCHANGED <<which, aVars, bVars, lVars, sessionVars>>
  \/ which = "approval" /\ A!Next /\ UNCHANGED <<which, vars, bVars, lVars, sessionVars>>
  \/ which = "plain" /\ B!Next /\ UNCHANGED <<which, vars, aVars, lVars, sessionVars>>
  \/ which = "leave" /\ L!SessionsNext /\ UNCHANGED <<which, vars, aVars, bVars, sessionVars>>
  \/ which = "columns" /\ SessionsNext /\ UNCHANGED <<which, vars, aVars, bVars, lVars>>

HandlersSpec ==
  /\ HandlersInit /\ [][HandlersNext]_hVars
  /\ WF_vars(which = "engine" /\ Evaluate)

\* The evaluation ends, when the behaviour is about one.
EngineTerminates   == which = "engine" => Terminates
ImplementsFlow     == A!ImplementsFlow /\ B!ImplementsFlow
OneHandlerIsLedger == L!ImplementsLedger
=============================================================================
