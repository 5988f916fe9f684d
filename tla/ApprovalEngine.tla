-------------------------- MODULE ApprovalEngine --------------------------
(***************************************************************************)
(* evaluate_rules as the program runs it: a loop over the approver         *)
(* specifications of the matching rule, which for each of them walks up    *)
(* the managers with one query per employee, looks for a candidate, and    *)
(* reads the chosen one again for his grades.  Each statement of a READ    *)
(* COMMITTED transaction sees what others committed meanwhile, so the      *)
(* organisation chart may change between any two queries.                  *)
(*                                                                         *)
(* The session's identity map answers a query for a row it still holds     *)
(* with the row as it was first read: the requester's, which the handler   *)
(* has in "me", and the last one the loop has in "dev".  The rows of a     *)
(* walk are let go when resolve_approver returns.                          *)
(***************************************************************************)
EXTENDS ApprovalRules

CONSTANTS Orgs,        \* the organisation charts
          RuleSets,    \* the rule lists of templates
          MaxReorgs    \* bound: changes of the chart during one evaluation

ASSUME EngineAssumption ==
  /\ \A o \in Orgs : IsOrg(o)
  /\ RuleSets \subseteq Seq(Rules)
  /\ MaxReorgs \in Nat

VARIABLES org,      \* the organisation chart in the database
          rules,    \* approval_rules, as loaded by the caller
          form,     \* form_data
          reorgs,   \* changes of the chart since the evaluation began
          held,     \* the developers rows the session holds
          at,       \* where the program is
          rule,     \* rule_idx, 0 before the rule is found
          ai,       \* the number of specifications processed
          acc,      \* out, used, cum_rank_level, cum_position_level (0: None)
          walk,     \* current_id and chain of _manager_chain
          pick      \* approver_id

vars == <<org, rules, form, reorgs, held, at, rule, ai, acc, walk, pick>>

Begun  == [out |-> << >>, used |-> {}, rank |-> 0, title |-> 0]
NoWalk == [next |-> NoDev, chain |-> << >>]

\* A row of developers, from the chart, and as a query of this session has it.
RowOf(o, d) == [id |-> d, mgr |-> o.mgr[d], rank |-> o.rank[d], title |-> o.title[d]]

Row(d) == IF \E r \in held : r.id = d THEN CHOOSE r \in held : r.id = d ELSE RowOf(org, d)

Init == /\ org \in Orgs
        /\ rules \in RuleSets
        /\ form \in Forms
        /\ reorgs = 0
        /\ held = {RowOf(org, Requester)}
        /\ at = "match"
        /\ rule = 0 /\ ai = 0 /\ acc = Begun
        /\ walk = NoWalk /\ pick = NoDev

\* find_matching_rule; without a match an empty list is returned.
FindRule ==
  /\ at = "match"
  /\ rule' = FindMatchingRule(rules, form)
  /\ at' = IF rule' = 0 THEN "done" ELSE "test"
  /\ UNCHANGED <<org, rules, form, reorgs, held, ai, acc, walk, pick>>

\* The specification in hand.
Current == rules[rule].approvers[ai + 1]

\* Mutated forms of GradeMet: the test left out; ranks and titles mixed up.
GradeMetNever(s) == FALSE

GradeMetMixed(s) ==
  /\ s.type \in {"rank_min_level", "title_min_level"}
  /\ acc.rank >= s.level \/ acc.title >= s.level

\* The highest grade met so far is the one the specification asks for.
GradeMet(s) ==
  \/ s.type = "rank_min_level"  /\ acc.rank >= s.level
  \/ s.type = "title_min_level" /\ acc.title >= s.level

\* The head of the loop: drop the specification, or resolve it.
Test ==
  /\ at = "test" /\ ai < Len(rules[rule].approvers)
  /\ IF GradeMet(Current)
     THEN ai' = ai + 1 /\ UNCHANGED <<at, walk>>
     ELSE at' = "walk" /\ walk' = [NoWalk EXCEPT !.next = Requester] /\ UNCHANGED ai
  /\ UNCHANGED <<org, rules, form, reorgs, held, rule, acc, pick>>

Met == {walk.chain[k].id : k \in DOMAIN walk.chain}

\* Mutated forms of Walk: one row too few; an employee met before is passed
\* over instead of ending the walk.
WalkShort ==
  /\ at = "walk"
  /\ IF walk.next # NoDev /\ walk.next \notin Met /\ Len(walk.chain) < MaxDepth
     THEN /\ walk' = [next  |-> Row(walk.next).mgr,
                      chain |-> Append(walk.chain, Row(walk.next))]
          /\ UNCHANGED at
     ELSE at' = "choose" /\ UNCHANGED walk
  /\ UNCHANGED <<org, rules, form, reorgs, held, rule, ai, acc, pick>>

WalkOn ==
  /\ at = "walk"
  /\ IF walk.next # NoDev /\ Len(walk.chain) <= MaxDepth
     THEN /\ walk' = [next  |-> Row(walk.next).mgr,
                      chain |-> IF walk.next \in Met THEN walk.chain
                                ELSE Append(walk.chain, Row(walk.next))]
          /\ UNCHANGED at
     ELSE at' = "choose" /\ UNCHANGED walk
  /\ UNCHANGED <<org, rules, form, reorgs, held, rule, ai, acc, pick>>

\* One round of the loop in _manager_chain: the next row up, or the end.
Walk ==
  /\ at = "walk"
  /\ IF walk.next # NoDev /\ walk.next \notin Met /\ Len(walk.chain) <= MaxDepth
     THEN /\ walk' = [next  |-> Row(walk.next).mgr,
                      chain |-> Append(walk.chain, Row(walk.next))]
          /\ UNCHANGED at
     ELSE at' = "choose" /\ UNCHANGED walk
  /\ UNCHANGED <<org, rules, form, reorgs, held, rule, ai, acc, pick>>

\* Does the row read on the walk satisfy the specification?
Satisfies(r, s) ==
  CASE s.type = "rank_min_level"  -> r.rank >= s.level
    [] s.type = "title_min_level" -> r.title >= s.level
    [] s.type = "rank_in"         -> r.rank \in s.names
    [] s.type = "title_in"        -> r.title \in s.names
    [] OTHER                      -> TRUE

\* Mutated form of Excluded: without the requester.
ExcludedUsed == acc.used

Excluded == acc.used \cup {Requester}

\* The rest of resolve_approver.  A named user is looked up only now.
Candidate(s) ==
  LET fits == {k \in 2 .. Len(walk.chain) : /\ walk.chain[k].id \notin Excluded
                                            /\ Satisfies(walk.chain[k], s)}
  IN  IF s.type = "specific_user"
      THEN IF s.user \in org.active \ Excluded THEN s.user ELSE NoDev
      ELSE IF fits = {} THEN NoDev
      ELSE walk.chain[CHOOSE k \in fits : \A j \in fits : k <= j].id

\* Nobody, or somebody who has a step already: the specification is dropped.
Choose ==
  LET d == Candidate(Current)
  IN  /\ at = "choose"
      /\ IF d \in acc.used \cup {NoDev}
         THEN at' = "test" /\ ai' = ai + 1 /\ UNCHANGED pick
         ELSE at' = "grade" /\ pick' = d /\ UNCHANGED ai
      /\ walk' = NoWalk
      /\ UNCHANGED <<org, rules, form, reorgs, held, rule, acc>>

Higher(a, b) == IF a > b THEN a ELSE b

\* The chosen one is read again, and the step is appended.
Grade ==
  LET r == Row(pick)
  IN  /\ at = "grade"
      /\ acc' = [out   |-> Append(acc.out, [no |-> Len(acc.out) + 1, approver |-> pick,
                                            rule |-> rule, index |-> ai + 1]),
                 used  |-> acc.used \cup {pick},
                 rank  |-> Higher(acc.rank, r.rank),
                 title |-> Higher(acc.title, r.title)]
      /\ held' = {q \in held : q.id = Requester} \cup {r}
      /\ at' = "test" /\ ai' = ai + 1 /\ pick' = NoDev
      /\ UNCHANGED <<org, rules, form, reorgs, rule, walk>>

Return ==
  /\ at = "test" /\ ai = Len(rules[rule].approvers)
  /\ at' = "done"
  /\ UNCHANGED <<org, rules, form, reorgs, held, rule, ai, acc, walk, pick>>

Evaluate == FindRule \/ Test \/ Walk \/ Choose \/ Grade \/ Return

\* Somebody else commits a change of the organisation chart.
Reorganise ==
  /\ at # "done" /\ reorgs < MaxReorgs
  /\ \E o \in Orgs \ {org} : org' = o
  /\ reorgs' = reorgs + 1
  /\ UNCHANGED <<rules, form, held, at, rule, ai, acc, walk, pick>>

Next == Evaluate \/ Reorganise

Spec == Init /\ [][Next]_vars /\ WF_vars(Evaluate)
-----------------------------------------------------------------------------
Rows == [id : Devs, mgr : Devs \cup {NoDev}, rank : Nat, title : Nat]

TypeOK == /\ org \in Orgs /\ rules \in RuleSets /\ form \in Forms
          /\ reorgs \in 0 .. MaxReorgs
          /\ held \subseteq Rows
          /\ at \in {"match", "test", "walk", "choose", "grade", "done"}
          /\ rule \in 0 .. Len(rules)
          /\ ai \in Nat
          /\ acc \in [out : Seq(ChainSteps), used : SUBSET Devs, rank : Nat, title : Nat]
          /\ walk \in [next : Devs \cup {NoDev}, chain : Seq(Rows)]
          /\ pick \in Devs \cup {NoDev}

(***************************************************************************)
(* However the organisation chart changes while the rules are evaluated,   *)
(* the steps are numbered without a gap, nobody appears twice and the      *)
(* requester never appears (approval_engine.py:308-350).                   *)
(***************************************************************************)
ChainWellFormed == IsChain(acc.out)

\* The set the duplicates are recognised by is the set of the chosen approvers.
UsedIsChosen == acc.used = {acc.out[i].approver : i \in DOMAIN acc.out}

(***************************************************************************)
(* "The policy of _auto_skip_downstream is applied in advance"             *)
(* (approval_engine.py:289): as long as the chart stands still, no         *)
(* approver of the chain meets the grade requirement of a later step, so   *)
(* an approval would skip nothing.                                         *)
(***************************************************************************)
NothingLeftToSkip ==
  reorgs = 0 =>
    \A i, j \in 1 .. Len(acc.out) :
      i < j => LET s == rules[rule].approvers[acc.out[j].index]
                   d == acc.out[i].approver
               IN  /\ s.type = "rank_min_level"  => org.rank[d] < s.level
                   /\ s.type = "title_min_level" => org.title[d] < s.level

(***************************************************************************)
(* A specification is left out only for the two reasons the documentation  *)
(* gives: an approver of the chain already has the grade it asks for, or   *)
(* nobody is left who could fill it (approval_engine.py:280-289).          *)
(***************************************************************************)
DroppedForAReason ==
  reorgs = 0 =>
    \A k \in 1 .. ai :
      LET s == rules[rule].approvers[k]
      IN  \/ \E i \in 1 .. Len(acc.out) : acc.out[i].index = k
          \/ \E i \in 1 .. Len(acc.out) :
               s.type \in {"rank_min_level", "title_min_level"}
               /\ Meets(org, s, acc.out[i].approver)
          \/ ResolveApprover(org, s, acc.used) = NoDev

(***************************************************************************)
(* The loop, with its walk from row to row, its running maxima and its     *)
(* second reads, returns what EvaluateRules says of the chart, which knows *)
(* none of these: the other approval modules may use the one for the other *)
(* when the chart does not change underneath it.                           *)
(***************************************************************************)
ReturnsEvaluateRules ==
  (at = "done" /\ reorgs = 0) => acc.out = EvaluateRules(org, rules, form)

(***************************************************************************)
(* evaluate_rules returns, although managers may form a cycle and the      *)
(* chart may change while the walk is under way (approval_engine.py:116).  *)
(***************************************************************************)
Terminates == <>(at = "done")
=============================================================================
