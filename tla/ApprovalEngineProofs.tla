----------------------- MODULE ApprovalEngineProofs -----------------------
(***************************************************************************)
(* The approver chain that evaluate_rules builds, proved for every set of  *)
(* employees, every rule list, every depth of the walk and any number of   *)
(* changes of the organisation chart between two queries.                  *)
(***************************************************************************)
EXTENDS ApprovalEngine, ApprovalRulesProofs

\* The chain collected so far is well formed, and whoever is about to be
\* appended to it is new.
WellFormed ==
  /\ IsChain(acc.out)
  /\ acc.used = ApproversOf(acc.out)
  /\ at = "grade" => pick \in Devs \ (acc.used \cup {Requester})

\* Where the program is.
Located ==
  /\ at = "match" => rule = 0
  /\ rule = 0 => /\ at \in {"match", "done"} /\ ai = 0 /\ acc = Begun
                 /\ at = "done" => FindMatchingRule(rules, form) = 0
  /\ rule # 0 => /\ rule = FindMatchingRule(rules, form)
                 /\ ai <= Len(rules[rule].approvers)
                 /\ at \in {"walk", "choose", "grade"} => ai < Len(rules[rule].approvers)
                 /\ at = "done" => ai = Len(rules[rule].approvers)

(***************************************************************************)
(* While the chart has not changed: what the session holds is what the     *)
(* chart says; the walk has met the first employees of ManagerChain; the   *)
(* maxima are the highest grades chosen; and the loop is as far in the     *)
(* computation of EvaluateRules as its index says.                         *)
(***************************************************************************)
HeldFresh == \A r \in held : r = RowOf(org, r.id)

WalkTracks ==
  at \in {"walk", "choose"} =>
    LET above == ManagerChain(org, Requester)
        n == Len(walk.chain)
    IN  /\ n <= MaxDepth + 1
        /\ \A k \in 1 .. n : walk.chain[k] = RowOf(org, above[k-1])
        /\ walk.next = IF n = 0 THEN Requester ELSE org.mgr[above[n-1]]
        /\ at = "choose" => n # 0 /\ \A k \in n .. MaxDepth : above[k] = NoDev

Picked ==
  /\ at \in {"walk", "choose", "grade"} => ~ GradeMet(Current)
  /\ at = "grade" => pick = ResolveApprover(org, Current, acc.used)

Grades ==
  /\ \A d \in acc.used : org.rank[d] <= acc.rank /\ org.title[d] <= acc.title
  /\ acc.rank # 0 => \E d \in acc.used : org.rank[d] = acc.rank
  /\ acc.title # 0 => \E d \in acc.used : org.title[d] = acc.title

Tracks == rule # 0 => acc.out = ResolveAll(org, rules[rule].approvers, rule)[ai]

Still == HeldFresh /\ WalkTracks /\ Picked /\ Grades /\ Tracks

IInv == TypeOK /\ WellFormed /\ Located /\ (reorgs = 0 => Still)

-----------------------------------------------------------------------------
LEMMA RuleFacts ==
  ASSUME TypeOK, rule # 0
  PROVE  /\ rule \in 1 .. Len(rules) /\ rule \in Nat
         /\ rules[rule].approvers \in Seq(Specs)
         /\ Len(rules[rule].approvers) \in Nat
         /\ ai \in Nat
         /\ ai < Len(rules[rule].approvers) => Current \in Specs
<1>1. rules \in Seq(Rules) /\ rule \in 1 .. Len(rules) /\ ai \in Nat
  BY EngineAssumption DEF TypeOK
<1>2. rules[rule] \in Rules
  BY <1>1
<1>3. rules[rule].approvers \in Seq(Specs)
  BY <1>2 DEF Rules
<1> QED
  BY <1>1, <1>3 DEF Current

LEMMA ChartFacts ==
  ASSUME TypeOK
  PROVE  /\ org.mgr \in [Devs -> Devs \cup {NoDev}]
         /\ org.rank \in [Devs -> Nat] /\ org.title \in [Devs -> Nat]
         /\ org.active \subseteq Devs
BY EngineAssumption DEF TypeOK, IsOrg

\* What a query of the session returns, and when it is what the chart says.
LEMMA RowFacts ==
  ASSUME TypeOK, NEW d \in Devs
  PROVE  /\ Row(d) \in Rows /\ Row(d).id = d
         /\ HeldFresh => Row(d) = RowOf(org, d)
<1>1. RowOf(org, d) \in Rows /\ RowOf(org, d).id = d
  BY ChartFacts DEF RowOf, Rows
<1>2. CASE \E r \in held : r.id = d
  <2>1. Row(d) \in held /\ Row(d).id = d
    BY <1>2 DEF Row
  <2> QED
    BY <2>1 DEF TypeOK, HeldFresh
<1>3. CASE ~ \E r \in held : r.id = d
  BY <1>1, <1>3 DEF Row
<1> QED
  BY <1>2, <1>3

\* The running maxima recognise exactly the grades some chosen approver has.
LEMMA MaximaAreEnough ==
  ASSUME TypeOK, WellFormed, Grades, NEW s \in Specs
  PROVE  GradeMet(s) <=> Redundant(org, acc.out, s)
<1>1. /\ acc.used \subseteq Devs /\ acc.rank \in Nat /\ acc.title \in Nat
      /\ s.level \in Nat /\ s.level # 0
  BY DEF TypeOK, Specs
<1>2. \A d \in acc.used : org.rank[d] \in Nat /\ org.title[d] \in Nat
  BY <1>1, ChartFacts
<1>3. Redundant(org, acc.out, s) <=>
        /\ s.type \in {"rank_min_level", "title_min_level"}
        /\ \E d \in acc.used : Meets(org, s, d)
  BY DEF Redundant, WellFormed
<1>4. CASE s.type = "rank_min_level"
  <2>1. GradeMet(s) <=> acc.rank >= s.level
    BY <1>4 DEF GradeMet
  <2>2. \A d : Meets(org, s, d) <=> org.rank[d] >= s.level
    BY <1>4 DEF Meets
  <2>3. acc.rank >= s.level => acc.rank # 0
    BY <1>1
  <2> QED
    BY <1>1, <1>2, <1>3, <1>4, <2>1, <2>2, <2>3 DEF Grades
<1>5. CASE s.type = "title_min_level"
  <2>1. GradeMet(s) <=> acc.title >= s.level
    BY <1>5 DEF GradeMet
  <2>2. \A d : Meets(org, s, d) <=> org.title[d] >= s.level
    BY <1>5 DEF Meets
  <2>3. acc.title >= s.level => acc.title # 0
    BY <1>1
  <2> QED
    BY <1>1, <1>2, <1>3, <1>5, <2>1, <2>2, <2>3 DEF Grades
<1>6. CASE s.type \notin {"rank_min_level", "title_min_level"}
  BY <1>3, <1>6 DEF GradeMet
<1> QED
  BY <1>4, <1>5, <1>6

\* Whatever the rows of the walk are, nobody excluded is chosen.
LEMMA CandidateChoice ==
  ASSUME TypeOK, NEW s \in Specs
  PROVE  Candidate(s) \in (Devs \ (acc.used \cup {Requester})) \cup {NoDev}
<1> DEFINE fits == {k \in 2 .. Len(walk.chain) : /\ walk.chain[k].id \notin Excluded
                                                 /\ Satisfies(walk.chain[k], s)}
<1>1. walk.chain \in Seq(Rows) /\ Len(walk.chain) \in Nat
  BY DEF TypeOK
<1>2. fits \in SUBSET Nat
  BY <1>1
<1>3. \A k \in fits : walk.chain[k].id \in Devs \ Excluded
  <2> SUFFICES ASSUME NEW k \in fits PROVE walk.chain[k].id \in Devs \ Excluded
    OBVIOUS
  <2>1. k \in 1 .. Len(walk.chain) /\ walk.chain[k].id \notin Excluded
    BY <1>1
  <2>2. walk.chain[k] \in Rows
    BY <1>1, <2>1
  <2> HIDE DEF fits
  <2> QED
    BY <2>1, <2>2 DEF Rows
<1>4. Candidate(s) =
        IF s.type = "specific_user"
        THEN IF s.user \in org.active \ Excluded THEN s.user ELSE NoDev
        ELSE IF fits = {} THEN NoDev
        ELSE walk.chain[CHOOSE k \in fits : \A j \in fits : k <= j].id
  BY DEF Candidate
<1>5. fits # {} => (CHOOSE k \in fits : \A j \in fits : k <= j) \in fits
  <2> HIDE DEF fits
  <2> QED  BY <1>2, LeastElement
<1>6. org.active \subseteq Devs
  BY ChartFacts
<1> HIDE DEF fits
<1> QED
  BY <1>3, <1>4, <1>5, <1>6 DEF Excluded

\* While the chart stands still, the walk finds whom ResolveApprover says.
LEMMA CandidateIsResolved ==
  ASSUME TypeOK, WalkTracks, at = "choose", NEW s \in Specs
  PROVE  Candidate(s) = ResolveApprover(org, s, acc.used)
<1> DEFINE above == ManagerChain(org, Requester)
           n == Len(walk.chain)
           here == {k \in 2 .. n : /\ walk.chain[k].id \notin Excluded
                                   /\ Satisfies(walk.chain[k], s)}
           there == {k \in 1 .. MaxDepth : /\ above[k] \in Devs \ Excluded
                                           /\ Meets(org, s, above[k])}
           first(S) == CHOOSE k \in S : \A j \in S : k <= j
<1>1. /\ Candidate(s) = IF s.type = "specific_user"
                        THEN IF s.user \in org.active \ Excluded THEN s.user ELSE NoDev
                        ELSE IF here = {} THEN NoDev ELSE walk.chain[first(here)].id
      /\ ResolveApprover(org, s, acc.used)
           = IF s.type = "specific_user"
             THEN IF s.user \in org.active \ Excluded THEN s.user ELSE NoDev
             ELSE IF there = {} THEN NoDev ELSE above[first(there)]
  BY DEF Candidate, ResolveApprover, Excluded
<1>2. /\ n \in Nat /\ n # 0 /\ n <= MaxDepth + 1 /\ MaxDepth \in Nat
      /\ \A k \in 1 .. n : walk.chain[k] = RowOf(org, above[k-1]) /\ walk.chain[k] \in Rows
      /\ \A k \in n .. MaxDepth : above[k] = NoDev
  <2>1. walk.chain \in Seq(Rows)
    BY DEF TypeOK
  <2>2. /\ n <= MaxDepth + 1 /\ n # 0
        /\ \A k \in 1 .. n : walk.chain[k] = RowOf(org, above[k-1])
        /\ \A k \in n .. MaxDepth : above[k] = NoDev
    BY DEF WalkTracks
  <2> HIDE DEF above
  <2> QED
    BY <2>1, <2>2, DevAssumption
<1>3. \A k \in 1 .. n - 1 : /\ walk.chain[k + 1] = RowOf(org, above[k])
                            /\ walk.chain[k + 1].id = above[k] /\ above[k] \in Devs
  <2> SUFFICES ASSUME NEW k \in 1 .. n - 1
               PROVE  /\ walk.chain[k + 1] = RowOf(org, above[k])
                      /\ walk.chain[k + 1].id = above[k] /\ above[k] \in Devs
    OBVIOUS
  <2> HIDE DEF above, n
  <2>1. k + 1 \in 1 .. n /\ (k + 1) - 1 = k
    BY <1>2
  <2>2. walk.chain[k + 1] = RowOf(org, above[k]) /\ walk.chain[k + 1] \in Rows
    BY <1>2, <2>1
  <2> QED
    BY <2>2 DEF RowOf, Rows
<1> HIDE DEF above, n
<1>4. CASE s.type = "specific_user"
  BY <1>1, <1>4
<1>5. CASE s.type # "specific_user"
  <2>1. \A k \in 1 .. n - 1 : k + 1 \in here <=> k \in there
    <3> SUFFICES ASSUME NEW k \in 1 .. n - 1
                 PROVE  k + 1 \in here <=> k \in there
      OBVIOUS
    <3>1. k + 1 \in 2 .. n /\ k \in 1 .. MaxDepth
      BY <1>2
    <3>2. Satisfies(walk.chain[k + 1], s) <=> Meets(org, s, above[k])
      <4>1. s.type \in {"manager", "rank_min_level", "title_min_level", "rank_in", "title_in"}
        BY <1>5 DEF Specs, ApproverTypes
      <4>2. /\ walk.chain[k + 1].rank = org.rank[above[k]]
            /\ walk.chain[k + 1].title = org.title[above[k]]
        <5>1. walk.chain[k + 1] = RowOf(org, above[k])
          BY <1>3
        <5> HIDE DEF here, there
        <5> QED  BY <5>1 DEF RowOf
      <4> QED
        BY <4>1, <4>2 DEF Satisfies, Meets
    <3> QED
      BY <1>3, <3>1, <3>2
  <2>2. \A k \in there : k \in 1 .. n - 1
    <3> SUFFICES ASSUME NEW k \in there PROVE k \in 1 .. n - 1
      OBVIOUS
    <3>1. k \in 1 .. MaxDepth /\ above[k] \in Devs
      OBVIOUS
    <3>2. k \notin n .. MaxDepth
      BY <1>2, <3>1, DevAssumption
    <3> QED
      BY <1>2, <3>1, <3>2
  <2>3. \A k \in here : k - 1 \in 1 .. n - 1 /\ (k - 1) + 1 = k
    BY <1>2
  <2>4. here \in SUBSET Nat /\ there \in SUBSET Nat
    BY <1>2
  <2> HIDE DEF here, there
  <2>5. CASE there = {}
    <3>1. here = {}
      BY <2>1, <2>3, <2>5
    <3> QED
      BY <1>1, <1>5, <2>5, <3>1
  <2>6. CASE there # {}
    <3>1. first(there) \in there /\ \A j \in there : first(there) <= j
      BY <2>4, <2>6, LeastElement
    <3> DEFINE f == first(there)
    <3>2. f \in 1 .. n - 1 /\ f + 1 \in here
      BY <2>1, <2>2, <3>1
    <3>3. \A k \in here : f + 1 <= k
      <4> SUFFICES ASSUME NEW k \in here PROVE f + 1 <= k
        OBVIOUS
      <4>1. k - 1 \in there /\ k \in Nat
        BY <2>1, <2>3, <2>4
      <4>2. f <= k - 1 /\ f \in Nat
        BY <2>4, <3>1, <4>1
      <4> HIDE DEF f
      <4> QED
        BY <4>1, <4>2
    <3>4. first(here) = f + 1
      <4>1. first(here) \in here /\ \A j \in here : first(here) <= j
        BY <2>4, <3>2, LeastElement
      <4>2. first(here) <= f + 1 /\ f + 1 <= first(here) /\ first(here) \in Nat /\ f + 1 \in Nat
        BY <2>4, <3>2, <3>3, <4>1
      <4> HIDE DEF f, first
      <4> QED
        BY <4>2
    <3>5. walk.chain[f + 1].id = above[f]
      BY <1>3, <3>2
    <3> HIDE DEF f, first
    <3>6. here # {}
      BY <3>2
    <3> QED
      BY <1>1, <1>5, <2>6, <3>4, <3>5, <3>6 DEF f
  <2> QED
    BY <2>5, <2>6
<1> QED
  BY <1>4, <1>5

-----------------------------------------------------------------------------
\* The steps that collect nothing and leave no specification behind.
LEMMA FindRuleKeepsIInv ==
  ASSUME IInv, FindRule
  PROVE  IInv'
<1>1. /\ rules \in Seq(Rules) /\ ai = 0 /\ acc = Begun /\ rule = 0
      /\ rule' = FindMatchingRule(rules, form)
      /\ at' = IF rule' = 0 THEN "done" ELSE "test"
      /\ UNCHANGED <<org, rules, form, reorgs, held, ai, acc, walk, pick>>
  BY EngineAssumption DEF IInv, TypeOK, Located, FindRule
<1>2. TypeOK'
  <2>1. rule' \in 0 .. Len(rules)
    BY <1>1, FirstMatch
  <2>2. at' \in {"done", "test"}
    BY <1>1
  <2> QED  BY <1>1, <2>1, <2>2 DEF IInv, TypeOK
<1>3. WellFormed'
  BY <1>1 DEF IInv, WellFormed
<1>4. ASSUME rule' # 0
      PROVE  /\ rules'[rule'].approvers \in Seq(Specs)
             /\ Len(rules'[rule'].approvers) \in Nat
  <2>1. rules[rule'] \in Rules
    BY <1>1, <1>2, <1>4 DEF TypeOK
  <2>2. rules[rule'].approvers \in Seq(Specs)
    BY <2>1 DEF Rules
  <2> QED  BY <1>1, <2>2
<1>5. Located'
  <2>1. rule' = 0 => FindMatchingRule(rules', form') = 0
    BY <1>1
  <2>2. rule' # 0 => /\ rule' = FindMatchingRule(rules', form')
                     /\ ai' <= Len(rules'[rule'].approvers)
    BY <1>1, <1>4
  <2> HIDE DEF FindMatchingRule
  <2> QED
    BY <1>1, <2>1, <2>2 DEF Located
<1>6. ASSUME reorgs' = 0
      PROVE  Still'
  <2>1. HeldFresh' /\ Grades'
    BY <1>1, <1>6 DEF IInv, Still, HeldFresh, Grades
  <2>2. WalkTracks' /\ Picked'
    BY <1>1 DEF WalkTracks, Picked
  <2>3. Tracks'
    <3> SUFFICES ASSUME rule' # 0
                 PROVE  acc'.out = ResolveAll(org', rules'[rule'].approvers, rule')[0]
      BY <1>1 DEF Tracks
    <3>1. rules'[rule'].approvers \in Seq(Specs)
      BY <1>4
    <3>2. acc'.out = << >>
      BY <1>1 DEF Begun
    <3> HIDE DEF FindMatchingRule
    <3> QED
      BY <3>1, <3>2, ResolveAllAt
  <2> QED
    BY <2>1, <2>2, <2>3 DEF Still
<1> QED
  BY <1>2, <1>3, <1>5, <1>6 DEF IInv

LEMMA WalkKeepsIInv ==
  ASSUME IInv, Walk
  PROVE  IInv'
<1> DEFINE d == walk.next
           n == Len(walk.chain)
           on == d # NoDev /\ d \notin Met /\ n <= MaxDepth
<1>1. /\ at = "walk" /\ rule # 0
      /\ on => /\ walk' = [next |-> Row(d).mgr, chain |-> Append(walk.chain, Row(d))]
               /\ at' = "walk"
      /\ ~ on => at' = "choose" /\ walk' = walk
      /\ UNCHANGED <<org, rules, form, reorgs, held, rule, ai, acc, pick>>
  BY DEF Walk, IInv, Located
<1>2. /\ walk.chain \in Seq(Rows) /\ n \in Nat /\ d \in Devs \cup {NoDev}
      /\ walk \in [next : Devs \cup {NoDev}, chain : Seq(Rows)]
  BY DEF IInv, TypeOK
<1>3. on => d \in Devs /\ Row(d) \in Rows /\ Row(d).id = d /\ (HeldFresh => Row(d) = RowOf(org, d))
  BY <1>2, RowFacts DEF IInv
<1>4. on => /\ walk'.chain \in Seq(Rows) /\ Len(walk'.chain) = n + 1
            /\ \A k \in 1 .. n : walk'.chain[k] = walk.chain[k]
            /\ walk'.chain[n + 1] = Row(d)
            /\ walk'.next = Row(d).mgr
            /\ walk' \in [next : Devs \cup {NoDev}, chain : Seq(Rows)]
  <2> SUFFICES ASSUME on
               PROVE  /\ walk'.chain \in Seq(Rows) /\ Len(walk'.chain) = n + 1
                      /\ \A k \in 1 .. n : walk'.chain[k] = walk.chain[k]
                      /\ walk'.chain[n + 1] = Row(d)
                      /\ walk'.next = Row(d).mgr
                      /\ walk' \in [next : Devs \cup {NoDev}, chain : Seq(Rows)]
    OBVIOUS
  <2>1. walk'.chain = Append(walk.chain, Row(d)) /\ walk'.next = Row(d).mgr
        /\ walk' = [next |-> Row(d).mgr, chain |-> Append(walk.chain, Row(d))]
    BY <1>1
  <2>2. Row(d) \in Rows
    BY <1>3
  <2>3. Row(d).mgr \in Devs \cup {NoDev}
    BY <2>2 DEF Rows
  <2> HIDE DEF d, on
  <2> QED
    BY <1>2, <2>1, <2>2, <2>3
<1>5. TypeOK'
  <2>1. walk' \in [next : Devs \cup {NoDev}, chain : Seq(Rows)] /\ at' \in {"walk", "choose"}
    BY <1>1, <1>2, <1>4
  <2> HIDE DEF on, n, d
  <2> QED
    BY <1>1, <2>1 DEF IInv, TypeOK
<1>6. WellFormed' /\ Located'
  <2>1. at' \in {"walk", "choose"}
    BY <1>1
  <2> HIDE DEF on, n, d
  <2> QED
    BY <1>1, <2>1 DEF IInv, WellFormed, Located
<1>7. ASSUME reorgs' = 0
      PROVE  Still'
  <2>1. Still
    BY <1>1, <1>7 DEF IInv
  <2>2. HeldFresh' /\ Grades' /\ Tracks'
    BY <1>1, <2>1 DEF Still, HeldFresh, Grades, Tracks
  <2>3. Picked'
    <3>1. at' \in {"walk", "choose"}
      BY <1>1
    <3> HIDE DEF on, n, d
    <3> QED  BY <1>1, <2>1, <3>1 DEF Still, Picked, Current, GradeMet
  <2>4. WalkTracks'
    <3> DEFINE above == ManagerChain(org, Requester)
    <3>1. /\ n <= MaxDepth + 1
          /\ \A k \in 1 .. n : walk.chain[k] = RowOf(org, above[k-1])
          /\ d = IF n = 0 THEN Requester ELSE org.mgr[above[n-1]]
      BY <1>1, <2>1 DEF Still, WalkTracks
    <3>2. /\ above[0] = Requester
          /\ \A k \in 1 .. MaxDepth : above[k] = Above(org, above, k)
      BY ManagerChainAt
    <3>3. \A k \in 0 .. n - 1 : above[k] = walk.chain[k + 1].id /\ above[k] \in Devs
      <4> SUFFICES ASSUME NEW k \in 0 .. n - 1
                   PROVE  above[k] = walk.chain[k + 1].id /\ above[k] \in Devs
        OBVIOUS
      <4> HIDE DEF above, n, on, d
      <4>1. k + 1 \in 1 .. n /\ (k + 1) - 1 = k
        BY <1>2
      <4>2. walk.chain[k + 1] = RowOf(org, above[k])
        BY <3>1, <4>1
      <4>3. walk.chain[k + 1] \in Rows
        BY <1>2, <4>1 DEF n
      <4> QED
        BY <4>2, <4>3 DEF RowOf, Rows
    <3>4. Met = {above[k] : k \in 0 .. n - 1}
      <4>1. DOMAIN walk.chain = 1 .. n
        BY <1>2
      <4>2. \A k \in 1 .. n : k - 1 \in 0 .. n - 1 /\ (k - 1) + 1 = k
        BY <1>2
      <4>3. \A k \in 0 .. n - 1 : k + 1 \in 1 .. n
        BY <1>2
      <4> HIDE DEF above, n, on, d
      <4>4. \A x : (\E k \in 1 .. n : x = walk.chain[k].id) <=> (\E k \in 0 .. n - 1 : x = above[k])
        BY <3>3, <4>2, <4>3
      <4> QED
        BY <4>1, <4>4 DEF Met
    <3>5. MaxDepth \in Nat /\ NoDev \notin Devs /\ Requester \in Devs
      BY DevAssumption
    <3>6. CASE on
      <4>1. above[n] = d
        <5>1. CASE n = 0
          BY <3>1, <3>2, <5>1
        <5>2. CASE n # 0
          <6>1. n \in 1 .. MaxDepth /\ n - 1 \in 0 .. n - 1
            BY <1>2, <3>5, <3>6, <5>2
          <6>2. above[n] = Above(org, above, n)
            BY <3>2, <6>1
          <6>3. above[n-1] # NoDev
            <7> HIDE DEF above, n, on, d
            <7> QED  BY <3>3, <3>5, <6>1
          <6>4. d = org.mgr[above[n-1]] /\ d \notin {above[k] : k \in 0 .. n - 1}
            BY <3>1, <3>4, <3>6, <5>2
          <6> HIDE DEF above, n, on, d
          <6> QED
            BY <6>2, <6>3, <6>4 DEF Above
        <5> QED
          BY <5>1, <5>2
      <4>2. Row(d) = RowOf(org, d) /\ Row(d).mgr = org.mgr[d]
        BY <1>3, <2>1, <3>6 DEF Still, RowOf
      <4>3. n + 1 <= MaxDepth + 1 /\ n + 1 # 0 /\ (n + 1) - 1 = n
        BY <1>2, <3>5, <3>6
      <4>4. \A k \in 1 .. n + 1 : walk'.chain[k] = RowOf(org, above[k-1])
        <5> SUFFICES ASSUME NEW k \in 1 .. n + 1 PROVE walk'.chain[k] = RowOf(org, above[k-1])
          OBVIOUS
        <5>1. k \in 1 .. n \/ k = n + 1
          BY <1>2
        <5>2. CASE k \in 1 .. n
          <6>1. walk'.chain[k] = walk.chain[k]
            BY <1>4, <3>6, <5>2
          <6>2. walk.chain[k] = RowOf(org, above[k-1])
            BY <3>1, <5>2
          <6> QED  BY <6>1, <6>2
        <5>3. CASE k = n + 1
          <6>1. walk'.chain[k] = RowOf(org, d) /\ k - 1 = n
            BY <1>4, <3>6, <4>2, <4>3, <5>3
          <6> HIDE DEF above, n, on, d
          <6> QED  BY <4>1, <6>1
        <5> QED
          BY <5>1, <5>2, <5>3
      <4>5. walk'.next = org.mgr[above[n]] /\ Len(walk'.chain) = n + 1 /\ at' = "walk"
        BY <1>1, <1>4, <3>6, <4>1, <4>2
      <4>6. org' = org
        BY <1>1
      <4> HIDE DEF n, on, d
      <4> QED
        BY <4>3, <4>4, <4>5, <4>6 DEF WalkTracks
    <3>7. CASE ~ on
      <4>1. n # 0
        <5> SUFFICES ASSUME n = 0 PROVE FALSE
          OBVIOUS
        <5>1. d = Requester /\ Met = {}
          BY <3>1, <3>4
        <5> QED
          BY <3>5, <3>7, <5>1
      <4>2. \A k \in n .. MaxDepth : above[k] = NoDev
        <5>1. CASE n <= MaxDepth
          <6>1. n \in 1 .. MaxDepth /\ n - 1 \in 0 .. n - 1
            BY <1>2, <3>5, <4>1, <5>1
          <6>2. d = NoDev \/ d \in {above[k] : k \in 0 .. n - 1}
            BY <3>4, <3>7, <5>1
          <6>3. d = org.mgr[above[n-1]] /\ above[n] = Above(org, above, n)
            BY <3>1, <3>2, <4>1, <6>1
          <6>4. above[n] = NoDev
            <7> HIDE DEF above, n, on, d
            <7> QED  BY <6>2, <6>3 DEF Above
          <6> HIDE DEF n, on, d
          <6> QED
            BY <6>1, <6>4, NobodyAbove
        <5>2. CASE ~ (n <= MaxDepth)
          BY <1>2, <3>5, <5>2
        <5> QED
          BY <5>1, <5>2
      <4> QED
        BY <1>1, <3>1, <3>7, <4>1, <4>2 DEF WalkTracks
    <3> QED
      BY <3>6, <3>7
  <2> QED
    BY <2>2, <2>3, <2>4 DEF Still
<1> QED
  BY <1>5, <1>6, <1>7 DEF IInv

\* A specification is left out: at the head of the loop, or for want of anybody.
LEMMA DropIsStep ==
  ASSUME IInv, Still, rule # 0, ai < Len(rules[rule].approvers),
         \/ GradeMet(Current)
         \/ ResolveApprover(org, Current, acc.used) = NoDev
  PROVE  acc.out = ResolveAll(org, rules[rule].approvers, rule)[ai + 1]
<1> DEFINE specs == rules[rule].approvers
<1>1. specs \in Seq(Specs) /\ Len(specs) \in Nat /\ ai \in Nat /\ Current \in Specs
  BY RuleFacts DEF IInv
<1>2. Redundant(org, acc.out, Current) \/ ResolveApprover(org, Current, acc.used) = NoDev
  BY <1>1, MaximaAreEnough DEF IInv, Still
<1>3. ResolveStep(org, acc.out, Current, ai + 1, rule) = acc.out
  BY <1>2 DEF ResolveStep, IInv, WellFormed
<1>4. PICK k \in 1 .. Len(specs) : k = ai + 1 /\ k - 1 = ai
  BY <1>1
<1>5. ResolveAll(org, specs, rule)[k]
        = ResolveStep(org, ResolveAll(org, specs, rule)[k-1], specs[k], k, rule)
  BY <1>1, ResolveAllAt
<1>6. ResolveAll(org, specs, rule)[k-1] = acc.out
  BY <1>4 DEF Still, Tracks
<1>7. specs[k] = Current
  BY <1>4 DEF Current
<1> HIDE DEF specs
<1>8. ResolveAll(org, specs, rule)[k] = acc.out
  BY <1>3, <1>4, <1>5, <1>6, <1>7
<1> QED
  BY <1>4, <1>8 DEF specs

LEMMA TestKeepsIInv ==
  ASSUME IInv, Test
  PROVE  IInv'
<1>1. /\ at = "test" /\ rule # 0 /\ ai < Len(rules[rule].approvers)
      /\ GradeMet(Current) => ai' = ai + 1 /\ at' = "test" /\ walk' = walk
      /\ ~ GradeMet(Current) => /\ at' = "walk" /\ ai' = ai
                                /\ walk' = [NoWalk EXCEPT !.next = Requester]
      /\ UNCHANGED <<org, rules, form, reorgs, held, rule, acc, pick>>
  BY DEF Test, IInv, Located
<1>2. Len(rules[rule].approvers) \in Nat /\ ai \in Nat
  BY <1>1, RuleFacts DEF IInv
<1>3. [NoWalk EXCEPT !.next = Requester] = [next |-> Requester, chain |-> << >>]
  BY DEF NoWalk
<1>4. TypeOK'
  <2>1. walk' \in [next : Devs \cup {NoDev}, chain : Seq(Rows)]
    <3>1. [next |-> Requester, chain |-> << >>] \in [next : Devs \cup {NoDev}, chain : Seq(Rows)]
      BY DevAssumption
    <3> QED
      BY <1>1, <1>3, <3>1 DEF IInv, TypeOK
  <2>2. ai' \in Nat /\ at' \in {"test", "walk"}
    BY <1>1, <1>2
  <2> QED
    BY <1>1, <2>1, <2>2 DEF IInv, TypeOK
<1>5. WellFormed' /\ Located'
  <2>1. at' \in {"test", "walk"} /\ ai' <= Len(rules[rule].approvers)
        /\ (at' = "walk" => ai' < Len(rules[rule].approvers))
    BY <1>1, <1>2
  <2> QED
    BY <1>1, <2>1 DEF IInv, WellFormed, Located
<1>6. ASSUME reorgs' = 0
      PROVE  Still'
  <2>1. Still
    BY <1>1, <1>6 DEF IInv
  <2>2. HeldFresh' /\ Grades'
    BY <1>1, <2>1 DEF Still, HeldFresh, Grades
  <2>3. CASE GradeMet(Current)
    <3>1. WalkTracks' /\ Picked'
      BY <1>1, <2>3 DEF WalkTracks, Picked
    <3>2. acc.out = ResolveAll(org, rules[rule].approvers, rule)[ai + 1]
      BY <1>1, <2>1, <2>3, DropIsStep
    <3>3. Tracks'
      BY <1>1, <2>3, <3>2 DEF Tracks
    <3> QED
      BY <2>2, <3>1, <3>3 DEF Still
  <2>4. CASE ~ GradeMet(Current)
    <3>1. Tracks'
      BY <1>1, <2>1, <2>4 DEF Still, Tracks
    <3>2. Picked'
      BY <1>1, <2>4 DEF Picked, Current, GradeMet
    <3>3. WalkTracks'
      <4>1. walk'.next = Requester /\ walk'.chain = << >> /\ Len(walk'.chain) = 0
        BY <1>1, <1>3, <2>4
      <4>2. 0 <= MaxDepth + 1
        BY DevAssumption
      <4> QED
        BY <1>1, <2>4, <4>1, <4>2 DEF WalkTracks
    <3> QED
      BY <2>2, <3>1, <3>2, <3>3 DEF Still
  <2> QED
    BY <2>3, <2>4
<1> QED
  BY <1>4, <1>5, <1>6 DEF IInv

\* Why nobody is picked, and who is.
LEMMA ChooseOutcome ==
  ASSUME IInv, Choose
  PROVE  \/ /\ at' = "test" /\ ai' = ai + 1 /\ pick' = pick
            /\ reorgs = 0 => ResolveApprover(org, Current, acc.used) = NoDev
         \/ /\ at' = "grade" /\ ai' = ai /\ pick' \in Devs \ (acc.used \cup {Requester})
            /\ reorgs = 0 => pick' = ResolveApprover(org, Current, acc.used)
<1>1. /\ at = "choose" /\ rule # 0 /\ ai < Len(rules[rule].approvers)
      /\ IF Candidate(Current) \in acc.used \cup {NoDev}
         THEN at' = "test" /\ ai' = ai + 1 /\ pick' = pick
         ELSE at' = "grade" /\ pick' = Candidate(Current) /\ ai' = ai
  BY DEF Choose, IInv, Located
<1>2. Current \in Specs
  BY <1>1, RuleFacts DEF IInv
<1>3. Candidate(Current) \in (Devs \ (acc.used \cup {Requester})) \cup {NoDev}
  BY <1>2, CandidateChoice DEF IInv
<1>4. reorgs = 0 => Candidate(Current) = ResolveApprover(org, Current, acc.used)
  BY <1>1, <1>2, CandidateIsResolved DEF IInv, Still
<1> HIDE DEF Current
<1> QED
  BY <1>1, <1>3, <1>4

LEMMA ChooseKeepsIInv ==
  ASSUME IInv, Choose
  PROVE  IInv'
<1>1. /\ at = "choose" /\ rule # 0 /\ ai < Len(rules[rule].approvers)
      /\ walk' = NoWalk
      /\ UNCHANGED <<org, rules, form, reorgs, held, rule, acc>>
  BY DEF Choose, IInv, Located
<1>2. Len(rules[rule].approvers) \in Nat /\ ai \in Nat
  BY <1>1, RuleFacts DEF IInv
<1>3. NoWalk \in [next : Devs \cup {NoDev}, chain : Seq(Rows)]
  BY DEF NoWalk
<1>4. CASE /\ at' = "test" /\ ai' = ai + 1 /\ pick' = pick
           /\ reorgs = 0 => ResolveApprover(org, Current, acc.used) = NoDev
  <2>1. TypeOK'
    BY <1>1, <1>2, <1>3, <1>4 DEF IInv, TypeOK
  <2>2. WellFormed' /\ Located'
    BY <1>1, <1>2, <1>4 DEF IInv, WellFormed, Located
  <2>3. ASSUME reorgs' = 0
        PROVE  Still'
    <3>1. Still /\ ResolveApprover(org, Current, acc.used) = NoDev
      BY <1>1, <1>4, <2>3 DEF IInv
    <3>2. HeldFresh' /\ Grades'
      BY <1>1, <3>1 DEF Still, HeldFresh, Grades
    <3>3. WalkTracks' /\ Picked'
      BY <1>4 DEF WalkTracks, Picked
    <3>4. acc.out = ResolveAll(org, rules[rule].approvers, rule)[ai + 1]
      BY <1>1, <3>1, DropIsStep
    <3>5. Tracks'
      BY <1>1, <1>4, <3>4 DEF Tracks
    <3> QED
      BY <3>2, <3>3, <3>5 DEF Still
  <2> QED
    BY <2>1, <2>2, <2>3 DEF IInv
<1>5. CASE /\ at' = "grade" /\ ai' = ai /\ pick' \in Devs \ (acc.used \cup {Requester})
           /\ reorgs = 0 => pick' = ResolveApprover(org, Current, acc.used)
  <2>1. TypeOK'
    BY <1>1, <1>3, <1>5 DEF IInv, TypeOK
  <2>2. WellFormed' /\ Located'
    BY <1>1, <1>5 DEF IInv, WellFormed, Located
  <2>3. ASSUME reorgs' = 0
        PROVE  Still'
    <3>1. Still /\ pick' = ResolveApprover(org, Current, acc.used)
      BY <1>1, <1>5, <2>3 DEF IInv
    <3>2. HeldFresh' /\ Grades' /\ Tracks'
      BY <1>1, <1>5, <3>1 DEF Still, HeldFresh, Grades, Tracks
    <3>3. WalkTracks'
      BY <1>5 DEF WalkTracks
    <3>4. Picked'
      <4>1. Current' = Current /\ (GradeMet(Current))' = GradeMet(Current)
        BY <1>1, <1>5 DEF Current, GradeMet
      <4>2. ~ GradeMet(Current)
        BY <1>1, <3>1 DEF Still, Picked
      <4> QED
        BY <1>1, <1>5, <3>1, <4>1, <4>2 DEF Picked
    <3> QED
      BY <3>2, <3>3, <3>4 DEF Still
  <2> QED
    BY <2>1, <2>2, <2>3 DEF IInv
<1> QED
  BY <1>4, <1>5, ChooseOutcome

\* What appending the step does to the accumulator.
LEMMA GradeOutcome ==
  ASSUME IInv, Grade
  PROVE  /\ rule # 0 /\ rule \in Nat /\ ai \in Nat /\ ai < Len(rules[rule].approvers)
         /\ Current \in Specs
         /\ pick \in Devs \ (acc.used \cup {Requester})
         /\ acc'.out = Append(acc.out, [no |-> Len(acc.out) + 1, approver |-> pick,
                                        rule |-> rule, index |-> ai + 1])
         /\ acc'.used = acc.used \cup {pick}
         /\ acc'.rank = Higher(acc.rank, Row(pick).rank)
         /\ acc'.title = Higher(acc.title, Row(pick).title)
         /\ acc' \in [out : Seq(ChainSteps), used : SUBSET Devs, rank : Nat, title : Nat]
         /\ IsChain(acc'.out) /\ acc'.used = ApproversOf(acc'.out)
<1> DEFINE b == Append(acc.out, [no |-> Len(acc.out) + 1, approver |-> pick,
                                 rule |-> rule, index |-> ai + 1])
<1>1. /\ at = "grade" /\ rule # 0 /\ ai < Len(rules[rule].approvers)
      /\ pick \in Devs \ (acc.used \cup {Requester})
      /\ acc.used = ApproversOf(acc.out) /\ IsChain(acc.out)
  BY DEF Grade, IInv, Located, WellFormed
<1>2. rule \in Nat /\ ai \in Nat /\ ai + 1 \in Nat /\ Current \in Specs
  BY <1>1, RuleFacts DEF IInv
<1>3. acc' = [out |-> b, used |-> acc.used \cup {pick},
              rank |-> Higher(acc.rank, Row(pick).rank),
              title |-> Higher(acc.title, Row(pick).title)]
  BY DEF Grade
<1>4. Row(pick).rank \in Nat /\ Row(pick).title \in Nat
  <2>1. Row(pick) \in Rows
    BY <1>1, RowFacts DEF IInv
  <2> QED  BY <2>1 DEF Rows
<1>5. /\ Higher(acc.rank, Row(pick).rank) \in Nat /\ Higher(acc.title, Row(pick).title) \in Nat
      /\ acc.used \cup {pick} \in SUBSET Devs
  BY <1>1, <1>4 DEF Higher, IInv, TypeOK
<1>6. IsChain(b) /\ ApproversOf(b) = acc.used \cup {pick}
  <2> DEFINE e == [no |-> Len(acc.out) + 1, approver |-> pick, rule |-> rule, index |-> ai + 1]
  <2>1. Len(acc.out) \in Nat
    BY <1>1 DEF IsChain
  <2>2. e \in ChainSteps /\ e.no = Len(acc.out) + 1 /\ e.approver = pick
    BY <1>1, <1>2, <2>1 DEF ChainSteps
  <2>3. b = Append(acc.out, e)
    OBVIOUS
  <2>4. IsChain(acc.out) /\ pick \notin ApproversOf(acc.out) /\ pick # Requester
    BY <1>1
  <2> HIDE DEF b, e
  <2>5. IsChain(b)
    BY <2>2, <2>3, <2>4, LongerChain
  <2>6. ApproversOf(b) = ApproversOf(acc.out) \cup {pick}
    BY <2>2, <2>3, <2>4, LongerChain
  <2> QED
    BY <1>1, <2>5, <2>6
<1>7. b \in Seq(ChainSteps)
  BY <1>6 DEF IsChain
<1> HIDE DEF b
<1>8. acc'.out = b /\ acc'.used = acc.used \cup {pick}
      /\ acc'.rank = Higher(acc.rank, Row(pick).rank)
      /\ acc'.title = Higher(acc.title, Row(pick).title)
      /\ acc' \in [out : Seq(ChainSteps), used : SUBSET Devs, rank : Nat, title : Nat]
  BY <1>3, <1>5, <1>7
<1> QED
  BY <1>1, <1>2, <1>6, <1>8 DEF b

\* The maxima take the grades of the step that is appended into account.
LEMMA GradeGrades ==
  ASSUME IInv, Grade, Still
  PROVE  Grades'
<1>1. /\ pick \in Devs
      /\ acc'.used = acc.used \cup {pick}
      /\ acc'.rank = Higher(acc.rank, Row(pick).rank)
      /\ acc'.title = Higher(acc.title, Row(pick).title)
      /\ org' = org
  BY GradeOutcome DEF Grade
<1>2. Row(pick).rank = org.rank[pick] /\ Row(pick).title = org.title[pick]
  <2>1. Row(pick) = RowOf(org, pick)
    BY <1>1, RowFacts DEF IInv, Still
  <2> QED  BY <2>1 DEF RowOf
<1>3. /\ acc.rank \in Nat /\ acc.title \in Nat /\ acc.used \subseteq Devs
      /\ org.rank \in [Devs -> Nat] /\ org.title \in [Devs -> Nat]
  BY ChartFacts DEF IInv, TypeOK
<1>4. /\ \A d \in acc.used : org.rank[d] <= acc.rank /\ org.title[d] <= acc.title
      /\ acc.rank # 0 => \E d \in acc.used : org.rank[d] = acc.rank
      /\ acc.title # 0 => \E d \in acc.used : org.title[d] = acc.title
  BY DEF Still, Grades
<1>5. /\ acc'.rank \in Nat /\ acc.rank <= acc'.rank /\ org.rank[pick] <= acc'.rank
      /\ acc'.rank \in {acc.rank, org.rank[pick]}
      /\ acc'.title \in Nat /\ acc.title <= acc'.title /\ org.title[pick] <= acc'.title
      /\ acc'.title \in {acc.title, org.title[pick]}
  BY <1>1, <1>2, <1>3 DEF Higher
<1>6. \A d \in acc'.used : org.rank[d] <= acc'.rank /\ org.title[d] <= acc'.title
  <2> SUFFICES ASSUME NEW d \in acc'.used
               PROVE  org.rank[d] <= acc'.rank /\ org.title[d] <= acc'.title
    OBVIOUS
  <2>1. CASE d = pick
    BY <1>5, <2>1
  <2>2. CASE d \in acc.used
    <3>1. org.rank[d] \in Nat /\ org.title[d] \in Nat
      BY <1>3, <2>2
    <3> QED
      BY <1>3, <1>4, <1>5, <2>2, <3>1
  <2> QED
    BY <1>1, <2>1, <2>2
<1>7. acc'.rank # 0 => \E d \in acc'.used : org.rank[d] = acc'.rank
  BY <1>1, <1>4, <1>5
<1>8. acc'.title # 0 => \E d \in acc'.used : org.title[d] = acc'.title
  BY <1>1, <1>4, <1>5
<1> QED
  BY <1>1, <1>6, <1>7, <1>8 DEF Grades

LEMMA GradeKeepsIInv ==
  ASSUME IInv, Grade
  PROVE  IInv'
<1> DEFINE specs == rules[rule].approvers
<1>1. /\ at = "grade" /\ at' = "test" /\ ai' = ai + 1 /\ pick' = NoDev
      /\ held' = {q \in held : q.id = Requester} \cup {Row(pick)}
      /\ UNCHANGED <<org, rules, form, reorgs, rule, walk>>
  BY DEF Grade
<1>2. /\ rule # 0 /\ ai \in Nat /\ ai < Len(specs)
      /\ specs \in Seq(Specs) /\ Len(specs) \in Nat
  BY GradeOutcome, RuleFacts DEF IInv
<1>3. Row(pick) \in Rows /\ (HeldFresh => Row(pick) = RowOf(org, pick)) /\ Row(pick).id = pick
  BY GradeOutcome, RowFacts DEF IInv
<1>4. TypeOK'
  <2>1. acc' \in [out : Seq(ChainSteps), used : SUBSET Devs, rank : Nat, title : Nat]
    BY GradeOutcome
  <2>2. held' \subseteq Rows /\ ai' \in Nat
    BY <1>1, <1>2, <1>3 DEF IInv, TypeOK
  <2> QED
    BY <1>1, <2>1, <2>2 DEF IInv, TypeOK
<1>5. WellFormed' /\ Located'
  <2>1. WellFormed'
    BY <1>1, GradeOutcome DEF WellFormed
  <2> QED
    BY <1>1, <1>2, <2>1 DEF IInv, Located
<1>6. ASSUME reorgs' = 0
      PROVE  Still'
  <2>1. Still
    BY <1>1, <1>6 DEF IInv
  <2>2. HeldFresh'
    BY <1>1, <1>3, <2>1 DEF Still, HeldFresh
  <2>3. Grades'
    BY <2>1, GradeGrades
  <2>4. WalkTracks' /\ Picked'
    BY <1>1 DEF WalkTracks, Picked
  <2>5. Tracks'
    <3>1. PICK k \in 1 .. Len(specs) : k = ai + 1 /\ k - 1 = ai
      BY <1>2
    <3>2. ResolveAll(org, specs, rule)[k]
            = ResolveStep(org, ResolveAll(org, specs, rule)[k-1], specs[k], k, rule)
      BY <1>2, ResolveAllAt
    <3>3. ResolveAll(org, specs, rule)[k-1] = acc.out
      BY <1>2, <2>1, <3>1 DEF Still, Tracks
    <3>4. specs[k] = Current
      BY <3>1 DEF Current
    <3>5. ~ Redundant(org, acc.out, Current)
      <4>1. ~ GradeMet(Current) /\ Current \in Specs
        BY <1>1, <2>1, GradeOutcome DEF Still, Picked
      <4> QED
        BY <2>1, <4>1, MaximaAreEnough DEF IInv, Still
    <3>6. /\ pick = ResolveApprover(org, Current, ApproversOf(acc.out)) /\ pick # NoDev
      <4>1. pick = ResolveApprover(org, Current, acc.used) /\ acc.used = ApproversOf(acc.out)
        BY <1>1, <2>1 DEF IInv, WellFormed, Still, Picked
      <4>2. pick \in Devs
        BY GradeOutcome
      <4> QED
        BY <4>1, <4>2, DevAssumption
    <3>7. ResolveStep(org, acc.out, Current, k, rule) = acc'.out
      <4>1. acc'.out = Append(acc.out, [no |-> Len(acc.out) + 1, approver |-> pick,
                                        rule |-> rule, index |-> k])
        BY <3>1, GradeOutcome
      <4> QED
        BY <3>5, <3>6, <4>1 DEF ResolveStep
    <3> HIDE DEF specs
    <3>8. ResolveAll(org, specs, rule)[ai + 1] = acc'.out
      BY <3>1, <3>2, <3>3, <3>4, <3>7
    <3> QED
      BY <1>1, <3>8 DEF Tracks, specs
  <2> QED
    BY <2>2, <2>3, <2>4, <2>5 DEF Still
<1> QED
  BY <1>4, <1>5, <1>6 DEF IInv

LEMMA InitIInv == Init => IInv
<1> SUFFICES ASSUME Init PROVE IInv
  OBVIOUS
<1>1. /\ rules \in RuleSets /\ rules \in Seq(Rules) /\ org \in Orgs /\ IsOrg(org)
      /\ reorgs = 0 /\ held = {RowOf(org, Requester)} /\ at = "match"
      /\ rule = 0 /\ ai = 0 /\ acc = Begun /\ walk = NoWalk /\ pick = NoDev
      /\ form \in Forms
  BY EngineAssumption DEF Init
<1>2. RowOf(org, Requester) \in Rows /\ RowOf(org, Requester).id = Requester
  BY <1>1, DevAssumption DEF RowOf, Rows, IsOrg
<1>3. Begun \in [out : Seq(ChainSteps), used : SUBSET Devs, rank : Nat, title : Nat]
  BY DEF Begun
<1>4. NoWalk \in [next : Devs \cup {NoDev}, chain : Seq(Rows)]
  BY DEF NoWalk
<1>5. TypeOK
  <2>1. rule \in 0 .. Len(rules) /\ reorgs \in 0 .. MaxReorgs /\ ai \in Nat
    BY <1>1, EngineAssumption
  <2> QED
    BY <1>1, <1>2, <1>3, <1>4, <2>1 DEF TypeOK
<1>6. WellFormed /\ Located
  BY <1>1 DEF WellFormed, Located, Begun, IsChain, ApproversOf
<1>7. Still
  <2>1. HeldFresh
    BY <1>1, <1>2 DEF HeldFresh
  <2>2. Grades
    BY <1>1 DEF Begun, Grades
  <2> QED
    BY <1>1, <2>1, <2>2 DEF Still, WalkTracks, Picked, Tracks
<1> QED
  BY <1>5, <1>6, <1>7 DEF IInv

LEMMA NextIInv == IInv /\ [Next]_vars => IInv'
<1> SUFFICES ASSUME IInv, [Next]_vars PROVE IInv'
  OBVIOUS
<1>1. CASE FindRule
  BY <1>1, FindRuleKeepsIInv
<1>2. CASE Test
  BY <1>2, TestKeepsIInv
<1>3. CASE Walk
  BY <1>3, WalkKeepsIInv
<1>4. CASE Choose
  BY <1>4, ChooseKeepsIInv
<1>5. CASE Grade
  BY <1>5, GradeKeepsIInv
<1>6. CASE Return
  <2>1. /\ at = "test" /\ ai = Len(rules[rule].approvers) /\ at' = "done"
        /\ UNCHANGED <<org, rules, form, reorgs, held, rule, ai, acc, walk, pick>>
    BY <1>6 DEF Return
  <2>2. rule # 0
    BY <2>1 DEF IInv, Located
  <2>3. TypeOK' /\ WellFormed' /\ Located'
    BY <2>1, <2>2 DEF IInv, TypeOK, WellFormed, Located
  <2>4. (reorgs = 0 => Still)'
    BY <2>1 DEF IInv, Still, HeldFresh, WalkTracks, Picked, Grades, Tracks
  <2> QED
    BY <2>3, <2>4 DEF IInv
<1>7. CASE Reorganise
  <2>1. /\ reorgs' # 0 /\ reorgs' \in 0 .. MaxReorgs /\ org' \in Orgs
        /\ UNCHANGED <<rules, form, held, at, rule, ai, acc, walk, pick>>
    BY <1>7, EngineAssumption DEF Reorganise, IInv, TypeOK
  <2> QED
    BY <2>1 DEF IInv, TypeOK, WellFormed, Located
<1>8. CASE UNCHANGED vars
  <2>1. TypeOK' /\ WellFormed' /\ Located'
    BY <1>8 DEF vars, IInv, TypeOK, WellFormed, Located
  <2>2. (reorgs = 0 => Still)'
    BY <1>8 DEF vars, IInv, Still, HeldFresh, WalkTracks, Picked, Grades, Tracks, GradeMet, Current
  <2> QED
    BY <2>1, <2>2 DEF IInv
<1> QED
  BY <1>1, <1>2, <1>3, <1>4, <1>5, <1>6, <1>7, <1>8 DEF Next, Evaluate

-----------------------------------------------------------------------------
(***************************************************************************)
(* Whatever happens to the organisation chart between two queries, the     *)
(* steps evaluate_rules has collected are numbered 1, 2, 3 ..., nobody     *)
(* appears twice and the requester never appears                           *)
(* (approval_engine.py:308-350).                                           *)
(***************************************************************************)
THEOREM ChainAlwaysWellFormed == Spec => [](TypeOK /\ ChainWellFormed /\ UsedIsChosen)
<1>1. IInv => TypeOK /\ ChainWellFormed /\ UsedIsChosen
  BY DEF IInv, WellFormed, ChainWellFormed, UsedIsChosen, ApproversOf
<1> QED
  BY InitIInv, NextIInv, <1>1, PTL DEF Spec

(***************************************************************************)
(* When the chart stands still, the loop with its walk from row to row,    *)
(* its running maxima, its set of used employees and its cached rows       *)
(* returns the chain that EvaluateRules describes without any of them      *)
(* (approval_engine.py:116-138, 308-351).                                  *)
(***************************************************************************)
THEOREM LoopReturnsEvaluateRules == Spec => []ReturnsEvaluateRules
<1>1. IInv => ReturnsEvaluateRules
  <2> SUFFICES ASSUME IInv, at = "done", reorgs = 0
               PROVE  acc.out = EvaluateRules(org, rules, form)
    BY DEF ReturnsEvaluateRules
  <2>1. CASE rule = 0
    BY <2>1 DEF IInv, Located, EvaluateRules, Begun
  <2>2. CASE rule # 0
    <3>1. /\ rule = FindMatchingRule(rules, form)
          /\ acc.out = ResolveAll(org, rules[rule].approvers, rule)[Len(rules[rule].approvers)]
      BY <2>2 DEF IInv, Located, Still, Tracks
    <3> QED
      BY <2>2, <3>1 DEF EvaluateRules
  <2> QED
    BY <2>1, <2>2
<1> QED
  BY InitIInv, NextIInv, <1>1, PTL DEF Spec

-----------------------------------------------------------------------------
GInv == /\ reorgs = 0 => \A i \in 1 .. Len(acc.out) : acc.out[i].index \in 1 .. ai
        /\ NothingLeftToSkip
        /\ DroppedForAReason

LEMMA OutFacts ==
  ASSUME IInv
  PROVE  /\ acc.out \in Seq(ChainSteps) /\ Len(acc.out) \in Nat
         /\ DOMAIN acc.out = 1 .. Len(acc.out)
         /\ \A i \in 1 .. Len(acc.out) : /\ acc.out[i].approver \in acc.used
                                         /\ acc.out[i].approver \in Devs
<1>1. acc.out \in Seq(ChainSteps) /\ acc.used \subseteq Devs
  BY DEF IInv, TypeOK
<1>2. \A i \in 1 .. Len(acc.out) : acc.out[i].approver \in acc.used
  BY <1>1 DEF IInv, WellFormed, ApproversOf
<1> QED
  BY <1>1, <1>2

\* A step of the loop that adds no step to the chain: it leaves the
\* specification out for a reason.
LEMMA LeavingOutKeepsGInv ==
  ASSUME IInv, GInv, reorgs = 0, rule # 0, ai < Len(rules[rule].approvers),
         ai' = ai + 1, UNCHANGED <<org, rules, reorgs, rule, acc>>,
         \/ GradeMet(Current)
         \/ ResolveApprover(org, Current, acc.used) = NoDev
  PROVE  GInv'
<1> DEFINE specs == rules[rule].approvers
           n == Len(acc.out)
<1>1. specs \in Seq(Specs) /\ ai \in Nat /\ Current \in Specs /\ Current = specs[ai + 1]
  BY RuleFacts DEF IInv, Current
<1>2. n \in Nat /\ acc.used = ApproversOf(acc.out) /\ DOMAIN acc.out = 1 .. n
  BY OutFacts DEF IInv, WellFormed
<1>3. \A i \in 1 .. n : acc'.out[i].index \in 1 .. ai'
  BY <1>1 DEF GInv
<1>4. NothingLeftToSkip'
  BY DEF GInv, NothingLeftToSkip
<1>5. \/ \E i \in 1 .. n : /\ Current.type \in {"rank_min_level", "title_min_level"}
                           /\ Meets(org, Current, acc.out[i].approver)
      \/ ResolveApprover(org, Current, acc.used) = NoDev
  <2>1. ASSUME GradeMet(Current)
        PROVE  \E i \in 1 .. n : /\ Current.type \in {"rank_min_level", "title_min_level"}
                                 /\ Meets(org, Current, acc.out[i].approver)
    <3>1. Redundant(org, acc.out, Current)
      BY <1>1, <2>1, MaximaAreEnough DEF IInv, Still
    <3> HIDE DEF n
    <3> QED
      BY <1>2, <3>1 DEF Redundant, ApproversOf
  <2> QED
    BY <2>1
<1>6. DroppedForAReason'
  <2> DEFINE Reason(k) ==
        \/ \E i \in 1 .. n : acc.out[i].index = k
        \/ \E i \in 1 .. n : /\ specs[k].type \in {"rank_min_level", "title_min_level"}
                             /\ Meets(org, specs[k], acc.out[i].approver)
        \/ ResolveApprover(org, specs[k], acc.used) = NoDev
  <2>1. \A k \in 1 .. ai : Reason(k)
    BY DEF GInv, DroppedForAReason
  <2>2. Reason(ai + 1)
    BY <1>1, <1>5
  <2>3. \A k \in 1 .. ai + 1 : k \in 1 .. ai \/ k = ai + 1
    BY <1>1
  <2>4. \A k \in 1 .. ai + 1 : Reason(k)
    <3> HIDE DEF Reason
    <3> QED  BY <2>1, <2>2, <2>3
  <2> QED
    BY <2>4 DEF DroppedForAReason
<1> QED
  BY <1>3, <1>4, <1>6 DEF GInv

\* The step that adds one.
LEMMA AddingKeepsGInv ==
  ASSUME IInv, GInv, Grade, reorgs = 0
  PROVE  GInv'
<1> DEFINE specs == rules[rule].approvers
           s == specs[ai + 1]
           n == Len(acc.out)
           e == [no |-> n + 1, approver |-> pick, rule |-> rule, index |-> ai + 1]
<1>1. /\ specs \in Seq(Specs) /\ ai \in Nat /\ rule \in Nat /\ s \in Specs /\ Current = s
      /\ pick \in Devs
  BY GradeOutcome, RuleFacts DEF IInv, Current
<1>2. /\ n \in Nat /\ acc.out \in Seq(ChainSteps)
      /\ acc.rank \in Nat /\ acc.title \in Nat
      /\ \A i \in 1 .. n : /\ org.rank[acc.out[i].approver] \in Nat
                           /\ org.title[acc.out[i].approver] \in Nat
                           /\ acc.out[i].approver \in acc.used
  <2>1. acc.rank \in Nat /\ acc.title \in Nat
    BY DEF IInv, TypeOK
  <2>2. org.rank \in [Devs -> Nat] /\ org.title \in [Devs -> Nat]
    BY ChartFacts DEF IInv
  <2> QED
    BY <2>1, <2>2, OutFacts
<1>3. /\ at = "grade" /\ ai' = ai + 1
      /\ UNCHANGED <<org, rules, reorgs, rule>>
  BY DEF Grade
<1>4. acc'.out = Append(acc.out, e) /\ acc'.used = acc.used \cup {pick}
  BY GradeOutcome
<1>5. e \in ChainSteps /\ e.approver = pick /\ e.index = ai + 1
  BY <1>1, <1>2 DEF ChainSteps
<1> HIDE DEF e
<1>6. /\ Len(acc'.out) = n + 1
      /\ \A i \in 1 .. n : acc'.out[i] = acc.out[i]
      /\ acc'.out[n + 1] = e
      /\ \A i \in 1 .. n + 1 : i \in 1 .. n \/ i = n + 1
      /\ n + 1 \in 1 .. n + 1
  BY <1>2, <1>4, <1>5
<1>7. \A i \in 1 .. n + 1 : acc'.out[i].index \in 1 .. ai + 1
  <2>1. \A i \in 1 .. n : acc.out[i].index \in 1 .. ai
    BY DEF GInv
  <2>2. ai + 1 \in 1 .. ai + 1 /\ \A x \in 1 .. ai : x \in 1 .. ai + 1
    BY <1>1
  <2> HIDE DEF n
  <2> QED
    BY <1>5, <1>6, <2>1, <2>2
<1>8. NothingLeftToSkip'
  <2> SUFFICES ASSUME NEW i \in 1 .. n + 1, NEW j \in 1 .. n + 1, i < j
               PROVE  LET t == specs[acc'.out[j].index]
                          x == acc'.out[i].approver
                      IN  /\ t.type = "rank_min_level"  => org.rank[x] < t.level
                          /\ t.type = "title_min_level" => org.title[x] < t.level
    BY <1>3, <1>6, ZenonT(30) DEF NothingLeftToSkip
  <2>1. i \in 1 .. n
    BY <1>2
  <2>2. CASE j \in 1 .. n
    BY <1>6, <2>1, <2>2 DEF GInv, NothingLeftToSkip
  <2>3. CASE j = n + 1
    <3>1. specs[acc'.out[j].index] = s /\ acc'.out[i] = acc.out[i]
      BY <1>5, <1>6, <2>1, <2>3
    <3>2. s.level \in Nat
      BY <1>1 DEF Specs
    <3>3. /\ org.rank[acc.out[i].approver] <= acc.rank
          /\ org.title[acc.out[i].approver] <= acc.title
      BY <1>2, <2>1 DEF IInv, Still, Grades
    <3>4. /\ s.type = "rank_min_level"  => acc.rank < s.level
          /\ s.type = "title_min_level" => acc.title < s.level
      <4>1. ~ GradeMet(s)
        BY <1>1, <1>3 DEF IInv, Still, Picked
      <4> HIDE DEF s
      <4> QED
        BY <1>2, <3>2, <4>1 DEF GradeMet
    <3> HIDE DEF s, specs
    <3> QED
      BY <1>2, <2>1, <3>1, <3>2, <3>3, <3>4
  <2> QED
    BY <1>6, <2>2, <2>3
<1>9. DroppedForAReason'
  <2> SUFFICES ASSUME NEW k \in 1 .. ai + 1
               PROVE  \/ \E i \in 1 .. n + 1 : acc'.out[i].index = k
                      \/ \E i \in 1 .. n + 1 :
                           /\ specs[k].type \in {"rank_min_level", "title_min_level"}
                           /\ Meets(org, specs[k], acc'.out[i].approver)
                      \/ ResolveApprover(org, specs[k], acc'.used) = NoDev
    BY <1>3, <1>6 DEF DroppedForAReason
  <2>1. CASE k = ai + 1
    BY <1>5, <1>6, <2>1
  <2>2. CASE k \in 1 .. ai
    <3>1. \/ \E i \in 1 .. n : acc.out[i].index = k
          \/ \E i \in 1 .. n : /\ specs[k].type \in {"rank_min_level", "title_min_level"}
                               /\ Meets(org, specs[k], acc.out[i].approver)
          \/ ResolveApprover(org, specs[k], acc.used) = NoDev
      BY <2>2 DEF GInv, DroppedForAReason
    <3>2. \A i \in 1 .. n : i \in 1 .. n + 1
      BY <1>2
    <3>3. ResolveApprover(org, specs[k], acc.used) = NoDev
            => ResolveApprover(org, specs[k], acc'.used) = NoDev
      <4>1. acc.used \subseteq acc'.used
        BY <1>4
      <4> HIDE DEF specs
      <4> QED  BY <4>1, ResolverMonotone
    <3> HIDE DEF specs, n
    <3> QED
      BY <1>6, <3>1, <3>2, <3>3
  <2> QED
    BY <1>1, <2>1, <2>2
<1> QED
  BY <1>3, <1>6, <1>7, <1>8, <1>9 DEF GInv

LEMMA NextGInv == IInv /\ GInv /\ [Next]_vars => GInv'
<1> SUFFICES ASSUME IInv, GInv, [Next]_vars PROVE GInv'
  OBVIOUS
<1>0. reorgs \in Nat
  BY EngineAssumption DEF IInv, TypeOK
<1>1. ASSUME reorgs' # 0
      PROVE  GInv'
  BY <1>1 DEF GInv, NothingLeftToSkip, DroppedForAReason
<1>2. ASSUME UNCHANGED <<org, rules, rule, ai, acc, reorgs>>
      PROVE  GInv'
  BY <1>2 DEF GInv, NothingLeftToSkip, DroppedForAReason
<1>3. CASE FindRule
  <2>1. acc' = Begun /\ ai' = 0
    BY <1>3 DEF FindRule, IInv, Located
  <2> QED
    BY <2>1 DEF GInv, NothingLeftToSkip, DroppedForAReason, Begun
<1>4. CASE Test
  <2>1. /\ UNCHANGED <<org, rules, reorgs, rule, acc>> /\ rule # 0
        /\ ai < Len(rules[rule].approvers)
        /\ \/ GradeMet(Current) /\ ai' = ai + 1
           \/ ai' = ai
    BY <1>4 DEF Test, IInv, Located
  <2> QED
    BY <1>1, <1>2, <2>1, LeavingOutKeepsGInv
<1>5. CASE Walk
  BY <1>2, <1>5 DEF Walk
<1>6. CASE Choose
  <2>1. /\ UNCHANGED <<org, rules, reorgs, rule, acc>> /\ rule # 0
        /\ ai < Len(rules[rule].approvers)
    BY <1>6 DEF Choose, IInv, Located
  <2>2. \/ ai' = ai + 1 /\ (reorgs = 0 => ResolveApprover(org, Current, acc.used) = NoDev)
        \/ ai' = ai
    BY <1>6, ChooseOutcome
  <2> QED
    BY <1>1, <1>2, <2>1, <2>2, LeavingOutKeepsGInv
<1>7. CASE Grade
  <2>1. reorgs' = reorgs
    BY <1>7 DEF Grade
  <2> QED
    BY <1>1, <1>7, <2>1, AddingKeepsGInv
<1>8. CASE Return
  BY <1>2, <1>8 DEF Return
<1>9. CASE Reorganise
  <2>1. reorgs' # 0
    BY <1>0, <1>9 DEF Reorganise
  <2> QED
    BY <1>1, <2>1
<1>10. CASE UNCHANGED vars
  BY <1>2, <1>10 DEF vars
<1> QED
  BY <1>3, <1>4, <1>5, <1>6, <1>7, <1>8, <1>9, <1>10 DEF Next, Evaluate

LEMMA InitGInv == Init => GInv
  BY DEF Init, Begun, GInv, NothingLeftToSkip, DroppedForAReason

(***************************************************************************)
(* The grade policy applied in advance: of a chain computed from one state *)
(* of the chart, no approver meets the grade requirement of a later step   *)
(* (approval_engine.py:289, 311-325).                                      *)
(***************************************************************************)
THEOREM NothingIsLeftToSkip == Spec => []NothingLeftToSkip
<1>1. GInv => NothingLeftToSkip
  BY DEF GInv
<1> QED
  BY InitIInv, NextIInv, InitGInv, NextGInv, <1>1, PTL DEF Spec

(***************************************************************************)
(* A specification is left out of the chain only when an approver chosen   *)
(* before has the grade, or when nobody is left who could fill it          *)
(* (approval_engine.py:280-289).                                           *)
(***************************************************************************)
THEOREM DroppedOnlyForAReason == Spec => []DroppedForAReason
<1>1. GInv => DroppedForAReason
  BY DEF GInv
<1> QED
  BY InitIInv, NextIInv, InitGInv, NextGInv, <1>1, PTL DEF Spec
=============================================================================
