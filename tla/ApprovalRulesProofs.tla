------------------------ MODULE ApprovalRulesProofs ------------------------
(***************************************************************************)
(* What the operators of the approval-line engine guarantee, for every set *)
(* of employees, every chart and every rule list.  An induction over the   *)
(* iterations of a loop is made with a least counterexample.               *)
(***************************************************************************)
EXTENDS ApprovalRules, TLAPS, WellFoundedInduction

\* "The first one" exists, among rules, managers of a chain or iterations.
LEMMA LeastElement ==
  ASSUME NEW T \in SUBSET Nat, T # {}
  PROVE  \E x \in T : \A y \in T : x <= y
<1>1. \E x \in T : \A y \in T : ~ (<<y, x>> \in OpToRel(<, Nat))
  <2> HIDE DEF OpToRel
  <2> QED  BY NatLessThanWellFounded, WFMin, Zenon
<1>2. PICK x \in T : \A y \in T : ~ (<<y, x>> \in OpToRel(<, Nat))
  BY <1>1
<1>3. ASSUME NEW y \in T
      PROVE  x <= y
  <2>1. x \in Nat /\ y \in Nat
    BY <1>2
  <2>2. ~ (y < x)
    BY <1>2, <2>1 DEF OpToRel
  <2> QED
    BY <2>1, <2>2
<1> QED
  BY <1>2, <1>3

LEMMA FirstMatch ==
  ASSUME NEW rs \in Seq(Rules), NEW f
  PROVE  FindMatchingRule(rs, f) \in 0 .. Len(rs)
<1> DEFINE hits == {i \in DOMAIN rs : f \in rs[i].when}
<1>1. hits \subseteq 1 .. Len(rs) /\ hits \in SUBSET Nat
  OBVIOUS
<1>2. CASE hits = {}
  <2>1. FindMatchingRule(rs, f) = 0
    BY <1>2 DEF FindMatchingRule
  <2> QED  BY <2>1
<1>3. CASE hits # {}
  <2>1. FindMatchingRule(rs, f) = CHOOSE i \in hits : \A j \in hits : i <= j
    BY <1>3 DEF FindMatchingRule
  <2>2. \E i \in hits : \A j \in hits : i <= j
    <3> HIDE DEF hits
    <3> QED  BY <1>1, <1>3, LeastElement
  <2>3. FindMatchingRule(rs, f) \in hits
    <3> HIDE DEF hits
    <3> QED  BY <2>1, <2>2
  <2> QED  BY <1>1, <2>3
<1> QED
  BY <1>2, <1>3

\* resolve_approver never chooses the requester nor an excluded employee.
LEMMA ResolverChoice ==
  ASSUME NEW o, NEW s, NEW used
  PROVE  ResolveApprover(o, s, used) \in
           ((IF s.type = "specific_user" THEN o.active ELSE Devs) \ (used \cup {Requester}))
             \cup {NoDev}
<1> DEFINE chain   == ManagerChain(o, Requester)
           exclude == used \cup {Requester}
           fits    == {k \in 1 .. MaxDepth : /\ chain[k] \in Devs \ exclude
                                             /\ Meets(o, s, chain[k])}
<1>1. fits \in SUBSET Nat
  OBVIOUS
<1>2. \A k \in fits : chain[k] \in Devs \ exclude
  OBVIOUS
<1>3. ResolveApprover(o, s, used) =
        IF s.type = "specific_user"
        THEN IF s.user \in o.active \ exclude THEN s.user ELSE NoDev
        ELSE IF fits = {} THEN NoDev
        ELSE chain[CHOOSE k \in fits : \A j \in fits : k <= j]
  BY DEF ResolveApprover
<1>4. fits # {} => (CHOOSE k \in fits : \A j \in fits : k <= j) \in fits
  <2> HIDE DEF fits
  <2> QED  BY <1>1, LeastElement
<1> HIDE DEF fits, chain
<1> QED
  BY <1>2, <1>3, <1>4

\* Who cannot be replaced now cannot be replaced later either.
LEMMA ResolverMonotone ==
  ASSUME NEW o, NEW s, NEW used, NEW more, used \subseteq more,
         ResolveApprover(o, s, used) = NoDev
  PROVE  ResolveApprover(o, s, more) = NoDev
<1> DEFINE chain    == ManagerChain(o, Requester)
           fits(u)  == {k \in 1 .. MaxDepth : /\ chain[k] \in Devs \ (u \cup {Requester})
                                              /\ Meets(o, s, chain[k])}
           first(u) == CHOOSE k \in fits(u) : \A j \in fits(u) : k <= j
<1>1. ASSUME NEW u
      PROVE  ResolveApprover(o, s, u) =
               IF s.type = "specific_user"
               THEN IF s.user \in o.active \ (u \cup {Requester}) THEN s.user ELSE NoDev
               ELSE IF fits(u) = {} THEN NoDev ELSE chain[first(u)]
  BY DEF ResolveApprover
<1>2. CASE s.type = "specific_user"
  BY <1>1, <1>2
<1>3. CASE s.type # "specific_user"
  <2>1. fits(used) \in SUBSET Nat /\ \A k \in fits(used) : chain[k] \in Devs
    OBVIOUS
  <2>2. fits(more) \subseteq fits(used)
    OBVIOUS
  <2>3. fits(used) = {}
    <3> SUFFICES ASSUME fits(used) # {} PROVE FALSE
      OBVIOUS
    <3>1. first(used) \in fits(used)
      <4> HIDE DEF fits
      <4> QED  BY <2>1, LeastElement
    <3>2. chain[first(used)] = NoDev
      <4> HIDE DEF fits, first, chain
      <4> QED  BY <1>1, <1>3
    <3> HIDE DEF fits, first, chain
    <3> QED
      BY <2>1, <3>1, <3>2, DevAssumption
  <2>4. fits(more) = {}
    <3> HIDE DEF fits
    <3> QED  BY <2>2, <2>3
  <2> HIDE DEF fits, chain
  <2> QED
    BY <1>1, <1>3, <2>4
<1> QED
  BY <1>2, <1>3

-----------------------------------------------------------------------------
\* The next one up, after the employees a[0], ..., a[k-1].
Above(o, a, k) ==
  IF a[k-1] = NoDev THEN NoDev
  ELSE IF o.mgr[a[k-1]] \in {a[j] : j \in 0 .. k-1} THEN NoDev
  ELSE o.mgr[a[k-1]]

\* The recursive definition of ManagerChain has a solution, so the function is
\* the one its defining equation describes.
LEMMA ManagerChainEquation ==
  ASSUME NEW o, NEW dev
  PROVE  ManagerChain(o, dev) =
           [k \in 0 .. MaxDepth |-> IF k = 0 THEN dev ELSE Above(o, ManagerChain(o, dev), k)]
<1> DEFINE Solves(f, m) == f = [k \in 0 .. m |-> IF k = 0 THEN dev ELSE Above(o, f, k)]
           bad == {m \in 0 .. MaxDepth : ~ \E f : Solves(f, m)}
<1>0. MaxDepth \in Nat
  BY DevAssumption
<1>1. bad = {}
  <2>1. SUFFICES ASSUME bad # {} PROVE FALSE
    OBVIOUS
  <2>2. PICK m \in bad : \A y \in bad : m <= y
    <3>1. bad \in SUBSET Nat
      BY <1>0
    <3> HIDE DEF bad
    <3> QED  BY <2>1, <3>1, LeastElement
  <2>3. m \in 0 .. MaxDepth /\ ~ \E f : Solves(f, m)
    BY <2>2
  <2>4. m # 0
    <3> SUFFICES ASSUME m = 0 PROVE FALSE
      OBVIOUS
    <3>1. Solves([k \in 0 .. m |-> dev], m)
      OBVIOUS
    <3> QED  BY <2>3, <3>1
  <2>5. PICK f : Solves(f, m - 1)
    <3>1. m - 1 \in 0 .. MaxDepth /\ ~ (m <= m - 1)
      BY <1>0, <2>3, <2>4
    <3> HIDE DEF Solves
    <3> QED  BY <2>2, <3>1
  <2> DEFINE g == [k \in 0 .. m |-> IF k = m THEN Above(o, f, m) ELSE f[k]]
  <2>6. ASSUME NEW k \in 0 .. m, k # 0
        PROVE  Above(o, g, k) = Above(o, f, k)
    <3>1. \A j \in 0 .. k - 1 : j \in 0 .. m /\ j # m /\ g[j] = f[j]
      BY <1>0, <2>3, <2>6
    <3>2. k - 1 \in 0 .. k - 1
      BY <1>0, <2>3, <2>6
    <3> HIDE DEF g
    <3>3. {g[j] : j \in 0 .. k - 1} = {f[j] : j \in 0 .. k - 1} /\ g[k-1] = f[k-1]
      BY <3>1, <3>2
    <3> QED
      BY <3>3 DEF Above
  <2>7. Solves(g, m)
    <3>1. ASSUME NEW k \in 0 .. m
          PROVE  g[k] = IF k = 0 THEN dev ELSE Above(o, g, k)
      <4>1. CASE k = 0
        BY <1>0, <2>3, <2>4, <2>5, <4>1
      <4>2. CASE k # 0 /\ k # m
        <5>1. k \in 0 .. m - 1
          BY <1>0, <2>3, <4>2
        <5>2. f[k] = Above(o, f, k)
          BY <2>5, <4>2, <5>1
        <5>3. g[k] = f[k]
          BY <4>2
        <5> HIDE DEF g
        <5> QED  BY <2>6, <4>2, <5>2, <5>3
      <4>3. CASE k # 0 /\ k = m
        <5>1. g[k] = Above(o, f, k)
          BY <4>3
        <5> HIDE DEF g
        <5> QED  BY <2>6, <4>3, <5>1
      <4> QED
        BY <4>1, <4>2, <4>3
    <3> QED
      BY <3>1
  <2> QED
    BY <2>3, <2>7
<1>2. \E f : Solves(f, MaxDepth)
  BY <1>0, <1>1
<1>3. ManagerChain(o, dev) = CHOOSE f : Solves(f, MaxDepth)
  BY DEF ManagerChain, Above
<1>4. Solves(ManagerChain(o, dev), MaxDepth)
  <2> HIDE DEF Solves
  <2> QED  BY <1>2, <1>3
<1> QED
  BY <1>4

LEMMA ManagerChainAt ==
  ASSUME NEW o, NEW dev
  PROVE  /\ ManagerChain(o, dev)[0] = dev
         /\ \A k \in 1 .. MaxDepth : ManagerChain(o, dev)[k] = Above(o, ManagerChain(o, dev), k)
<1> DEFINE a == ManagerChain(o, dev)
           next(k) == Above(o, a, k)
<1>1. MaxDepth \in Nat
  BY DevAssumption
<1>2. a = [k \in 0 .. MaxDepth |-> IF k = 0 THEN dev ELSE next(k)]
  BY ManagerChainEquation
<1> HIDE DEF a, next
<1>3. a[0] = dev /\ \A k \in 1 .. MaxDepth : a[k] = next(k)
  BY <1>1, <1>2
<1> QED
  BY <1>3 DEF a, next

\* Once the walk has stopped, nobody is above.
LEMMA NobodyAbove ==
  ASSUME NEW o, NEW dev, NEW m \in 1 .. MaxDepth, ManagerChain(o, dev)[m] = NoDev
  PROVE  \A k \in m .. MaxDepth : ManagerChain(o, dev)[k] = NoDev
<1> DEFINE a   == ManagerChain(o, dev)
           bad == {k \in m .. MaxDepth : a[k] # NoDev}
<1>0. MaxDepth \in Nat
  BY DevAssumption
<1>1. bad = {}
  <2>1. SUFFICES ASSUME bad # {} PROVE FALSE
    OBVIOUS
  <2>2. PICK k \in bad : \A y \in bad : k <= y
    <3>1. bad \in SUBSET Nat
      BY <1>0
    <3> HIDE DEF bad
    <3> QED  BY <2>1, <3>1, LeastElement
  <2>3. k \in m .. MaxDepth /\ a[k] # NoDev /\ k # m
    BY <2>2
  <2>4. k - 1 \in m .. MaxDepth /\ ~ (k <= k - 1) /\ k \in 1 .. MaxDepth
    BY <1>0, <2>3
  <2>5. a[k-1] = NoDev
    <3> HIDE DEF a
    <3> QED  BY <2>2, <2>4
  <2>6. a[k] = Above(o, a, k)
    BY <2>4, ManagerChainAt
  <2> HIDE DEF a
  <2> QED
    BY <2>3, <2>5, <2>6 DEF Above
<1> QED
  BY <1>1

-----------------------------------------------------------------------------
\* Appending a step for somebody new keeps a chain well formed.
LEMMA LongerChain ==
  ASSUME NEW out, NEW e \in ChainSteps, NEW b, NEW d,
         IsChain(out), d \notin ApproversOf(out), d # Requester,
         e.no = Len(out) + 1, e.approver = d, b = Append(out, e)
  PROVE  /\ IsChain(b)
         /\ ApproversOf(b) = ApproversOf(out) \cup {d}
<1> DEFINE n == Len(out)
<1>1. out \in Seq(ChainSteps) /\ n \in Nat /\ DOMAIN out = 1 .. n
  <2>1. out \in Seq(ChainSteps)
    BY DEF IsChain
  <2> QED  BY <2>1
<1>2. e \in ChainSteps /\ e.no = n + 1 /\ e.approver = d
  OBVIOUS
<1>3. b = Append(out, e)
  OBVIOUS
<1>4. /\ b \in Seq(ChainSteps)
      /\ DOMAIN b = 1 .. n + 1 /\ Len(b) = n + 1
      /\ \A i \in 1 .. n : b[i] = out[i]
      /\ b[n + 1] = e
  BY <1>1, <1>2, <1>3
<1>5. 1 .. n + 1 = (1 .. n) \cup {n + 1}
  BY <1>1
<1>6. /\ \A i \in 1 .. n : out[i].no = i /\ out[i].approver # Requester
      /\ \A i, j \in 1 .. n : out[i].approver = out[j].approver => i = j
      /\ \A i \in 1 .. n : out[i].approver # d
  BY <1>1 DEF IsChain, ApproversOf
<1> HIDE DEF n
<1>7. ApproversOf(b) = ApproversOf(out) \cup {d}
  BY <1>1, <1>2, <1>4, <1>5 DEF ApproversOf
<1>8. \A i \in 1 .. n + 1 : b[i].no = i /\ b[i].approver # Requester
  BY <1>2, <1>4, <1>5, <1>6
<1>9. \A i, j \in 1 .. n + 1 : b[i].approver = b[j].approver => i = j
  BY <1>2, <1>4, <1>5, <1>6
<1> QED
  BY <1>4, <1>7, <1>8, <1>9 DEF IsChain

\* One specification keeps a chain well formed.
LEMMA ResolveStepIsChain ==
  ASSUME NEW o, IsOrg(o), NEW out, IsChain(out), NEW s, NEW k \in Nat, NEW ri \in Nat
  PROVE  IsChain(ResolveStep(o, out, s, k, ri))
<1> DEFINE d == ResolveApprover(o, s, ApproversOf(out))
<1>1. CASE Redundant(o, out, s) \/ d = NoDev
  BY <1>1 DEF ResolveStep
<1>2. CASE ~ (Redundant(o, out, s) \/ d = NoDev)
  <2>1. d \in Devs \ (ApproversOf(out) \cup {Requester})
    <3>1. d \in ((IF s.type = "specific_user" THEN o.active ELSE Devs)
                   \ (ApproversOf(out) \cup {Requester})) \cup {NoDev}
      BY ResolverChoice
    <3> QED  BY <1>2, <3>1 DEF IsOrg
  <2>2. ResolveStep(o, out, s, k, ri)
          = Append(out, [no |-> Len(out) + 1, approver |-> d, rule |-> ri, index |-> k])
    BY <1>2 DEF ResolveStep
  <2> DEFINE e == [no |-> Len(out) + 1, approver |-> d, rule |-> ri, index |-> k]
  <2>3. Len(out) \in Nat
    BY DEF IsChain
  <2> HIDE DEF d
  <2>4. e \in ChainSteps /\ e.no = Len(out) + 1 /\ e.approver = d
    BY <2>1, <2>3 DEF ChainSteps
  <2> HIDE DEF e
  <2> QED
    BY <2>1, <2>2, <2>4, LongerChain DEF e
<1> QED
  BY <1>1, <1>2

-----------------------------------------------------------------------------
\* The recursive definition of ResolveAll has a solution, so the function is
\* the one its defining equation describes.
LEMMA ResolveAllEquation ==
  ASSUME NEW o, NEW specs \in Seq(Specs), NEW ri
  PROVE  ResolveAll(o, specs, ri) =
           [k \in 0 .. Len(specs) |->
              IF k = 0 THEN << >>
              ELSE ResolveStep(o, ResolveAll(o, specs, ri)[k-1], specs[k], k, ri)]
<1> DEFINE n == Len(specs)
           Solves(f, m) ==
             f = [k \in 0 .. m |-> IF k = 0 THEN << >>
                                   ELSE ResolveStep(o, f[k-1], specs[k], k, ri)]
           bad == {m \in 0 .. n : ~ \E f : Solves(f, m)}
<1>0. n \in Nat
  OBVIOUS
<1>1. bad = {}
  <2>1. SUFFICES ASSUME bad # {} PROVE FALSE
    OBVIOUS
  <2>2. PICK m \in bad : \A y \in bad : m <= y
    <3>1. bad \in SUBSET Nat
      BY <1>0
    <3> HIDE DEF bad
    <3> QED  BY <2>1, <3>1, LeastElement
  <2>3. m \in 0 .. n /\ ~ \E f : Solves(f, m)
    BY <2>2
  <2>4. m # 0
    <3> SUFFICES ASSUME m = 0 PROVE FALSE
      OBVIOUS
    <3>1. Solves([k \in 0 .. m |-> << >>], m)
      OBVIOUS
    <3> QED  BY <2>3, <3>1
  <2>5. PICK f : Solves(f, m - 1)
    <3>1. m - 1 \in 0 .. n /\ ~ (m <= m - 1)
      BY <1>0, <2>3, <2>4
    <3> HIDE DEF Solves
    <3> QED  BY <2>2, <3>1
  <2> DEFINE g == [k \in 0 .. m |-> IF k = m THEN ResolveStep(o, f[m-1], specs[m], m, ri)
                                    ELSE f[k]]
  <2>6. Solves(g, m)
    <3>1. ASSUME NEW k \in 0 .. m
          PROVE  g[k] = IF k = 0 THEN << >>
                        ELSE ResolveStep(o, g[k-1], specs[k], k, ri)
      <4>1. CASE k = 0
        BY <1>0, <2>3, <2>4, <2>5, <4>1
      <4>2. CASE k # 0 /\ k # m
        <5>1. k \in 0 .. m - 1 /\ k - 1 \in 0 .. m /\ k - 1 # m
          BY <1>0, <2>3, <4>2
        <5>2. f[k] = ResolveStep(o, f[k-1], specs[k], k, ri)
          BY <2>5, <4>2, <5>1
        <5> QED  BY <4>2, <5>1, <5>2
      <4>3. CASE k # 0 /\ k = m
        <5>1. k - 1 \in 0 .. m /\ k - 1 # m
          BY <1>0, <2>3, <4>3
        <5> QED  BY <4>3, <5>1
      <4> QED
        BY <4>1, <4>2, <4>3
    <3> QED
      BY <3>1
  <2> QED
    BY <2>3, <2>6
<1>2. \E f : Solves(f, n)
  BY <1>0, <1>1
<1>3. ResolveAll(o, specs, ri) = CHOOSE f : Solves(f, n)
  BY DEF ResolveAll
<1>4. Solves(ResolveAll(o, specs, ri), n)
  <2> HIDE DEF Solves
  <2> QED  BY <1>2, <1>3
<1> QED
  BY <1>4

LEMMA ResolveAllAt ==
  ASSUME NEW o, NEW specs \in Seq(Specs), NEW ri
  PROVE  /\ ResolveAll(o, specs, ri)[0] = << >>
         /\ \A k \in 1 .. Len(specs) :
              ResolveAll(o, specs, ri)[k] =
                ResolveStep(o, ResolveAll(o, specs, ri)[k-1], specs[k], k, ri)
<1>1. Len(specs) \in Nat
  OBVIOUS
<1>2. \A k \in 0 .. Len(specs) :
        ResolveAll(o, specs, ri)[k] =
          IF k = 0 THEN << >>
          ELSE ResolveStep(o, ResolveAll(o, specs, ri)[k-1], specs[k], k, ri)
  BY ResolveAllEquation
<1> QED
  BY <1>1, <1>2

\* The chain is well formed after every specification.
LEMMA ResolveAllIsChain ==
  ASSUME NEW o, IsOrg(o), NEW specs \in Seq(Specs), NEW ri \in Nat
  PROVE  \A k \in 0 .. Len(specs) : IsChain(ResolveAll(o, specs, ri)[k])
<1> DEFINE n == Len(specs)
           out == ResolveAll(o, specs, ri)
           bad == {m \in 0 .. n : ~ IsChain(out[m])}
<1>0. n \in Nat
  OBVIOUS
<1>1. bad = {}
  <2>1. SUFFICES ASSUME bad # {} PROVE FALSE
    OBVIOUS
  <2>2. PICK m \in bad : \A y \in bad : m <= y
    <3>1. bad \in SUBSET Nat
      BY <1>0
    <3> HIDE DEF bad
    <3> QED  BY <2>1, <3>1, LeastElement
  <2>3. m \in 0 .. n /\ ~ IsChain(out[m])
    BY <2>2
  <2>4. out[m] = IF m = 0 THEN << >> ELSE ResolveStep(o, out[m-1], specs[m], m, ri)
    BY <2>3, ResolveAllAt
  <2>5. m # 0
    BY <2>3, <2>4 DEF IsChain
  <2>6. m - 1 \in 0 .. n /\ ~ (m <= m - 1)
    BY <1>0, <2>3, <2>5
  <2>7. IsChain(out[m-1])
    BY <2>2, <2>6
  <2>8. m \in Nat
    BY <2>3
  <2> HIDE DEF out
  <2> QED
    BY <2>3, <2>4, <2>5, <2>7, <2>8, ResolveStepIsChain
<1> QED
  BY <1>1

(***************************************************************************)
(* evaluate_rules never returns a chain with a gap in the numbers, without *)
(* an approver in a step, with an approver twice or with the requester,    *)
(* for every chart, rule list and form (approval_engine.py:274-353).       *)
(***************************************************************************)
THEOREM EvaluatedIsChain ==
  ASSUME NEW o, IsOrg(o), NEW rs \in Seq(Rules), NEW f
  PROVE  IsChain(EvaluateRules(o, rs, f))
<1> DEFINE ri == FindMatchingRule(rs, f)
           specs == rs[ri].approvers
<1>1. EvaluateRules(o, rs, f) =
        IF ri = 0 THEN << >> ELSE ResolveAll(o, specs, ri)[Len(specs)]
  BY DEF EvaluateRules
<1>2. CASE ri = 0
  BY <1>1, <1>2 DEF IsChain
<1>3. CASE ri # 0
  <2>1. ri \in 1 .. Len(rs) /\ ri \in Nat
    BY <1>3, FirstMatch
  <2>2. specs \in Seq(Specs)
    <3>1. rs[ri] \in Rules
      BY <2>1
    <3> QED  BY <3>1 DEF Rules
  <2> HIDE DEF ri, specs
  <2>3. Len(specs) \in 0 .. Len(specs)
    BY <2>2
  <2>4. IsChain(ResolveAll(o, specs, ri)[Len(specs)])
    BY <2>1, <2>2, <2>3, ResolveAllIsChain
  <2> QED
    BY <1>1, <1>3, <2>4
<1> QED
  BY <1>2, <1>3
=============================================================================
