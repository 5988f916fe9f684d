----------------------------- MODULE LeaveProofs -----------------------------
(***************************************************************************)
(* Theorems about the leave books: what holds of them for every set of     *)
(* years and requests, every number of rewards, and every way the handlers *)
(* of leaves.py follow one another. The module builds up to the invariant  *)
(* LInv in four parts: sums over a finite set; the plan of                 *)
(* build_allocation_plan; what the postings of one request do to the sums  *)
(* of all; and the administrators' operations. The fifth part is about the *)
(* handlers in sessions of their own: what a session that has read an      *)
(* older state of the books makes of them when it commits.                 *)
(***************************************************************************)
EXTENDS LeaveSessions, FiniteSetTheorems, WellFoundedInduction, TLAPS

(***************************************************************************)
(* Sums.  The library adds up a function over a set by a recursive         *)
(* function on its subsets; the laws below are proved by taking a smallest *)
(* subset for which they would fail.                                       *)
(***************************************************************************)
\* A set of natural numbers that is not empty has a least element.
LEMMA LeastNatural ==
  ASSUME NEW T \in SUBSET Nat, T # {}
  PROVE  \E x \in T : \A y \in T : x <= y
<1>1. PICK x \in T : \A y \in T : ~ (<<y, x>> \in OpToRel(<, Nat))
  <2> HIDE DEF OpToRel
  <2> QED  BY NatLessThanWellFounded, WFMin, Zenon
<1>2. ASSUME NEW y \in T
      PROVE  x <= y
  <2>1. x \in Nat /\ y \in Nat
    BY <1>1
  <2>2. ~ (y < x)
    BY <1>1, <2>1 DEF OpToRel
  <2> QED
    BY <2>1, <2>2
<1> QED
  BY <1>2

\* Induction over the subsets of a finite set: among those that are bad there is
\* one that is not once an element is taken out of it.
LEMMA SmallestBad ==
  ASSUME NEW U, IsFiniteSet(U), NEW bad \in SUBSET SUBSET U, bad # {}
  PROVE  \E s \in bad : \A x \in s : s \ {x} \notin bad
<1> DEFINE sizes == {Cardinality(s) : s \in bad}
<1>1. \A s \in SUBSET U : /\ IsFiniteSet(s) /\ Cardinality(s) \in Nat
                          /\ \A x \in s : Cardinality(s \ {x}) = Cardinality(s) - 1
  BY FS_Subset, FS_CardinalityType, FS_RemoveElement
<1>2. sizes \in SUBSET Nat /\ sizes # {}
  BY <1>1
<1>3. PICK m \in sizes : \A y \in sizes : m <= y
  <2> HIDE DEF sizes
  <2> QED  BY <1>2, LeastNatural
<1>4. PICK s \in bad : Cardinality(s) = m
  BY <1>3
<1>5. ASSUME NEW x \in s, s \ {x} \in bad
      PROVE  FALSE
  <2>1. Cardinality(s \ {x}) \in sizes
    BY <1>5
  <2>2. m <= Cardinality(s \ {x})
    <3> HIDE DEF sizes
    <3> QED  BY <1>3, <2>1
  <2>3. Cardinality(s \ {x}) = m - 1 /\ m \in Nat
    BY <1>1, <1>4
  <2> QED
    BY <2>2, <2>3
<1> QED
  BY <1>5

\* The recursive function by which the library adds up f over the subsets of U.
Adds(it, f, U) ==
  it = [s \in SUBSET U |->
          IF s = {} THEN 0
          ELSE f[CHOOSE x \in s : TRUE] + it[s \ {CHOOSE x \in s : TRUE}]]

\* The library's sum is the value of that function at the whole set.
LEMMA SumIsChosen ==
  ASSUME NEW f, NEW U
  PROVE  SumFunctionOnSet(f, U) = (CHOOSE it : Adds(it, f, U))[U]
BY DEF SumFunctionOnSet, FoldFunctionOnSet, MapThenFoldSet, Adds

\* Such a function exists.
LEMMA AddsExists ==
  ASSUME NEW f, NEW U, IsFiniteSet(U)
  PROVE  \E it : Adds(it, f, U)
<1> DEFINE D(n) == {s \in SUBSET U : Cardinality(s) <= n}
           c(s) == CHOOSE x \in s : TRUE
           Upto(it, n) == it = [s \in D(n) |-> IF s = {} THEN 0 ELSE f[c(s)] + it[s \ {c(s)}]]
           bad == {n \in Nat : ~ \E it : Upto(it, n)}
<1>1. \A s \in SUBSET U : /\ IsFiniteSet(s) /\ Cardinality(s) \in Nat
                          /\ Cardinality(s) = 0 <=> s = {}
                          /\ \A x \in s : Cardinality(s \ {x}) = Cardinality(s) - 1
  BY FS_Subset, FS_CardinalityType, FS_RemoveElement, FS_EmptySet
<1>2. \A s \in SUBSET U : s # {} => c(s) \in s
  OBVIOUS
<1> HIDE DEF c
<1>3. bad = {}
  <2>1. SUFFICES ASSUME bad # {} PROVE FALSE
    OBVIOUS
  <2>2. PICK n \in bad : \A y \in bad : n <= y
    <3>1. bad \in SUBSET Nat
      OBVIOUS
    <3> HIDE DEF bad
    <3> QED  BY <2>1, <3>1, LeastNatural
  <2>3. n \in Nat /\ ~ \E it : Upto(it, n)
    BY <2>2
  <2>4. n # 0
    <3> SUFFICES ASSUME n = 0 PROVE FALSE
      OBVIOUS
    <3>1. \A s \in D(n) : s = {}
      BY <1>1
    <3>2. Upto([s \in D(n) |-> 0], n)
      BY <3>1
    <3> QED  BY <2>3, <3>2
  <2>5. PICK it : Upto(it, n - 1)
    <3>1. n - 1 \in Nat /\ ~ (n <= n - 1)
      BY <2>3, <2>4
    <3> HIDE DEF Upto
    <3> QED  BY <2>2, <3>1
  <2> DEFINE g == [s \in D(n) |-> IF s = {} THEN 0 ELSE f[c(s)] + it[s \ {c(s)}]]
  <2>6. Upto(g, n)
    <3>1. ASSUME NEW s \in D(n), s # {}
          PROVE  g[s \ {c(s)}] = it[s \ {c(s)}]
      <4> DEFINE t == s \ {c(s)}
      <4>1. /\ s \in SUBSET U /\ c(s) \in s /\ t \in SUBSET U
            /\ Cardinality(s) <= n
        BY <1>2, <3>1
      <4>2. Cardinality(t) = Cardinality(s) - 1 /\ Cardinality(s) \in Nat
        BY <1>1, <4>1
      <4>3. t \in D(n) /\ t \in D(n - 1)
        BY <2>3, <4>1, <4>2
      <4> HIDE DEF t, D
      <4>4. g[t] = IF t = {} THEN 0 ELSE f[c(t)] + it[t \ {c(t)}]
        BY <4>3
      <4>5. it[t] = IF t = {} THEN 0 ELSE f[c(t)] + it[t \ {c(t)}]
        BY <2>5, <4>3
      <4> HIDE DEF g
      <4> QED  BY <4>4, <4>5 DEF t
    <3>2. \A s \in D(n) : g[s] = IF s = {} THEN 0 ELSE f[c(s)] + g[s \ {c(s)}]
      BY <3>1
    <3> HIDE DEF D
    <3> QED  BY <3>2
  <2> QED
    BY <2>3, <2>6
<1>4. PICK it : Upto(it, Cardinality(U))
  <2>1. Cardinality(U) \in Nat
    BY <1>1
  <2> HIDE DEF Upto
  <2> QED  BY <1>3, <2>1
<1>5. D(Cardinality(U)) = SUBSET U
  BY <1>1, FS_Subset
<1> HIDE DEF D
<1>6. Adds(it, f, U)
  BY <1>4, <1>5 DEF Adds, c
<1> QED
  BY <1>6

\* All such functions agree where they are both defined.
LEMMA AddsUnique ==
  ASSUME NEW f, NEW U, IsFiniteSet(U), NEW T \in SUBSET U,
         NEW it, Adds(it, f, U), NEW jt, Adds(jt, f, T)
  PROVE  it[T] = jt[T]
<1> DEFINE c(s) == CHOOSE x \in s : TRUE
           bad == {s \in SUBSET T : it[s] # jt[s]}
<1>1. \A s \in SUBSET T : /\ it[s] = IF s = {} THEN 0 ELSE f[c(s)] + it[s \ {c(s)}]
                          /\ jt[s] = IF s = {} THEN 0 ELSE f[c(s)] + jt[s \ {c(s)}]
  <2>1. \A s \in SUBSET T : s \in SUBSET U
    OBVIOUS
  <2> QED
    BY <2>1 DEF Adds
<1>2. \A s \in SUBSET T : s # {} => c(s) \in s
  OBVIOUS
<1> HIDE DEF c
<1>3. bad = {}
  <2>1. SUFFICES ASSUME bad # {} PROVE FALSE
    OBVIOUS
  <2>2. PICK s \in bad : \A x \in s : s \ {x} \notin bad
    <3>1. bad \in SUBSET SUBSET T /\ IsFiniteSet(T)
      BY FS_Subset
    <3> HIDE DEF bad
    <3> QED  BY <2>1, <3>1, SmallestBad
  <2>3. s # {} /\ s \in SUBSET T /\ c(s) \in s
    BY <1>1, <1>2, <2>2
  <2>4. it[s \ {c(s)}] = jt[s \ {c(s)}]
    BY <2>2, <2>3
  <2> QED
    BY <1>1, <2>2, <2>3, <2>4
<1> QED
  BY <1>3

\* A sum of integers is an integer, and any element may be taken out of it.
SumLaws(f, U) ==
  /\ SumFunctionOnSet(f, {}) = 0
  /\ \A s \in SUBSET U :
       /\ SumFunctionOnSet(f, s) \in Int
       /\ \A x \in s : SumFunctionOnSet(f, s) = f[x] + SumFunctionOnSet(f, s \ {x})

\* The laws hold of every sum of integers.
LEMMA SumTakeOut ==
  ASSUME NEW f, NEW U, IsFiniteSet(U), \A x \in U : f[x] \in Int
  PROVE  SumLaws(f, U)
<1> DEFINE c(s) == CHOOSE x \in s : TRUE
<1>1. PICK it : Adds(it, f, U)
  BY AddsExists
<1>2. ASSUME NEW s \in SUBSET U
      PROVE  SumFunctionOnSet(f, s) = it[s]
  <2>1. IsFiniteSet(s)
    BY FS_Subset
  <2>2. Adds(CHOOSE jt : Adds(jt, f, s), f, s)
    BY <2>1, AddsExists
  <2> QED
    BY <1>1, <2>2, AddsUnique, SumIsChosen
<1>3. \A s \in SUBSET U : it[s] = IF s = {} THEN 0 ELSE f[c(s)] + it[s \ {c(s)}]
  BY <1>1 DEF Adds
<1>4. \A s \in SUBSET U : s # {} => c(s) \in s
  OBVIOUS
<1> HIDE DEF c
<1>5. \A s \in SUBSET U : it[s] \in Int
  <2> DEFINE bad == {s \in SUBSET U : it[s] \notin Int}
  <2>1. SUFFICES ASSUME bad # {} PROVE FALSE
    OBVIOUS
  <2>2. PICK s \in bad : \A x \in s : s \ {x} \notin bad
    <3>1. bad \in SUBSET SUBSET U
      OBVIOUS
    <3> HIDE DEF bad
    <3> QED  BY <2>1, <3>1, SmallestBad
  <2>3. s \in SUBSET U /\ s # {} /\ c(s) \in s
    <3>1. s \in SUBSET U /\ it[s] \notin Int
      BY <2>2
    <3>2. it[{}] = 0
      BY <1>3
    <3>3. s # {}
      BY <3>1, <3>2
    <3> QED  BY <1>4, <3>1, <3>3
  <2>4. s \ {c(s)} \in SUBSET U /\ it[s \ {c(s)}] \in Int /\ f[c(s)] \in Int
    BY <2>2, <2>3
  <2> QED
    BY <1>3, <2>2, <2>3, <2>4
<1> DEFINE Good(s) == \A x \in s : it[s] = f[x] + it[s \ {x}]
<1>6. \A s \in SUBSET U : Good(s)
  <2> DEFINE bad == {s \in SUBSET U : ~ Good(s)}
  <2>1. SUFFICES ASSUME bad # {} PROVE FALSE
    OBVIOUS
  <2>2. PICK s \in bad : \A x \in s : s \ {x} \notin bad
    <3>1. bad \in SUBSET SUBSET U
      OBVIOUS
    <3> HIDE DEF bad
    <3> QED  BY <2>1, <3>1, SmallestBad
  <2>3. s \in SUBSET U /\ ~ Good(s)
    BY <2>2
  <2>4. \A x \in s : Good(s \ {x})
    <3>1. \A x \in s : s \ {x} \in SUBSET U
      BY <2>3
    <3> HIDE DEF Good
    <3> QED  BY <2>2, <3>1
  <2>5. PICK x \in s : it[s] # f[x] + it[s \ {x}]
    BY <2>3
  <2> DEFINE y == c(s)
             r == (s \ {x}) \ {y}
  <2>6. y \in s /\ it[s] = f[y] + it[s \ {y}]
    BY <1>3, <1>4, <2>3, <2>5
  <2> HIDE DEF y
  <2>7. x # y
    BY <2>5, <2>6
  <2>8. it[s \ {y}] = f[x] + it[(s \ {y}) \ {x}]
    BY <2>4, <2>6, <2>7
  <2>9. it[s \ {x}] = f[y] + it[r]
    BY <2>4, <2>6, <2>7
  <2>10. (s \ {y}) \ {x} = r
    OBVIOUS
  <2>11. r \in SUBSET U /\ x \in U /\ y \in U
    BY <2>3, <2>6
  <2>12. it[r] \in Int /\ f[x] \in Int /\ f[y] \in Int
    <3> HIDE DEF r
    <3> QED  BY <1>5, <2>11
  <2> HIDE DEF r
  <2>13. it[s] = f[y] + (f[x] + it[r])
    BY <2>6, <2>8, <2>10
  <2>14. it[s] # f[x] + (f[y] + it[r])
    BY <2>5, <2>9
  <2> QED
    BY <2>12, <2>13, <2>14
<1>7. \A s \in SUBSET U : \A x \in s : s \ {x} \in SUBSET U
  OBVIOUS
<1> QED
  BY <1>2, <1>3, <1>5, <1>6, <1>7 DEF SumLaws

\* Functions with the same values on s have the same sum there.
LEMMA SumSame ==
  ASSUME NEW f, NEW g, NEW U, IsFiniteSet(U), NEW s \in SUBSET U,
         \A x \in U : f[x] \in Int /\ g[x] \in Int,
         \A x \in s : f[x] = g[x]
  PROVE  SumFunctionOnSet(f, s) = SumFunctionOnSet(g, s)
<1> DEFINE F(t) == SumFunctionOnSet(f, t)
           G(t) == SumFunctionOnSet(g, t)
           bad == {t \in SUBSET s : F(t) # G(t)}
<1>1. /\ F({}) = 0 /\ G({}) = 0
      /\ \A t \in SUBSET s : \A x \in t : F(t) = f[x] + F(t \ {x})
      /\ \A t \in SUBSET s : \A x \in t : G(t) = g[x] + G(t \ {x})
  <2>1. F({}) = 0 /\ \A t \in SUBSET U : \A x \in t : F(t) = f[x] + F(t \ {x})
    <3>1. SumLaws(f, U)
      BY SumTakeOut
    <3> QED  BY <3>1 DEF SumLaws
  <2>2. G({}) = 0 /\ \A t \in SUBSET U : \A x \in t : G(t) = g[x] + G(t \ {x})
    <3>1. SumLaws(g, U)
      BY SumTakeOut
    <3> QED  BY <3>1 DEF SumLaws
  <2>3. \A t \in SUBSET s : t \in SUBSET U
    OBVIOUS
  <2> HIDE DEF F, G
  <2> QED
    BY <2>1, <2>2, <2>3
<1> HIDE DEF F, G
<1>2. bad = {}
  <2>1. SUFFICES ASSUME bad # {} PROVE FALSE
    OBVIOUS
  <2>2. PICK t \in bad : \A x \in t : t \ {x} \notin bad
    <3>1. bad \in SUBSET SUBSET U
      OBVIOUS
    <3> HIDE DEF bad
    <3> QED  BY <2>1, <3>1, SmallestBad
  <2>3. t \in SUBSET s /\ F(t) # G(t)
    BY <2>2
  <2>4. PICK x \in t : TRUE
    BY <1>1, <2>3
  <2>5. t \ {x} \in SUBSET s /\ f[x] = g[x]
    BY <2>3
  <2>6. F(t \ {x}) = G(t \ {x})
    BY <2>2, <2>5
  <2> QED
    BY <1>1, <2>3, <2>5, <2>6
<1> QED
  BY <1>2 DEF F, G

\* Adding up the differences of two functions.
LEMMA SumDifference ==
  ASSUME NEW f, NEW g, NEW h, NEW U, IsFiniteSet(U),
         \A x \in U : f[x] \in Int /\ g[x] \in Int /\ h[x] = f[x] - g[x]
  PROVE  SumFunctionOnSet(h, U) = SumFunctionOnSet(f, U) - SumFunctionOnSet(g, U)
<1> DEFINE F(t) == SumFunctionOnSet(f, t)
           G(t) == SumFunctionOnSet(g, t)
           H(t) == SumFunctionOnSet(h, t)
           bad == {t \in SUBSET U : H(t) # F(t) - G(t)}
<1>1. /\ F({}) = 0 /\ G({}) = 0 /\ H({}) = 0
      /\ \A t \in SUBSET U : F(t) \in Int /\ G(t) \in Int /\ H(t) \in Int
      /\ \A t \in SUBSET U : \A x \in t : F(t) = f[x] + F(t \ {x})
      /\ \A t \in SUBSET U : \A x \in t : G(t) = g[x] + G(t \ {x})
      /\ \A t \in SUBSET U : \A x \in t : H(t) = h[x] + H(t \ {x})
  <2>1. \A x \in U : h[x] \in Int
    OBVIOUS
  <2>2. F({}) = 0 /\ \A t \in SUBSET U : F(t) \in Int /\ \A x \in t : F(t) = f[x] + F(t \ {x})
    <3>1. SumLaws(f, U)
      BY SumTakeOut
    <3> QED  BY <3>1 DEF SumLaws
  <2>3. G({}) = 0 /\ \A t \in SUBSET U : G(t) \in Int /\ \A x \in t : G(t) = g[x] + G(t \ {x})
    <3>1. SumLaws(g, U)
      BY SumTakeOut
    <3> QED  BY <3>1 DEF SumLaws
  <2>4. H({}) = 0 /\ \A t \in SUBSET U : H(t) \in Int /\ \A x \in t : H(t) = h[x] + H(t \ {x})
    <3>1. SumLaws(h, U)
      BY <2>1, SumTakeOut
    <3> QED  BY <3>1 DEF SumLaws
  <2> HIDE DEF F, G, H
  <2> QED
    BY <2>2, <2>3, <2>4
<1> HIDE DEF F, G, H
<1>2. bad = {}
  <2>1. SUFFICES ASSUME bad # {} PROVE FALSE
    OBVIOUS
  <2>2. PICK t \in bad : \A x \in t : t \ {x} \notin bad
    <3>1. bad \in SUBSET SUBSET U
      OBVIOUS
    <3> HIDE DEF bad
    <3> QED  BY <2>1, <3>1, SmallestBad
  <2>3. t \in SUBSET U /\ H(t) # F(t) - G(t)
    BY <2>2
  <2>8. t # {}
    BY <1>1, <2>3
  <2>4. PICK x \in t : TRUE
    BY <2>8
  <2>5. t \ {x} \in SUBSET U /\ f[x] \in Int /\ g[x] \in Int /\ h[x] = f[x] - g[x]
    BY <2>3
  <2>6. H(t \ {x}) = F(t \ {x}) - G(t \ {x})
    BY <2>2, <2>5
  <2>7. /\ F(t \ {x}) \in Int /\ G(t \ {x}) \in Int
        /\ F(t) = f[x] + F(t \ {x}) /\ G(t) = g[x] + G(t \ {x}) /\ H(t) = h[x] + H(t \ {x})
    BY <1>1, <2>3, <2>5
  <2> QED
    BY <2>3, <2>5, <2>6, <2>7
<1> QED
  BY <1>2 DEF F, G, H

\* A sum of which no term is positive is not positive either.
LEMMA SumNotPositive ==
  ASSUME NEW f, NEW U, IsFiniteSet(U), \A x \in U : f[x] \in Int /\ f[x] <= 0
  PROVE  SumFunctionOnSet(f, U) <= 0
<1> DEFINE F(t) == SumFunctionOnSet(f, t)
           bad == {t \in SUBSET U : ~ (F(t) <= 0)}
<1>1. /\ F({}) = 0
      /\ \A t \in SUBSET U : F(t) \in Int
      /\ \A t \in SUBSET U : \A x \in t : F(t) = f[x] + F(t \ {x})
  <2>1. SumLaws(f, U)
    BY SumTakeOut
  <2> QED  BY <2>1 DEF SumLaws
<1> HIDE DEF F
<1>2. bad = {}
  <2>1. SUFFICES ASSUME bad # {} PROVE FALSE
    OBVIOUS
  <2>2. PICK t \in bad : \A x \in t : t \ {x} \notin bad
    <3>1. bad \in SUBSET SUBSET U
      OBVIOUS
    <3> HIDE DEF bad
    <3> QED  BY <2>1, <3>1, SmallestBad
  <2>3. t \in SUBSET U /\ ~ (F(t) <= 0)
    BY <2>2
  <2>4. PICK x \in t : TRUE
    BY <1>1, <2>3
  <2>5. t \ {x} \in SUBSET U /\ f[x] \in Int /\ f[x] <= 0
    BY <2>3
  <2>6. F(t \ {x}) <= 0
    BY <2>2, <2>5
  <2>7. F(t \ {x}) \in Int /\ F(t) = f[x] + F(t \ {x})
    BY <1>1, <2>3, <2>5
  <2> QED
    BY <2>3, <2>5, <2>6, <2>7
<1> QED
  BY <1>2 DEF F

\* A sum of natural numbers is one.
LEMMA SumNatural ==
  ASSUME NEW f, NEW U, IsFiniteSet(U), \A x \in U : f[x] \in Nat
  PROVE  SumFunctionOnSet(f, U) \in Nat
<1> DEFINE F(t) == SumFunctionOnSet(f, t)
           bad == {t \in SUBSET U : F(t) \notin Nat}
<1>1. /\ F({}) = 0
      /\ \A t \in SUBSET U : \A x \in t : F(t) = f[x] + F(t \ {x})
  <2>1. SumLaws(f, U)
    BY SumTakeOut
  <2> QED  BY <2>1 DEF SumLaws
<1> HIDE DEF F
<1>2. bad = {}
  <2>1. SUFFICES ASSUME bad # {} PROVE FALSE
    OBVIOUS
  <2>2. PICK t \in bad : \A x \in t : t \ {x} \notin bad
    <3>1. bad \in SUBSET SUBSET U
      OBVIOUS
    <3> HIDE DEF bad
    <3> QED  BY <2>1, <3>1, SmallestBad
  <2>3. t \in SUBSET U /\ F(t) \notin Nat
    BY <2>2
  <2>4. PICK x \in t : TRUE
    BY <1>1, <2>3
  <2>5. t \ {x} \in SUBSET U /\ f[x] \in Nat
    BY <2>3
  <2>6. F(t \ {x}) \in Nat
    BY <2>2, <2>5
  <2>7. F(t) = f[x] + F(t \ {x})
    BY <1>1, <2>3, <2>5
  <2> QED
    BY <2>3, <2>5, <2>6, <2>7
<1> QED
  BY <1>2 DEF F

\* What becomes of a sum when only the term of one element changes, or its
\* membership: this is how every handler of one request changes the books.
LEMMA SumOneChanged ==
  ASSUME NEW U, IsFiniteSet(U), NEW x \in U, NEW f, NEW g,
         \A u \in U : f[u] \in Int /\ g[u] \in Int,
         NEW S \in SUBSET U, NEW T \in SUBSET U,
         \A u \in U \ {x} : f[u] = g[u] /\ (u \in S <=> u \in T)
  PROVE  SumFunctionOnSet(g, T) = SumFunctionOnSet(f, S)
                                    - (IF x \in S THEN f[x] ELSE 0)
                                    + (IF x \in T THEN g[x] ELSE 0)
<1> DEFINE R == S \ {x}
           a == SumFunctionOnSet(f, S)
           b == SumFunctionOnSet(g, T)
           r == SumFunctionOnSet(f, R)
<1>1. R \in SUBSET U /\ R = T \ {x} /\ (x \notin S => R = S) /\ (x \notin T => R = T)
  OBVIOUS
<1>2. r \in Int /\ a = IF x \in S THEN f[x] + r ELSE r
  <2>2. SumLaws(f, U)
    BY SumTakeOut
  <2>1. r \in Int /\ (x \in S => a = f[x] + SumFunctionOnSet(f, S \ {x}))
    BY <1>1, <2>2 DEF SumLaws
  <2> QED
    BY <1>1, <2>1
<1>3. b = IF x \in T THEN g[x] + SumFunctionOnSet(g, R) ELSE SumFunctionOnSet(g, R)
  <2>2. SumLaws(g, U)
    BY SumTakeOut
  <2>1. x \in T => b = g[x] + SumFunctionOnSet(g, T \ {x})
    BY <2>2 DEF SumLaws
  <2> QED
    BY <1>1, <2>1
<1>4. SumFunctionOnSet(g, R) = r
  BY <1>1, SumSame
<1> HIDE DEF a, b, r, R
<1>5. b = a - (IF x \in S THEN f[x] ELSE 0) + (IF x \in T THEN g[x] ELSE 0)
  <2>1. f[x] \in Int /\ g[x] \in Int
    OBVIOUS
  <2> QED
    BY <1>2, <1>3, <1>4, <2>1
<1> QED
  BY <1>5 DEF a, b

-----------------------------------------------------------------------------
(***************************************************************************)
(* The rows of the balances and of the rewards, and what a posting does to *)
(* them (Post, PostReward).                                                *)
(***************************************************************************)
Bal   == [granted : Int, used : Int, pending : Int]
Grant == [granted : Nat, remaining : Int, revoked : BOOLEAN]

\* What a posting does to the rows of the balances.
RowsPosted(b, p, col, days) ==
  /\ p \in [Years -> Bal \cup {NoBalance}]
  /\ \A y \in Years :
       /\ p[y] = NoBalance <=> b[y] = NoBalance
       /\ b[y] # NoBalance =>
            /\ p[y] \in Bal
            /\ b[y] \in Bal
            /\ p[y].granted = b[y].granted
            /\ p[y].used = b[y].used + (IF col = "used" THEN days[y] ELSE 0)
            /\ p[y].pending = b[y].pending + (IF col = "pending" THEN days[y] ELSE 0)

\* Post does that to the balances.
LEMMA PostRows ==
  ASSUME NEW b \in [Years -> Bal \cup {NoBalance}], NEW col \in {"used", "pending"},
         NEW days \in [Years -> Int],
         \A y \in Years : days[y] # 0 => b[y] # NoBalance
  PROVE  RowsPosted(b, Post(b, col, days), col, days)
<1> DEFINE p == Post(b, col, days)
<1>1. NoBalance \notin Bal
  BY RulesAssumption DEF Bal
<1>2. p = [y \in Years |-> IF days[y] = 0 THEN b[y]
                           ELSE [b[y] EXCEPT ![col] = b[y][col] + days[y]]]
  BY DEF Post
<1> HIDE DEF p
<1>3. ASSUME NEW y \in Years
      PROVE  /\ p[y] \in Bal \cup {NoBalance}
             /\ p[y] = NoBalance <=> b[y] = NoBalance
             /\ b[y] # NoBalance =>
                  /\ p[y] \in Bal
                  /\ b[y] \in Bal
                  /\ p[y].granted = b[y].granted
                  /\ p[y].used = b[y].used + (IF col = "used" THEN days[y] ELSE 0)
                  /\ p[y].pending = b[y].pending + (IF col = "pending" THEN days[y] ELSE 0)
  <2>1. b[y] \in Bal \cup {NoBalance} /\ days[y] \in Int
    OBVIOUS
  <2>2. CASE days[y] = 0
    <3>1. p[y] = b[y]
      BY <1>2, <2>2
    <3> QED
      BY <1>1, <2>1, <2>2, <3>1 DEF Bal
  <2>3. CASE days[y] # 0
    <3>1. b[y] \in Bal
      BY <2>1, <2>3
    <3>2. p[y] = [b[y] EXCEPT ![col] = b[y][col] + days[y]]
      BY <1>2, <2>3
    <3>3. CASE col = "used"
      <4>1. p[y] = [b[y] EXCEPT !.used = b[y].used + days[y]]
        BY <3>2, <3>3
      <4> QED
        BY <1>1, <2>1, <3>1, <3>3, <4>1 DEF Bal
    <3>4. CASE col = "pending"
      <4>1. p[y] = [b[y] EXCEPT !.pending = b[y].pending + days[y]]
        BY <3>2, <3>4
      <4> QED
        BY <1>1, <2>1, <3>1, <3>4, <4>1 DEF Bal
    <3> QED
      BY <3>3, <3>4
  <2> QED
    BY <2>2, <2>3
<1>4. p \in [Years -> Bal \cup {NoBalance}]
  BY <1>2, <1>3
<1> QED
  BY <1>3, <1>4 DEF p, RowsPosted

\* The rows of a sequence of rewards.
LEMMA GrantRows ==
  ASSUME NEW gr \in Seq(Grant)
  PROVE  /\ Len(gr) \in Nat /\ DOMAIN gr = 1 .. Len(gr)
         /\ \A g \in 1 .. Len(gr) : /\ gr[g] \in Grant
                                    /\ gr[g].granted \in Nat /\ gr[g].remaining \in Int
                                    /\ gr[g].revoked \in BOOLEAN
<1>1. \A g \in 1 .. Len(gr) : gr[g] \in Grant
  <2> DEFINE T == Grant
  <2>1. gr \in Seq(T)
    OBVIOUS
  <2> HIDE DEF T
  <2> QED  BY <2>1 DEF T
<1> QED
  BY <1>1 DEF Grant

\* What a posting does to the rows of the rewards.
RewardsPosted(gr, p, days) ==
  /\ p \in Seq(Grant) /\ Len(p) = Len(gr)
  /\ \A g \in 1 .. Len(gr) : /\ p[g].granted = gr[g].granted
                             /\ p[g].revoked = gr[g].revoked
                             /\ p[g].remaining = gr[g].remaining + days[g]

\* PostReward does that to the rewards.
LEMMA PostRewardRows ==
  ASSUME NEW gr \in Seq(Grant), NEW days, \A g \in 1 .. Len(gr) : days[g] \in Int
  PROVE  RewardsPosted(gr, PostReward(gr, days), days)
<1> DEFINE p == [g \in 1 .. Len(gr) |-> [gr[g] EXCEPT !.remaining = gr[g].remaining + days[g]]]
<1>1. PostReward(gr, days) = p /\ Len(gr) \in Nat
  BY GrantRows DEF PostReward
<1>2. \A g \in 1 .. Len(gr) : /\ p[g] \in Grant
                              /\ p[g].granted = gr[g].granted
                              /\ p[g].revoked = gr[g].revoked
                              /\ p[g].remaining = gr[g].remaining + days[g]
  BY GrantRows DEF Grant
<1>3. p \in Seq(Grant) /\ Len(p) = Len(gr)
  <2>1. \A g \in 1 .. Len(gr) : p[g] \in Grant
    BY <1>2
  <2> QED  BY <1>1, <2>1
<1> HIDE DEF p
<1> QED
  BY <1>1, <1>2, <1>3 DEF RewardsPosted

-----------------------------------------------------------------------------
(***************************************************************************)
(* The days taken from the rewards, oldest first.                          *)
(***************************************************************************)
Walks(left, gr, days, m) ==
  left = [g \in 0 .. m |-> IF g = 0 THEN days
                           ELSE left[g - 1] - Least(Usable(gr, g), left[g - 1])]

\* The walk along the rewards that RewardTakes describes exists.
LEMMA WalkExists ==
  ASSUME NEW gr, NEW days, NEW n \in Nat
  PROVE  \E left : Walks(left, gr, days, n)
<1> DEFINE bad == {m \in 0 .. n : ~ \E left : Walks(left, gr, days, m)}
<1>1. bad = {}
  <2>1. SUFFICES ASSUME bad # {} PROVE FALSE
    OBVIOUS
  <2>2. PICK m \in bad : \A y \in bad : m <= y
    <3>1. bad \in SUBSET Nat
      OBVIOUS
    <3> HIDE DEF bad
    <3> QED  BY <2>1, <3>1, LeastNatural
  <2>3. m \in 0 .. n /\ ~ \E left : Walks(left, gr, days, m)
    BY <2>2
  <2>4. m # 0
    <3> SUFFICES ASSUME m = 0 PROVE FALSE
      OBVIOUS
    <3>1. Walks([g \in 0 .. m |-> days], gr, days, m)
      BY DEF Walks
    <3> QED  BY <2>3, <3>1
  <2>5. PICK left : Walks(left, gr, days, m - 1)
    <3>1. m - 1 \in 0 .. n /\ ~ (m <= m - 1)
      BY <2>3, <2>4
    <3> QED  BY <2>2, <3>1
  <2> DEFINE step(a, g) == a - Least(Usable(gr, g), a)
             next == [g \in 0 .. m |-> IF g = m THEN step(left[m-1], m) ELSE left[g]]
  <2>6. \A g \in 0 .. m - 1 : left[g] = IF g = 0 THEN days ELSE step(left[g - 1], g)
    BY <2>5 DEF Walks
  <2> HIDE DEF step
  <2>7. ASSUME NEW g \in 0 .. m
        PROVE  next[g] = IF g = 0 THEN days ELSE step(next[g - 1], g)
    <3>1. CASE g = 0
      BY <2>3, <2>4, <2>6, <3>1
    <3>2. CASE g # 0
      <4>1. g - 1 \in 0 .. m /\ g - 1 # m /\ (g # m => g \in 0 .. m - 1)
        BY <2>3, <3>2
      <4>2. next[g - 1] = left[g - 1]
        BY <4>1
      <4> QED
        BY <2>6, <3>2, <4>1, <4>2
    <3> QED
      BY <3>1, <3>2
  <2>8. Walks(next, gr, days, m)
    BY <2>7 DEF Walks, step
  <2> QED
    BY <2>3, <2>8
<1> QED
  BY <1>1

\* One step of the walk: b days are asked of a reward that has a, c remain.
LEMMA WalkStep ==
  ASSUME NEW a \in Nat, NEW b \in Nat, NEW c, c = b - Least(a, b)
  PROVE  /\ c \in Nat /\ c <= b
         /\ b - c \in Nat /\ b - c <= a
         /\ c > 0 => b - c = a
BY DEF Least

\* What RewardTakes takes: from each reward at most what it has, and nothing from
\* one before the older ones are used up.
LEMMA TakesFromOldest ==
  ASSUME NEW gr \in Seq(Grant), Len(gr) <= MaxGrants, NEW days \in Nat
  PROVE  LET t == RewardTakes(gr, days)
         IN  /\ t \in [GrantIds -> Nat]
             /\ \A g \in GrantIds : g > Len(gr) => t[g] = 0
             /\ \A g \in 1 .. Len(gr) : t[g] <= Usable(gr, g)
             /\ \A g \in 1 .. Len(gr) : t[g] > 0 =>
                  days > 0 /\ \A h \in 1 .. g - 1 : t[h] = Usable(gr, h)
<1> DEFINE n == Len(gr)
           left == CHOOSE left : Walks(left, gr, days, n)
           t == RewardTakes(gr, days)
<1>1. n \in Nat /\ n <= MaxGrants /\ MaxGrants \in Nat
  BY RulesAssumption, GrantRows
<1>2. Walks(left, gr, days, n)
  BY <1>1, WalkExists
<1>3. t = [g \in GrantIds |-> IF g <= n THEN left[g - 1] - left[g] ELSE 0]
  BY DEF RewardTakes, Walks
<1> HIDE DEF left, t
<1>4. \A g \in 1 .. n : Usable(gr, g) \in Nat
  BY GrantRows DEF Usable
<1>5. left[0] = days /\ \A g \in 1 .. n : left[g] = left[g - 1] - Least(Usable(gr, g), left[g - 1])
  BY <1>1, <1>2 DEF Walks
<1> HIDE DEF n
<1>6. \A g \in 0 .. n : left[g] \in Nat
  <2> DEFINE bad == {g \in 0 .. n : left[g] \notin Nat}
  <2>1. SUFFICES ASSUME bad # {} PROVE FALSE
    OBVIOUS
  <2>2. PICK g \in bad : \A y \in bad : g <= y
    <3>1. bad \in SUBSET Nat
      BY <1>1
    <3> HIDE DEF bad
    <3> QED  BY <2>1, <3>1, LeastNatural
  <2>3. g \in 0 .. n /\ left[g] \notin Nat
    BY <2>2
  <2>4. g # 0
    BY <1>5, <2>3
  <2>5. g - 1 \in 0 .. n /\ ~ (g <= g - 1) /\ g \in 1 .. n
    BY <1>1, <2>3, <2>4
  <2>6. left[g - 1] \in Nat
    BY <2>2, <2>5
  <2> QED
    BY <1>4, <1>5, <2>3, <2>5, <2>6, WalkStep
<1>7. ASSUME NEW g \in 1 .. n
      PROVE  /\ left[g - 1] \in Nat /\ left[g] \in Nat /\ left[g] <= left[g - 1]
             /\ left[g - 1] - left[g] \in Nat /\ left[g - 1] - left[g] <= Usable(gr, g)
             /\ left[g] > 0 => left[g - 1] - left[g] = Usable(gr, g)
  <2>1. g - 1 \in 0 .. n /\ g \in 0 .. n
    BY <1>1
  <2>2. left[g - 1] \in Nat /\ left[g] \in Nat /\ Usable(gr, g) \in Nat
    BY <1>4, <1>6, <2>1
  <2>3. left[g] = left[g - 1] - Least(Usable(gr, g), left[g - 1])
    BY <1>5
  <2> QED
    BY <2>2, <2>3, WalkStep
<1>8. \A g \in 1 .. n : left[g] > 0 => \A h \in 0 .. g : left[h] > 0
  <2> DEFINE bad == {g \in 1 .. n : left[g] > 0 /\ ~ \A h \in 0 .. g : left[h] > 0}
  <2>1. SUFFICES ASSUME bad # {} PROVE FALSE
    OBVIOUS
  <2>2. PICK g \in bad : \A y \in bad : g <= y
    <3>1. bad \in SUBSET Nat
      BY <1>1
    <3> HIDE DEF bad
    <3> QED  BY <2>1, <3>1, LeastNatural
  <2>3. g \in 1 .. n /\ left[g] > 0
    BY <2>2
  <2>4. PICK h \in 0 .. g : ~ (left[h] > 0)
    BY <2>2
  <2>5. left[g - 1] > 0
    BY <1>7, <2>3
  <2>6. h \in 0 .. g - 1 /\ g # 1
    BY <1>1, <2>3, <2>4, <2>5
  <2>7. g - 1 \in 1 .. n /\ ~ (g <= g - 1)
    BY <1>1, <2>3, <2>6
  <2>8. g - 1 \in bad
    BY <2>4, <2>5, <2>6, <2>7
  <2> HIDE DEF bad
  <2> QED
    BY <2>2, <2>7, <2>8
<1>9. GrantIds = 1 .. MaxGrants
  BY DEF GrantIds
<1>10. ASSUME NEW g \in GrantIds
       PROVE  /\ t[g] \in Nat
              /\ g > n => t[g] = 0
              /\ g <= n => g \in 1 .. n /\ t[g] = left[g - 1] - left[g]
  BY <1>1, <1>3, <1>7, <1>9
<1>11. 1 .. n \subseteq GrantIds
  BY <1>1, <1>9
<1>12. ASSUME NEW g \in 1 .. n
       PROVE  t[g] = left[g - 1] - left[g] /\ t[g] <= Usable(gr, g)
  <2>1. g \in GrantIds /\ g <= n
    BY <1>1, <1>11
  <2>2. t[g] = left[g - 1] - left[g]
    BY <1>10, <2>1
  <2> QED
    BY <1>7, <2>2
<1>13. ASSUME NEW g \in 1 .. n, t[g] > 0
       PROVE  days > 0 /\ \A h \in 1 .. g - 1 : t[h] = Usable(gr, h)
  <2>1. left[g - 1] > 0
    BY <1>7, <1>12, <1>13
  <2>2. \A h \in 0 .. g - 1 : left[h] > 0
    <3>1. CASE g = 1
      BY <2>1, <3>1
    <3>2. CASE g # 1
      <4>1. g - 1 \in 1 .. n
        BY <1>1, <3>2
      <4> QED  BY <1>8, <2>1, <4>1
    <3> QED  BY <3>1, <3>2
  <2>3. ASSUME NEW h \in 1 .. g - 1
        PROVE  t[h] = Usable(gr, h)
    <3>1. h \in 1 .. n /\ h \in 0 .. g - 1
      BY <1>1
    <3> QED  BY <1>7, <1>12, <2>2, <3>1
  <2>4. 0 \in 0 .. g - 1
    BY <1>1
  <2> QED
    BY <1>5, <2>2, <2>3, <2>4
<1>14. t \in [GrantIds -> Nat]
  BY <1>3, <1>10
<1> QED
  BY <1>10, <1>12, <1>13, <1>14 DEF t, n

-----------------------------------------------------------------------------
(***************************************************************************)
(* The plan of a request.                                                  *)
(***************************************************************************)
Reqs == [Ids -> Request]

TypedBooks(L) ==
  /\ L.bal \in [Years -> Bal \cup {NoBalance}]
  /\ L.grants \in Seq(Grant) /\ Len(L.grants) <= MaxGrants
  /\ L.reqs \in Reqs

InBooks(L, S)     == {id \in Ids : L.reqs[id].status \in S}
YearDays(L, S, y)  == SumFunctionOnSet([id \in Ids |-> L.reqs[id].year[y]], InBooks(L, S))
GrantDays(L, S, g) == SumFunctionOnSet([id \in Ids |-> L.reqs[id].grant[g]], InBooks(L, S))

\* The days of a plan are there in the books.
PlanCovered(L, p) ==
  /\ p.year \in [Years -> Nat] /\ p.grant \in [GrantIds -> Nat]
  /\ \A y \in Years : p.year[y] > 0 =>
       L.bal[y] # NoBalance /\ p.year[y] <= Remaining(L.bal[y])
  /\ \A g \in GrantIds : g > Len(L.grants) => p.grant[g] = 0
  /\ \A g \in 1 .. Len(L.grants) : p.grant[g] <= Usable(L.grants, g)

\* What a plan charges when it is not short.
PlanFits(L, need, p) ==
  /\ PlanCovered(L, p)
  /\ \A y \in Years : need[y] > p.year[y] =>
       L.bal[y] # NoBalance /\ Remaining(L.bal[y]) - p.year[y] <= 0
  /\ \A g \in 1 .. Len(L.grants) : p.grant[g] > 0 =>
       /\ \E y \in Years : need[y] > p.year[y]
       /\ \A h \in 1 .. g - 1 : p.grant[h] = Usable(L.grants, h)
  /\ (\A y \in Years : need[y] > 0 => Remaining(L.bal[y]) >= 0) =>
       SumFunction(p.year) + SumFunction(p.grant) = SumFunction(need)

\* The sum of a function is its sum over its domain.
LEMMA FunctionSum ==
  ASSUME NEW f, NEW S, NEW T, f \in [S -> T]
  PROVE  SumFunction(f) = SumFunctionOnSet(f, S)
BY DEF SumFunction

\* The days taken from one year: never more than needed nor more than it has.
LEMMA TakeFacts ==
  ASSUME NEW b \in [Years -> Bal \cup {NoBalance}], NEW need \in [Years -> Nat],
         NEW y \in Years, need[y] > 0 => b[y] # NoBalance
  PROVE  LET t == StatutoryTake(b, need, y)
         IN  /\ t \in Int /\ t <= need[y]
             /\ t > 0 => b[y] # NoBalance /\ t <= Remaining(b[y])
             /\ need[y] > t => need[y] > 0 /\ b[y] # NoBalance /\ t = Remaining(b[y])
             /\ t < 0 => need[y] > 0 /\ b[y] # NoBalance /\ Remaining(b[y]) < 0
<1>1. need[y] \in Nat
  OBVIOUS
<1>2. CASE need[y] = 0
  BY <1>1, <1>2 DEF StatutoryTake
<1>3. CASE need[y] # 0
  <2>1. b[y] # NoBalance /\ b[y] \in Bal
    BY <1>1, <1>3
  <2>2. Remaining(b[y]) \in Int
    BY <2>1 DEF Remaining, Bal
  <2>3. StatutoryTake(b, need, y) = Least(Remaining(b[y]), need[y])
    BY <1>3 DEF StatutoryTake
  <2> QED
    BY <1>1, <1>3, <2>1, <2>2, <2>3 DEF Least
<1> QED
  BY <1>2, <1>3

\* build_allocation_plan: a plan that is not short fits the books.
LEMMA PlanIsFit ==
  ASSUME NEW L, TypedBooks(L), NEW need \in [Years -> Nat], CanCharge(L, need)
  PROVE  PlanFits(L, need, Plan(L, need))
<1> DEFINE take(y) == StatutoryTake(L.bal, need, y)
           lack == [y \in Years |-> need[y] - take(y)]
           rest == Leftover(L.bal, need)
           p == Plan(L, need)
<1>1. /\ IsFiniteSet(Years) /\ IsFiniteSet(GrantIds)
      /\ L.bal \in [Years -> Bal \cup {NoBalance}]
      /\ L.grants \in Seq(Grant) /\ Len(L.grants) <= MaxGrants
  <2>1. IsFiniteSet(Years) /\ MaxGrants \in Int /\ 1 \in Int
    BY LedgerAssumption, RulesAssumption
  <2>2. IsFiniteSet(1 .. MaxGrants)
    BY <2>1, FS_Interval
  <2> QED
    BY <2>1, <2>2 DEF TypedBooks, GrantIds
<1>2. ASSUME NEW y \in Years
      PROVE  /\ take(y) \in Int /\ need[y] \in Nat /\ take(y) <= need[y]
             /\ take(y) > 0 => L.bal[y] # NoBalance /\ take(y) <= Remaining(L.bal[y])
             /\ need[y] > take(y) =>
                  need[y] > 0 /\ L.bal[y] # NoBalance /\ take(y) = Remaining(L.bal[y])
             /\ take(y) < 0 => need[y] > 0 /\ Remaining(L.bal[y]) < 0
  <2>1. need[y] > 0 => L.bal[y] # NoBalance
    BY DEF CanCharge
  <2> QED
    BY <1>1, <2>1, TakeFacts
<1>3. /\ p.year = [y \in Years |-> IF take(y) > 0 THEN take(y) ELSE 0]
      /\ p.grant = RewardTakes(L.grants, rest)
      /\ rest - SumFunction(p.grant) = 0
      /\ rest = SumFunction(lack)
  BY DEF Plan, CanCharge, Leftover
<1> HIDE DEF take, p
<1>4. /\ lack \in [Years -> Int]
      /\ \A y \in Years : lack[y] \in Nat /\ lack[y] \in Int /\ lack[y] = need[y] - take(y)
  BY <1>2
<1>5. rest = SumFunctionOnSet(lack, Years) /\ rest \in Nat
  <2>1. rest = SumFunctionOnSet(lack, Years)
    BY <1>3, <1>4, FunctionSum
  <2> HIDE DEF lack, rest
  <2> QED
    BY <1>1, <1>4, <2>1, SumNatural
<1>6. rest > 0 => \E y \in Years : need[y] > take(y)
  <2> SUFFICES ASSUME \A y \in Years : ~ (need[y] > take(y))
               PROVE  rest <= 0
    BY <1>5
  <2>1. \A y \in Years : lack[y] \in Int /\ lack[y] <= 0
    BY <1>2, <1>4
  <2> HIDE DEF lack, rest
  <2> QED
    BY <1>1, <1>5, <2>1, SumNotPositive
<1> HIDE DEF lack, rest
<1>7. /\ p.grant \in [GrantIds -> Nat]
      /\ \A g \in GrantIds : g > Len(L.grants) => p.grant[g] = 0
      /\ \A g \in 1 .. Len(L.grants) : p.grant[g] <= Usable(L.grants, g)
      /\ \A g \in 1 .. Len(L.grants) : p.grant[g] > 0 =>
           rest > 0 /\ \A h \in 1 .. g - 1 : p.grant[h] = Usable(L.grants, h)
  BY <1>1, <1>3, <1>5, TakesFromOldest
<1>8. ASSUME NEW y \in Years
      PROVE  /\ p.year[y] \in Nat
             /\ p.year[y] > 0 => L.bal[y] # NoBalance /\ p.year[y] <= Remaining(L.bal[y])
             /\ need[y] > p.year[y] => L.bal[y] # NoBalance /\ Remaining(L.bal[y]) - p.year[y] <= 0
             /\ need[y] > take(y) => need[y] > p.year[y]
  <2>1. p.year[y] = IF take(y) > 0 THEN take(y) ELSE 0
    BY <1>3
  <2>2. need[y] > p.year[y] => need[y] > take(y)
    BY <1>2, <2>1
  <2> QED
    BY <1>2, <2>1, <2>2
<1>9. p.year \in [Years -> Nat]
  BY <1>3, <1>8
<1>10. ASSUME \A y \in Years : need[y] > 0 => Remaining(L.bal[y]) >= 0
       PROVE  SumFunction(p.year) + SumFunction(p.grant) = SumFunction(need)
  <2>1. ASSUME NEW y \in Years
        PROVE  need[y] \in Int /\ p.year[y] \in Int /\ lack[y] = need[y] - p.year[y]
    <3>1. ~ (take(y) < 0)
      BY <1>2, <1>10
    <3>2. take(y) = p.year[y]
      BY <1>2, <1>3, <3>1
    <3> QED
      BY <1>2, <1>4, <1>8, <3>2
  <2>2. SumFunctionOnSet(lack, Years)
          = SumFunctionOnSet(need, Years) - SumFunctionOnSet(p.year, Years)
    BY <1>1, <2>1, SumDifference
  <2>3. SumFunction(need) = SumFunctionOnSet(need, Years)
    BY FunctionSum
  <2>4. SumFunction(p.year) = SumFunctionOnSet(p.year, Years)
    BY <1>9, FunctionSum
  <2>5. SumFunction(p.grant) = SumFunctionOnSet(p.grant, GrantIds)
    BY <1>7, FunctionSum
  <2>6. /\ SumFunctionOnSet(need, Years) \in Nat /\ SumFunctionOnSet(p.year, Years) \in Nat
        /\ SumFunctionOnSet(p.grant, GrantIds) \in Nat
    <3>1. SumFunctionOnSet(need, Years) \in Nat
      BY <1>1, SumNatural
    <3>2. SumFunctionOnSet(p.year, Years) \in Nat
      BY <1>1, <1>9, SumNatural
    <3>3. SumFunctionOnSet(p.grant, GrantIds) \in Nat
      BY <1>1, <1>7, SumNatural
    <3> QED  BY <3>1, <3>2, <3>3
  <2> QED
    BY <1>3, <1>5, <2>2, <2>3, <2>4, <2>5, <2>6
<1>11. \A g \in 1 .. Len(L.grants) : p.grant[g] > 0 =>
         /\ \E y \in Years : need[y] > p.year[y]
         /\ \A h \in 1 .. g - 1 : p.grant[h] = Usable(L.grants, h)
  BY <1>6, <1>7, <1>8
<1> QED
  BY <1>7, <1>8, <1>9, <1>10, <1>11 DEF PlanFits, PlanCovered, p

-----------------------------------------------------------------------------
(***************************************************************************)
(* The books as an invariant.  Kept says what holds of them between two    *)
(* operations; it is stated of a record L, so that it can also be said of  *)
(* the books half way through an update, when the old days are back and    *)
(* the new ones not yet taken.                                             *)
(***************************************************************************)
Waiting  == {"PENDING"}
Granted  == {"APPROVED"}
Holding  == {"PENDING", "APPROVED"}

\* The days that a request r in one of the statuses S holds of a year, of a reward.
Held(r, S, y)       == IF r.status \in S THEN r.year[y] ELSE 0
HeldReward(r, S, g) == IF r.status \in S THEN r.grant[g] ELSE 0

Takes(r) == SumFunction(r.year) + SumFunction(r.grant) = SumFunction(r.need)
Uncorrected(r) == \A y \in Correctable : r.need[y] = 0

NothingBeyond(L) == \A id \in Ids, g \in GrantIds : g > Len(L.grants) => L.reqs[id].grant[g] = 0

HeldExist(L) == \A y \in Years \ Purgeable :
                  L.bal[y] = NoBalance => \A id \in Ids : L.reqs[id].year[y] = 0

PendingKept(L) == \A y \in Years \ Purgeable :
                    L.bal[y] # NoBalance => L.bal[y].pending = YearDays(L, Waiting, y)

UsedKept(L) == \A y \in Years \ ByHand :
                 L.bal[y] # NoBalance => L.bal[y].used = YearDays(L, Granted, y)

RewardKept(L, g) ==
  /\ L.grants[g].remaining >= 0
  /\ L.grants[g].remaining + GrantDays(L, Holding, g) <= L.grants[g].granted
  /\ ~ L.grants[g].revoked =>
       L.grants[g].remaining + GrantDays(L, Holding, g) = L.grants[g].granted

RewardsKept(L) == \A g \in 1 .. Len(L.grants) : RewardKept(L, g)

CoveredKept(L) == \A y \in Years \ Correctable : L.bal[y] # NoBalance => Covered(L.bal[y])

TakesKept(L) == \A id \in InBooks(L, Holding) : Uncorrected(L.reqs[id]) => Takes(L.reqs[id])

Kept(L) == /\ TypedBooks(L) /\ NothingBeyond(L) /\ HeldExist(L)
           /\ PendingKept(L) /\ UsedKept(L) /\ RewardsKept(L) /\ CoveredKept(L)

\* What LedgerAssumption says of the sets.
LEMMA SetsFinite == IsFiniteSet(Ids) /\ IsFiniteSet(Years) /\ Correctable \subseteq Years
BY LedgerAssumption

\* The sums over the requests are integers.
LEMMA DaysInt ==
  ASSUME NEW L, L.reqs \in Reqs, NEW S
  PROVE  /\ \A y \in Years : YearDays(L, S, y) \in Int
         /\ \A g \in GrantIds : GrantDays(L, S, g) \in Int
<1>1. IsFiniteSet(Ids) /\ InBooks(L, S) \in SUBSET Ids
  BY SetsFinite DEF InBooks
<1>2. \A i \in Ids : /\ L.reqs[i].year \in [Years -> Nat] /\ L.reqs[i].grant \in [GrantIds -> Nat]
  BY DEF Reqs, Request
<1>3. ASSUME NEW y \in Years
      PROVE  YearDays(L, S, y) \in Int
  <2> DEFINE f == [i \in Ids |-> L.reqs[i].year[y]]
  <2>1. \A i \in Ids : f[i] \in Int
    BY <1>2
  <2>2. YearDays(L, S, y) = SumFunctionOnSet(f, InBooks(L, S))
    BY DEF YearDays
  <2> HIDE DEF f
  <2>3. SumLaws(f, Ids)
    BY <1>1, <2>1, SumTakeOut
  <2> QED
    BY <1>1, <2>2, <2>3 DEF SumLaws
<1>4. ASSUME NEW g \in GrantIds
      PROVE  GrantDays(L, S, g) \in Int
  <2> DEFINE f == [i \in Ids |-> L.reqs[i].grant[g]]
  <2>1. \A i \in Ids : f[i] \in Int
    BY <1>2
  <2>2. GrantDays(L, S, g) = SumFunctionOnSet(f, InBooks(L, S))
    BY DEF GrantDays
  <2> HIDE DEF f
  <2>3. SumLaws(f, Ids)
    BY <1>1, <2>1, SumTakeOut
  <2> QED
    BY <1>1, <2>2, <2>3 DEF SumLaws
<1> QED
  BY <1>3, <1>4

\* A sum of nothing.
LEMMA DaysZero ==
  ASSUME NEW L, L.reqs \in Reqs, NEW S
  PROVE  /\ \A y \in Years : (\A i \in Ids : L.reqs[i].year[y] = 0) => YearDays(L, S, y) = 0
         /\ \A g \in GrantIds : (\A i \in Ids : L.reqs[i].grant[g] = 0) => GrantDays(L, S, g) = 0
<1>1. IsFiniteSet(InBooks(L, S)) /\ InBooks(L, S) \in SUBSET Ids
  BY SetsFinite, FS_Subset DEF InBooks
<1>2. ASSUME NEW f, \A i \in Ids : f[i] = 0
      PROVE  SumFunctionOnSet(f, InBooks(L, S)) = 0
  <2>1. SumFunctionOnSet(f, InBooks(L, S)) \in Nat
    BY <1>1, <1>2, SumNatural
  <2>2. SumFunctionOnSet(f, InBooks(L, S)) <= 0
    BY <1>1, <1>2, SumNotPositive
  <2> QED  BY <2>1, <2>2
<1>3. ASSUME NEW y \in Years, \A i \in Ids : L.reqs[i].year[y] = 0
      PROVE  YearDays(L, S, y) = 0
  BY <1>2, <1>3 DEF YearDays
<1>4. ASSUME NEW g \in GrantIds, \A i \in Ids : L.reqs[i].grant[g] = 0
      PROVE  GrantDays(L, S, g) = 0
  BY <1>2, <1>4 DEF GrantDays
<1> QED
  BY <1>3, <1>4

\* What one rewritten request does to the sums.
SumsFollow(L, M, id, S) ==
  /\ \A y \in Years : YearDays(M, S, y) =
       YearDays(L, S, y) - Held(L.reqs[id], S, y) + Held(M.reqs[id], S, y)
  /\ \A g \in GrantIds : GrantDays(M, S, g) =
       GrantDays(L, S, g) - HeldReward(L.reqs[id], S, g) + HeldReward(M.reqs[id], S, g)

\* The sums follow when one request is rewritten.
LEMMA RequestRewritten ==
  ASSUME NEW L, L.reqs \in Reqs, NEW M, M.reqs \in Reqs, NEW id \in Ids,
         \A i \in Ids \ {id} : M.reqs[i] = L.reqs[i], NEW S
  PROVE  SumsFollow(L, M, id, S)
<1>1. /\ IsFiniteSet(Ids) /\ InBooks(L, S) \in SUBSET Ids /\ InBooks(M, S) \in SUBSET Ids
      /\ \A i \in Ids \ {id} : i \in InBooks(L, S) <=> i \in InBooks(M, S)
      /\ id \in InBooks(L, S) <=> L.reqs[id].status \in S
      /\ id \in InBooks(M, S) <=> M.reqs[id].status \in S
  BY SetsFinite DEF InBooks
<1>2. \A i \in Ids : /\ L.reqs[i].year \in [Years -> Nat] /\ L.reqs[i].grant \in [GrantIds -> Nat]
                     /\ M.reqs[i].year \in [Years -> Nat] /\ M.reqs[i].grant \in [GrantIds -> Nat]
  BY DEF Reqs, Request
<1>3. ASSUME NEW y \in Years
      PROVE  YearDays(M, S, y) =
               YearDays(L, S, y) - Held(L.reqs[id], S, y) + Held(M.reqs[id], S, y)
  <2> DEFINE f == [i \in Ids |-> L.reqs[i].year[y]]
             h == [i \in Ids |-> M.reqs[i].year[y]]
  <2>1. /\ \A i \in Ids : f[i] \in Int /\ h[i] \in Int
        /\ \A i \in Ids \ {id} : f[i] = h[i]
        /\ f[id] = L.reqs[id].year[y] /\ h[id] = M.reqs[id].year[y]
    BY <1>2
  <2>2. YearDays(L, S, y) = SumFunctionOnSet(f, InBooks(L, S))
        /\ YearDays(M, S, y) = SumFunctionOnSet(h, InBooks(M, S))
    BY DEF YearDays
  <2> HIDE DEF f, h
  <2>3. SumFunctionOnSet(h, InBooks(M, S)) = SumFunctionOnSet(f, InBooks(L, S))
          - (IF id \in InBooks(L, S) THEN f[id] ELSE 0)
          + (IF id \in InBooks(M, S) THEN h[id] ELSE 0)
    BY <1>1, <2>1, SumOneChanged
  <2> QED
    BY <1>1, <2>1, <2>2, <2>3 DEF Held
<1>4. ASSUME NEW g \in GrantIds
      PROVE  GrantDays(M, S, g) =
               GrantDays(L, S, g) - HeldReward(L.reqs[id], S, g) + HeldReward(M.reqs[id], S, g)
  <2> DEFINE f == [i \in Ids |-> L.reqs[i].grant[g]]
             h == [i \in Ids |-> M.reqs[i].grant[g]]
  <2>1. /\ \A i \in Ids : f[i] \in Int /\ h[i] \in Int
        /\ \A i \in Ids \ {id} : f[i] = h[i]
        /\ f[id] = L.reqs[id].grant[g] /\ h[id] = M.reqs[id].grant[g]
    BY <1>2
  <2>2. GrantDays(L, S, g) = SumFunctionOnSet(f, InBooks(L, S))
        /\ GrantDays(M, S, g) = SumFunctionOnSet(h, InBooks(M, S))
    BY DEF GrantDays
  <2> HIDE DEF f, h
  <2>3. SumFunctionOnSet(h, InBooks(M, S)) = SumFunctionOnSet(f, InBooks(L, S))
          - (IF id \in InBooks(L, S) THEN f[id] ELSE 0)
          + (IF id \in InBooks(M, S) THEN h[id] ELSE 0)
    BY <1>1, <2>1, SumOneChanged
  <2> QED
    BY <1>1, <2>1, <2>2, <2>3 DEF HeldReward
<1> QED
  BY <1>3, <1>4 DEF SumsFollow

-----------------------------------------------------------------------------
(***************************************************************************)
(* The operations on one request.                                          *)
(***************************************************************************)
\* The handlers of one request: they rewrite it and move between the books
\* exactly the days that its old and its new state hold.
Moves(L, M, id) ==
  /\ TypedBooks(M)
  /\ Len(M.grants) = Len(L.grants)
  /\ \A i \in Ids \ {id} : M.reqs[i] = L.reqs[i]
  /\ \A y \in Years :
       /\ M.bal[y] = NoBalance <=> L.bal[y] = NoBalance
       /\ L.bal[y] # NoBalance =>
            /\ M.bal[y].granted = L.bal[y].granted
            /\ M.bal[y].pending = L.bal[y].pending
                 - Held(L.reqs[id], Waiting, y) + Held(M.reqs[id], Waiting, y)
            /\ M.bal[y].used = L.bal[y].used
                 - Held(L.reqs[id], Granted, y) + Held(M.reqs[id], Granted, y)
  /\ \A g \in 1 .. Len(L.grants) :
       /\ M.grants[g].granted = L.grants[g].granted
       /\ M.grants[g].revoked = L.grants[g].revoked
       /\ M.grants[g].remaining = L.grants[g].remaining
            + HeldReward(L.reqs[id], Holding, g) - HeldReward(M.reqs[id], Holding, g)

\* What else the new state must satisfy.
Sound(L, M, id) ==
  /\ \A y \in Years : M.reqs[id].year[y] > 0 => L.bal[y] # NoBalance
  /\ \A g \in GrantIds : g > Len(L.grants) => M.reqs[id].grant[g] = 0
  /\ \A g \in 1 .. Len(L.grants) : M.grants[g].remaining >= 0
  /\ \A y \in Years : L.bal[y] # NoBalance /\ Covered(L.bal[y]) => Covered(M.bal[y])

\* What the type of the books says of each of their rows.
LEMMA Typed ==
  ASSUME NEW L, TypedBooks(L)
  PROVE  /\ L.reqs \in Reqs
         /\ \A i \in Ids : /\ L.reqs[i] \in Request
                           /\ L.reqs[i].status \in Statuses
                           /\ L.reqs[i].need \in [Years -> Nat]
                           /\ L.reqs[i].year \in [Years -> Nat]
                           /\ L.reqs[i].grant \in [GrantIds -> Nat]
         /\ \A y \in Years : L.bal[y] # NoBalance =>
              /\ L.bal[y] \in Bal /\ L.bal[y].granted \in Int
              /\ L.bal[y].used \in Int /\ L.bal[y].pending \in Int
         /\ Len(L.grants) \in Nat /\ Len(L.grants) <= MaxGrants /\ MaxGrants \in Nat
         /\ 1 .. Len(L.grants) \subseteq GrantIds
         /\ DOMAIN L.grants = 1 .. Len(L.grants)
         /\ \A g \in 1 .. Len(L.grants) :
              /\ L.grants[g] \in Grant /\ L.grants[g].granted \in Nat
              /\ L.grants[g].remaining \in Int /\ L.grants[g].revoked \in BOOLEAN
<1>1. L.reqs \in Reqs
  BY DEF TypedBooks
<1>2. \A i \in Ids : L.reqs[i] \in Request
  BY <1>1 DEF Reqs
<1>3. L.bal \in [Years -> Bal \cup {NoBalance}] /\ L.grants \in Seq(Grant) /\ Len(L.grants) <= MaxGrants
  BY DEF TypedBooks
<1>4. \A y \in Years : L.bal[y] # NoBalance => L.bal[y] \in Bal
  BY <1>3
<1>5. /\ Len(L.grants) \in Nat /\ DOMAIN L.grants = 1 .. Len(L.grants)
      /\ \A g \in 1 .. Len(L.grants) : /\ L.grants[g] \in Grant
                                    /\ L.grants[g].granted \in Nat /\ L.grants[g].remaining \in Int
                                    /\ L.grants[g].revoked \in BOOLEAN
  BY <1>3, GrantRows
<1>6. MaxGrants \in Nat /\ 1 .. Len(L.grants) \subseteq GrantIds
  BY <1>3, <1>5, RulesAssumption DEF GrantIds
<1>7. \A i \in Ids : /\ L.reqs[i].status \in Statuses
                     /\ L.reqs[i].need \in [Years -> Nat]
                     /\ L.reqs[i].year \in [Years -> Nat]
                     /\ L.reqs[i].grant \in [GrantIds -> Nat]
  BY <1>2 DEF Request
<1>8. \A y \in Years : L.bal[y] # NoBalance => /\ L.bal[y].granted \in Int
              /\ L.bal[y].used \in Int /\ L.bal[y].pending \in Int
  BY <1>4 DEF Bal
<1> QED
  BY <1>1, <1>2, <1>3, <1>4, <1>5, <1>6, <1>7, <1>8

\* What one request holds is a number of days.
LEMMA HeldInt ==
  ASSUME NEW L, TypedBooks(L), NEW id \in Ids, NEW S
  PROVE  /\ \A y \in Years : Held(L.reqs[id], S, y) \in Nat
         /\ \A g \in GrantIds : HeldReward(L.reqs[id], S, g) \in Nat
BY Typed DEF Held, HeldReward

\* An operation that moves what one request holds keeps the books.
LEMMA MoveKeeps ==
  ASSUME NEW L, Kept(L), NEW M, NEW id \in Ids, Moves(L, M, id), Sound(L, M, id)
  PROVE  Kept(M)
<1>1. TypedBooks(L) /\ TypedBooks(M) /\ L.reqs \in Reqs /\ M.reqs \in Reqs
  BY Typed DEF Kept, Moves
<1>2. /\ Len(M.grants) = Len(L.grants)
      /\ \A i \in Ids \ {id} : M.reqs[i] = L.reqs[i]
  BY DEF Moves
<1>10. \A S : SumsFollow(L, M, id, S)
  BY <1>1, <1>2, RequestRewritten
<1>3. NothingBeyond(M)
  <2>1. ASSUME NEW i \in Ids, NEW g \in GrantIds, g > Len(M.grants)
        PROVE  M.reqs[i].grant[g] = 0
    <3>1. CASE i = id
      BY <1>2, <2>1, <3>1 DEF Sound
    <3>2. CASE i # id
      BY <1>2, <2>1, <3>2 DEF Kept, NothingBeyond
    <3> QED  BY <3>1, <3>2
  <2> QED  BY <2>1 DEF NothingBeyond
<1>4. HeldExist(M)
  <2>1. ASSUME NEW y \in Years \ Purgeable, M.bal[y] = NoBalance, NEW i \in Ids
        PROVE  M.reqs[i].year[y] = 0
    <3>0. L.bal[y] = NoBalance
      BY <2>1 DEF Moves
    <3>1. CASE i = id
      <4>1. ~ (M.reqs[id].year[y] > 0)
        BY <3>0 DEF Sound
      <4>2. M.reqs[id].year[y] \in Nat
        BY <1>1, Typed
      <4> QED  BY <3>1, <4>1, <4>2
    <3>2. CASE i # id
      BY <1>2, <3>0, <3>2 DEF Kept, HeldExist
    <3> QED  BY <3>1, <3>2
  <2> QED  BY <2>1 DEF HeldExist
<1>5. PendingKept(M)
  <2>1. ASSUME NEW y \in Years \ Purgeable, M.bal[y] # NoBalance
        PROVE  M.bal[y].pending = YearDays(M, Waiting, y)
    <3>1. L.bal[y] # NoBalance /\ M.bal[y].pending = L.bal[y].pending
                 - Held(L.reqs[id], Waiting, y) + Held(M.reqs[id], Waiting, y)
      BY <2>1 DEF Moves
    <3>2. L.bal[y].pending = YearDays(L, Waiting, y)
      BY <3>1 DEF Kept, PendingKept
    <3>3. YearDays(M, Waiting, y) =
              YearDays(L, Waiting, y) - Held(L.reqs[id], Waiting, y) + Held(M.reqs[id], Waiting, y)
      BY <1>10 DEF SumsFollow
    <3> QED  BY <3>1, <3>2, <3>3
  <2> QED  BY <2>1 DEF PendingKept
<1>6. UsedKept(M)
  <2>1. ASSUME NEW y \in Years \ ByHand, M.bal[y] # NoBalance
        PROVE  M.bal[y].used = YearDays(M, Granted, y)
    <3>1. L.bal[y] # NoBalance /\ M.bal[y].used = L.bal[y].used
                 - Held(L.reqs[id], Granted, y) + Held(M.reqs[id], Granted, y)
      BY <2>1 DEF Moves
    <3>2. L.bal[y].used = YearDays(L, Granted, y)
      BY <3>1 DEF Kept, UsedKept
    <3>3. YearDays(M, Granted, y) =
              YearDays(L, Granted, y) - Held(L.reqs[id], Granted, y) + Held(M.reqs[id], Granted, y)
      BY <1>10 DEF SumsFollow
    <3> QED  BY <3>1, <3>2, <3>3
  <2> QED  BY <2>1 DEF UsedKept
<1>7. RewardsKept(M)
  <2>1. ASSUME NEW g \in 1 .. Len(M.grants)
        PROVE  RewardKept(M, g)
    <3>1. /\ M.grants[g].granted = L.grants[g].granted
          /\ M.grants[g].revoked = L.grants[g].revoked
          /\ M.grants[g].remaining = L.grants[g].remaining
               + HeldReward(L.reqs[id], Holding, g) - HeldReward(M.reqs[id], Holding, g)
          /\ M.grants[g].remaining >= 0
      BY <1>2, <2>1 DEF Moves, Sound
    <3>2. RewardKept(L, g)
      BY <1>2, <2>1 DEF Kept, RewardsKept
    <3>3. g \in GrantIds /\ L.grants[g].remaining \in Int
      BY <1>1, <1>2, <2>1, Typed
    <3>4. /\ GrantDays(M, Holding, g) = GrantDays(L, Holding, g)
               - HeldReward(L.reqs[id], Holding, g) + HeldReward(M.reqs[id], Holding, g)
          /\ GrantDays(L, Holding, g) \in Int
          /\ HeldReward(L.reqs[id], Holding, g) \in Int /\ HeldReward(M.reqs[id], Holding, g) \in Int
      <4>1. GrantDays(M, Holding, g) = GrantDays(L, Holding, g)
               - HeldReward(L.reqs[id], Holding, g) + HeldReward(M.reqs[id], Holding, g)
        BY <1>10, <3>3 DEF SumsFollow
      <4>2. GrantDays(L, Holding, g) \in Int
        BY <1>1, <3>3, DaysInt
      <4>3. HeldReward(L.reqs[id], Holding, g) \in Nat /\ HeldReward(M.reqs[id], Holding, g) \in Nat
        BY <1>1, <3>3, HeldInt
      <4> QED  BY <4>1, <4>2, <4>3
    <3>5. M.grants[g].remaining + GrantDays(M, Holding, g)
            = L.grants[g].remaining + GrantDays(L, Holding, g)
      BY <3>1, <3>3, <3>4
    <3> QED
      BY <3>1, <3>2, <3>5 DEF RewardKept
  <2> QED  BY <2>1 DEF RewardsKept
<1>8. CoveredKept(M)
  BY DEF Kept, CoveredKept, Moves, Sound
<1> QED
  BY <1>1, <1>3, <1>4, <1>5, <1>6, <1>7, <1>8 DEF Kept

IsMinus(m, f, S) == \A x \in S : m[x] = 0 - f[x] /\ (m[x] # 0 => f[x] > 0)

\* The days that a reversal posts.
LEMMA MinusDays ==
  ASSUME NEW S, NEW f \in [S -> Nat]
  PROVE  Minus(f) \in [S -> Int] /\ IsMinus(Minus(f), f, S)
<1>1. Minus(f) = [x \in S |-> -f[x]] /\ \A x \in S : f[x] \in Nat
  BY DEF Minus
<1> QED
  BY <1>1 DEF IsMinus

\* A closed request holds nothing.
LEMMA NothingHeld ==
  /\ NoDays \in [Years -> Nat] /\ NoReward \in [GrantIds -> Nat]
  /\ \A y \in Years : NoDays[y] = 0
  /\ \A g \in GrantIds : NoReward[g] = 0
BY DEF NoDays, NoReward

\* _revert_allocations.
RefundDone(L, M, id, status) ==
  /\ Moves(L, M, id) /\ Sound(L, M, id)
  /\ M.reqs = [L.reqs EXCEPT ![id] = M.reqs[id]]
  /\ M.reqs[id].status = status
  /\ M.reqs[id].year = NoDays /\ M.reqs[id].grant = NoReward
  /\ \A g \in 1 .. Len(L.grants) : M.grants[g].remaining >= L.grants[g].remaining

\* Reverting the allocations of a request moves them out of the books.
LEMMA RefundMoves ==
  ASSUME NEW L, Kept(L), NEW id \in Ids, NEW status \in Statuses,
         L.reqs[id].status \in Holding, BalancesExist(L, id)
  PROVE  RefundDone(L, Refunded(L, id, status), id, status)
<1> DEFINE M == Refunded(L, id, status)
           r == L.reqs[id]
           col == IF r.status = "PENDING" THEN "pending" ELSE "used"
<1>1. TypedBooks(L) /\ L.reqs \in Reqs /\ r \in Request
      /\ r.year \in [Years -> Nat] /\ r.grant \in [GrantIds -> Nat]
      /\ L.bal \in [Years -> Bal \cup {NoBalance}]
      /\ L.grants \in Seq(Grant) /\ Len(L.grants) <= MaxGrants
      /\ Len(L.grants) \in Nat /\ 1 .. Len(L.grants) \subseteq GrantIds
  BY Typed DEF Kept, TypedBooks
<1>2. /\ M.bal = Post(L.bal, col, Minus(r.year))
      /\ M.grants = PostReward(L.grants, r.grant)
      /\ M.reqs = [L.reqs EXCEPT ![id].status = status,
                                 ![id].year = NoDays, ![id].grant = NoReward]
  BY DEF Refunded
<1>3. /\ M.reqs[id].status = status
      /\ M.reqs[id].year = NoDays /\ M.reqs[id].grant = NoReward
      /\ M.reqs[id] \in Request
      /\ M.reqs \in Reqs
      /\ M.reqs = [L.reqs EXCEPT ![id] = M.reqs[id]]
      /\ \A i \in Ids \ {id} : M.reqs[i] = L.reqs[i]
  <2> DEFINE T == Request
             q == [r EXCEPT !.status = status, !.year = NoDays, !.grant = NoReward]
  <2>1. q \in Request /\ q.status = status /\ q.year = NoDays /\ q.grant = NoReward
    BY <1>1, NothingHeld DEF Request
  <2>2. L.reqs \in [Ids -> T]
    BY <1>1 DEF Reqs
  <2>3. M.reqs = [L.reqs EXCEPT ![id] = q]
    BY <1>2
  <2> HIDE DEF q, T, M
  <2>4. M.reqs[id] = q /\ \A i \in Ids \ {id} : M.reqs[i] = L.reqs[i]
    BY <2>2, <2>3
  <2>5. M.reqs \in [Ids -> T]
    BY <2>1, <2>2, <2>3 DEF T
  <2> QED
    BY <2>1, <2>3, <2>4, <2>5 DEF Reqs, T
<1>4. /\ Minus(r.year) \in [Years -> Int]
      /\ \A y \in Years : Minus(r.year)[y] = 0 - r.year[y]
      /\ \A y \in Years : Minus(r.year)[y] # 0 => L.bal[y] # NoBalance
  <2>1. Minus(r.year) \in [Years -> Int] /\ IsMinus(Minus(r.year), r.year, Years)
    <3> HIDE DEF r
    <3> QED  BY <1>1, MinusDays
  <2>2. \A y \in Years : r.year[y] > 0 => L.bal[y] # NoBalance
    BY DEF BalancesExist
  <2> DEFINE m == Minus(r.year)
  <2> HIDE DEF r, m
  <2>3. \A y \in Years : m[y] = 0 - r.year[y] /\ (m[y] # 0 => r.year[y] > 0)
    BY <2>1 DEF IsMinus, m
  <2> QED
    BY <2>1, <2>2, <2>3 DEF m
<1>5. /\ M.bal \in [Years -> Bal \cup {NoBalance}]
      /\ \A y \in Years :
              /\ M.bal[y] = NoBalance <=> L.bal[y] = NoBalance
              /\ L.bal[y] # NoBalance =>
                   /\ M.bal[y] \in Bal
                   /\ L.bal[y] \in Bal
                   /\ M.bal[y].granted = L.bal[y].granted
                   /\ M.bal[y].used =
                        L.bal[y].used + (IF col = "used" THEN 0 - r.year[y] ELSE 0)
                   /\ M.bal[y].pending =
                        L.bal[y].pending + (IF col = "pending" THEN 0 - r.year[y] ELSE 0)
  <2>1. col \in {"used", "pending"}
    OBVIOUS
  <2>2. RowsPosted(L.bal, Post(L.bal, col, Minus(r.year)), col, Minus(r.year))
    <3> HIDE DEF col, M, r
    <3> QED  BY <1>1, <1>4, <2>1, PostRows
  <2> HIDE DEF col, M, r
  <2> QED
    BY <1>2, <1>4, <2>2 DEF RowsPosted
<1>6. /\ M.grants \in Seq(Grant)
      /\ Len(M.grants) = Len(L.grants)
      /\ \A g \in 1 .. Len(L.grants) :
              /\ M.grants[g].granted = L.grants[g].granted
              /\ M.grants[g].revoked = L.grants[g].revoked
              /\ M.grants[g].remaining = L.grants[g].remaining + r.grant[g]
              /\ r.grant[g] \in Nat /\ L.grants[g].remaining \in Int
  <2>1. \A g \in 1 .. Len(L.grants) : r.grant[g] \in Int /\ r.grant[g] \in Nat
    <3>1. \A g \in GrantIds : r.grant[g] \in Nat
      <4> HIDE DEF r
      <4> QED  BY <1>1
    <3>2. \A g \in 1 .. Len(L.grants) : g \in GrantIds
      BY <1>1
    <3> HIDE DEF r
    <3> QED  BY <3>1, <3>2
  <2>2. \A g \in 1 .. Len(L.grants) : L.grants[g].remaining \in Int
    BY <1>1, GrantRows
  <2> HIDE DEF M, r
  <2>3. RewardsPosted(L.grants, PostReward(L.grants, r.grant), r.grant)
    BY <1>1, <2>1, PostRewardRows
  <2> QED
    BY <1>2, <2>1, <2>2, <2>3 DEF RewardsPosted
<1> HIDE DEF M
<1>7. TypedBooks(M)
  BY <1>1, <1>3, <1>5, <1>6 DEF TypedBooks
<1>8. /\ \A S, y : Held(M.reqs[id], S, y) = IF status \in S THEN NoDays[y] ELSE 0
      /\ \A S, g : HeldReward(M.reqs[id], S, g) = IF status \in S THEN NoReward[g] ELSE 0
  BY <1>3 DEF Held, HeldReward
<1>9. ASSUME NEW y \in Years, L.bal[y] # NoBalance
      PROVE  /\ M.bal[y].pending = L.bal[y].pending - Held(r, Waiting, y) + Held(M.reqs[id], Waiting, y)
             /\ M.bal[y].used = L.bal[y].used - Held(r, Granted, y) + Held(M.reqs[id], Granted, y)
             /\ Covered(L.bal[y]) => Covered(M.bal[y])
  <2>1. Held(M.reqs[id], Waiting, y) = 0 /\ Held(M.reqs[id], Granted, y) = 0
    BY <1>8, NothingHeld
  <2>2. L.bal[y].pending \in Int /\ L.bal[y].used \in Int /\ L.bal[y].granted \in Int /\ r.year[y] \in Nat
    BY <1>1, <1>5, <1>9 DEF Bal
  <2>3. /\ M.bal[y].pending = L.bal[y].pending - Held(r, Waiting, y)
        /\ M.bal[y].used = L.bal[y].used - Held(r, Granted, y)
        /\ Held(r, Waiting, y) \in Nat /\ Held(r, Granted, y) \in Nat
    <3>1. CASE r.status = "PENDING"
      BY <1>5, <1>9, <2>2, <3>1 DEF Held, Waiting, Granted
    <3>2. CASE r.status = "APPROVED"
      BY <1>5, <1>9, <2>2, <3>2 DEF Held, Waiting, Granted
    <3> QED  BY <3>1, <3>2 DEF Holding
  <2> HIDE DEF r
  <2>4. M.bal[y].granted = L.bal[y].granted
    BY <1>5, <1>9
  <2> QED
    BY <2>1, <2>2, <2>3, <2>4 DEF Covered
<1>10. ASSUME NEW g \in 1 .. Len(L.grants)
       PROVE  M.grants[g].remaining = L.grants[g].remaining
               + HeldReward(L.reqs[id], Holding, g) - HeldReward(M.reqs[id], Holding, g)
  <2>1. g \in GrantIds
    BY <1>1
  <2>2. HeldReward(M.reqs[id], Holding, g) = 0
    BY <1>8, <2>1, NothingHeld
  <2>3. HeldReward(L.reqs[id], Holding, g) = r.grant[g]
    BY DEF HeldReward
  <2> QED
    BY <1>6, <2>2, <2>3
<1>11. Moves(L, M, id)
  BY <1>3, <1>5, <1>6, <1>7, <1>9, <1>10 DEF Moves
<1>12. \A g \in 1 .. Len(L.grants) : L.grants[g].remaining >= 0
  BY DEF Kept, RewardsKept, RewardKept
<1>13. Sound(L, M, id)
  <2>1. /\ \A y \in Years : ~ (M.reqs[id].year[y] > 0)
        /\ \A g \in GrantIds : M.reqs[id].grant[g] = 0
    BY <1>3, NothingHeld
  <2>2. ASSUME NEW g \in 1 .. Len(L.grants)
        PROVE  M.grants[g].remaining >= 0
    <3>1. M.grants[g].remaining = L.grants[g].remaining + r.grant[g] /\ r.grant[g] \in Nat
          /\ L.grants[g].remaining \in Int /\ L.grants[g].remaining >= 0
      BY <1>6, <1>12
    <3> QED  BY <3>1
  <2> QED
    BY <1>9, <2>1, <2>2 DEF Sound
<1>14. \A g \in 1 .. Len(L.grants) : M.grants[g].remaining >= L.grants[g].remaining
  <2>1. ASSUME NEW g \in 1 .. Len(L.grants)
        PROVE  M.grants[g].remaining >= L.grants[g].remaining
    <3>1. M.grants[g].remaining = L.grants[g].remaining + r.grant[g] /\ r.grant[g] \in Nat
          /\ L.grants[g].remaining \in Int
      BY <1>6
    <3> QED  BY <3>1
  <2> QED  BY <2>1
<1> QED
  BY <1>3, <1>11, <1>13, <1>14 DEF RefundDone, M

\* A request that takes reward days: its years have nothing left, nor have the
\* older rewards.
InOrder(b, gr, r) ==
  \A g \in GrantIds : r.grant[g] > 0 =>
    /\ \E y \in Years : r.need[y] > r.year[y]
    /\ \A y \in Years : r.need[y] > r.year[y] => Remaining(b[y]) <= 0
    /\ \A h \in 1 .. g - 1 : Usable(gr, h) = 0

\* _apply_allocations.
ChargeDone(L, M, id) ==
  /\ Moves(L, M, id) /\ Sound(L, M, id)
  /\ M.reqs = [L.reqs EXCEPT ![id] = M.reqs[id]]
  /\ Uncorrected(M.reqs[id]) => Takes(M.reqs[id])
  /\ InOrder(M.bal, M.grants, M.reqs[id])
  /\ \A g \in 1 .. Len(L.grants) :
       L.grants[g].revoked => M.grants[g].remaining = L.grants[g].remaining

HoldsNothing(r) == /\ \A S : \A y \in Years : S \subseteq Holding => Held(r, S, y) = 0
                   /\ \A S : \A g \in GrantIds : S \subseteq Holding => HeldReward(r, S, g) = 0

\* What applying a plan does, whenever the days of the plan are there.
ChargePosted(L, M, id, need, p) ==
  /\ Moves(L, M, id) /\ Sound(L, M, id)
  /\ M.reqs = [L.reqs EXCEPT ![id] = M.reqs[id]]
  /\ M.reqs[id] = [status |-> "PENDING", need |-> need, year |-> p.year, grant |-> p.grant]
  /\ \A y \in Years : L.bal[y] # NoBalance =>
       /\ Remaining(M.bal[y]) = Remaining(L.bal[y]) - p.year[y]
       /\ Remaining(L.bal[y]) \in Int
       /\ Covered(L.bal[y]) => Remaining(L.bal[y]) >= 0
  /\ \A g \in 1 .. Len(L.grants) :
       /\ L.grants[g].revoked => M.grants[g].remaining = L.grants[g].remaining
       /\ p.grant[g] = Usable(L.grants, g) => Usable(M.grants, g) = 0

\* Applying a plan to a request that holds nothing moves it into the books.
LEMMA ChargePosts ==
  ASSUME NEW L, Kept(L), NEW id \in Ids, NEW need \in [Years -> Nat],
         HoldsNothing(L.reqs[id]), NEW p, PlanCovered(L, p)
  PROVE  ChargePosted(L, Charged(L, id, need, p), id, need, p)
<1> DEFINE M == Charged(L, id, need, p)
           q == [status |-> "PENDING", need |-> need, year |-> p.year, grant |-> p.grant]
           m == Minus(p.grant)
<1>1. /\ TypedBooks(L) /\ L.reqs \in Reqs
      /\ L.bal \in [Years -> Bal \cup {NoBalance}]
      /\ L.grants \in Seq(Grant) /\ Len(L.grants) <= MaxGrants
      /\ Len(L.grants) \in Nat
  BY Typed DEF Kept, TypedBooks
<1>2. \A g \in 1 .. Len(L.grants) : g \in GrantIds
  BY <1>1, Typed
<1>4. p.year \in [Years -> Nat] /\ p.grant \in [GrantIds -> Nat]
  BY DEF PlanCovered
<1>5. /\ M.bal = Post(L.bal, "pending", p.year)
      /\ M.grants = PostReward(L.grants, m)
      /\ M.reqs = [L.reqs EXCEPT ![id] = q]
  BY DEF Charged
<1>6. /\ M.reqs[id] = q /\ q \in Request
      /\ M.reqs \in Reqs
      /\ M.reqs = [L.reqs EXCEPT ![id] = M.reqs[id]]
      /\ \A i \in Ids \ {id} : M.reqs[i] = L.reqs[i]
  <2>1. q \in Request
    BY <1>4 DEF Request, Statuses
  <2> DEFINE T == Request
  <2>2. L.reqs \in [Ids -> T]
    BY <1>1 DEF Reqs
  <2> HIDE DEF q, T, M
  <2>4. M.reqs[id] = q /\ \A i \in Ids \ {id} : M.reqs[i] = L.reqs[i]
    BY <1>5, <2>2
  <2>5. M.reqs \in [Ids -> T]
    BY <1>5, <2>1, <2>2 DEF T
  <2> QED
    BY <1>5, <2>1, <2>4, <2>5 DEF Reqs, T
<1>7. ASSUME NEW y \in Years
      PROVE  /\ p.year[y] \in Nat
             /\ p.year[y] > 0 => L.bal[y] # NoBalance /\ p.year[y] <= Remaining(L.bal[y])
  BY <1>4 DEF PlanCovered
<1>8. RowsPosted(L.bal, M.bal, "pending", p.year)
  <2>1. p.year \in [Years -> Int]
    BY <1>4
  <2>2. \A z \in Years : p.year[z] # 0 => p.year[z] > 0
    BY <1>7
  <2>3. \A z \in Years : p.year[z] # 0 => L.bal[z] # NoBalance
    BY <1>7, <2>2
  <2> HIDE DEF M
  <2> QED  BY <1>1, <1>5, <2>1, <2>3, PostRows
<1>9. ASSUME NEW y \in Years
      PROVE  /\ M.bal[y] = NoBalance <=> L.bal[y] = NoBalance
             /\ L.bal[y] # NoBalance =>
                  /\ M.bal[y].granted = L.bal[y].granted
                  /\ M.bal[y].used = L.bal[y].used
                  /\ M.bal[y].pending = L.bal[y].pending + p.year[y]
                  /\ L.bal[y].granted \in Int /\ L.bal[y].used \in Int /\ L.bal[y].pending \in Int
  <2>2. L.bal[y] # NoBalance => L.bal[y] \in Bal
    BY <1>1
  <2> HIDE DEF M
  <2> QED
    BY <1>8, <2>2 DEF RowsPosted, Bal
<1>10. M.bal \in [Years -> Bal \cup {NoBalance}]
  BY <1>8 DEF RowsPosted
<1>11. \A g \in GrantIds : m[g] = 0 - p.grant[g] /\ p.grant[g] \in Nat
  <2>1. IsMinus(m, p.grant, GrantIds)
    BY <1>4, MinusDays
  <2> HIDE DEF m
  <2> QED  BY <1>4, <2>1 DEF IsMinus
<1>12. RewardsPosted(L.grants, M.grants, m)
  <2>1. \A g \in 1 .. Len(L.grants) : m[g] \in Int
    <3> HIDE DEF m
    <3> QED  BY <1>2, <1>11
  <2> HIDE DEF M, m
  <2> QED
    BY <1>1, <1>5, <2>1, PostRewardRows
<1> HIDE DEF M, m
<1>13. ASSUME NEW g \in 1 .. Len(L.grants)
       PROVE  /\ M.grants[g].granted = L.grants[g].granted
              /\ M.grants[g].revoked = L.grants[g].revoked
              /\ M.grants[g].remaining = L.grants[g].remaining - p.grant[g]
              /\ p.grant[g] \in Nat /\ L.grants[g].remaining \in Int
              /\ L.grants[g].remaining >= 0
              /\ L.grants[g].revoked => p.grant[g] = 0
              /\ M.grants[g].remaining >= 0
              /\ p.grant[g] = Usable(L.grants, g) => Usable(M.grants, g) = 0
  <2>1. /\ M.grants[g].granted = L.grants[g].granted
        /\ M.grants[g].revoked = L.grants[g].revoked
        /\ M.grants[g].remaining = L.grants[g].remaining + m[g]
    BY <1>12 DEF RewardsPosted
  <2>2. m[g] = 0 - p.grant[g] /\ p.grant[g] \in Nat
    BY <1>2, <1>11
  <2>3. L.grants[g].remaining \in Int /\ L.grants[g].revoked \in BOOLEAN
    BY <1>1, GrantRows
  <2>4. L.grants[g].remaining >= 0
    BY DEF Kept, RewardsKept, RewardKept
  <2>5. p.grant[g] <= Usable(L.grants, g)
    BY DEF PlanCovered
  <2>6. /\ M.grants[g].remaining = L.grants[g].remaining - p.grant[g]
    BY <2>1, <2>2, <2>3
  <2>7. CASE L.grants[g].revoked
    BY <2>1, <2>2, <2>3, <2>4, <2>5, <2>6, <2>7 DEF Usable
  <2>8. CASE ~ L.grants[g].revoked
    <3>1. Usable(L.grants, g) = L.grants[g].remaining
      BY <2>3, <2>4, <2>8 DEF Usable
    <3>2. p.grant[g] = Usable(L.grants, g) => M.grants[g].remaining = 0
      BY <2>2, <2>3, <2>6, <3>1
    <3>3. p.grant[g] = Usable(L.grants, g) => Usable(M.grants, g) = 0
      BY <2>1, <2>8, <3>2 DEF Usable
    <3> QED
      BY <2>1, <2>2, <2>3, <2>4, <2>5, <2>6, <2>8, <3>1, <3>3
  <2> QED
    BY <2>7, <2>8
<1>14. M.grants \in Seq(Grant) /\ Len(M.grants) = Len(L.grants)
  BY <1>12 DEF RewardsPosted
<1>15. TypedBooks(M)
  BY <1>1, <1>6, <1>10, <1>14 DEF TypedBooks
<1>16. /\ \A y \in Years : /\ Held(L.reqs[id], Waiting, y) = 0 /\ Held(L.reqs[id], Granted, y) = 0
                           /\ Held(M.reqs[id], Waiting, y) = p.year[y]
                           /\ Held(M.reqs[id], Granted, y) = 0
       /\ \A g \in GrantIds : /\ HeldReward(L.reqs[id], Holding, g) = 0
                              /\ HeldReward(M.reqs[id], Holding, g) = p.grant[g]
  <2>1. Waiting \subseteq Holding /\ Granted \subseteq Holding
        /\ "PENDING" \in Waiting /\ "PENDING" \notin Granted /\ "PENDING" \in Holding
    BY DEF Waiting, Granted, Holding
  <2> QED
    BY <1>6, <2>1 DEF HoldsNothing, Held, HeldReward
<1>17. Moves(L, M, id)
  <2>1. ASSUME NEW y \in Years, L.bal[y] # NoBalance
        PROVE  /\ M.bal[y].granted = L.bal[y].granted
               /\ M.bal[y].pending = L.bal[y].pending
                   - Held(L.reqs[id], Waiting, y) + Held(M.reqs[id], Waiting, y)
               /\ M.bal[y].used = L.bal[y].used
                   - Held(L.reqs[id], Granted, y) + Held(M.reqs[id], Granted, y)
    <3>1. /\ Held(L.reqs[id], Waiting, y) = 0 /\ Held(L.reqs[id], Granted, y) = 0
          /\ Held(M.reqs[id], Waiting, y) = p.year[y]
          /\ Held(M.reqs[id], Granted, y) = 0
      BY <1>16
    <3> QED
      BY <1>9, <2>1, <3>1
  <2>2. ASSUME NEW g \in 1 .. Len(L.grants)
        PROVE  M.grants[g].remaining = L.grants[g].remaining
            + HeldReward(L.reqs[id], Holding, g) - HeldReward(M.reqs[id], Holding, g)
    <3>1. HeldReward(L.reqs[id], Holding, g) = 0 /\ HeldReward(M.reqs[id], Holding, g) = p.grant[g]
      BY <1>2, <1>16
    <3> QED
      BY <1>13, <3>1
  <2> QED
    BY <1>6, <1>9, <1>13, <1>14, <1>15, <2>1, <2>2 DEF Moves
<1>18. M.reqs[id].need = need /\ M.reqs[id].year = p.year /\ M.reqs[id].grant = p.grant
  BY <1>6
<1>19. ASSUME NEW y \in Years, L.bal[y] # NoBalance
       PROVE  /\ Remaining(M.bal[y]) = Remaining(L.bal[y]) - p.year[y]
              /\ Remaining(L.bal[y]) \in Int
              /\ Covered(L.bal[y]) => Covered(M.bal[y]) /\ Remaining(L.bal[y]) >= 0
  <2>1. /\ M.bal[y].granted = L.bal[y].granted
        /\ M.bal[y].used = L.bal[y].used
        /\ M.bal[y].pending = L.bal[y].pending + p.year[y]
        /\ L.bal[y].granted \in Int /\ L.bal[y].used \in Int /\ L.bal[y].pending \in Int
        /\ p.year[y] \in Nat
        /\ p.year[y] > 0 => p.year[y] <= Remaining(L.bal[y])
    BY <1>7, <1>9, <1>19
  <2> QED
    BY <2>1 DEF Remaining, Covered
<1>20. Sound(L, M, id)
  <2>1. \A y \in Years : M.reqs[id].year[y] > 0 => L.bal[y] # NoBalance
    BY <1>7, <1>18
  <2>2. \A g \in GrantIds : g > Len(L.grants) => M.reqs[id].grant[g] = 0
    BY <1>18 DEF PlanCovered
  <2> QED
    BY <1>13, <1>19, <2>1, <2>2 DEF Sound
<1> QED
  BY <1>6, <1>13, <1>17, <1>19, <1>20 DEF ChargePosted, M

\* Applying the plan of a request that holds nothing moves it into the books.
LEMMA ChargeMoves ==
  ASSUME NEW L, Kept(L), NEW id \in Ids, NEW need \in [Years -> Nat],
         HoldsNothing(L.reqs[id]), CanCharge(L, need)
  PROVE  ChargeDone(L, Charged(L, id, need, Plan(L, need)), id)
<1> DEFINE p == Plan(L, need)
           M == Charged(L, id, need, p)
<1>1. Len(L.grants) \in Nat
  BY Typed DEF Kept
<1>2. PlanFits(L, need, p) /\ PlanCovered(L, p)
  BY PlanIsFit DEF Kept, PlanFits
<1>3. ChargePosted(L, M, id, need, p)
  BY <1>2, ChargePosts
<1> HIDE DEF p, M
<1>4. /\ M.reqs[id].need = need /\ M.reqs[id].year = p.year /\ M.reqs[id].grant = p.grant
  BY <1>3 DEF ChargePosted
<1>5. ASSUME NEW y \in Years, L.bal[y] # NoBalance
      PROVE  /\ Remaining(M.bal[y]) = Remaining(L.bal[y]) - p.year[y]
             /\ Covered(L.bal[y]) => Remaining(L.bal[y]) >= 0
  BY <1>3, <1>5 DEF ChargePosted
<1>6. ASSUME Uncorrected(M.reqs[id])
      PROVE  Takes(M.reqs[id])
  <2>1. ASSUME NEW y \in Years, need[y] > 0
        PROVE  Remaining(L.bal[y]) >= 0
    <3>1. L.bal[y] # NoBalance
      BY <2>1 DEF CanCharge
    <3>2. y \notin Correctable
      <4>1. y \in Correctable => need[y] = 0
        BY <1>4, <1>6 DEF Uncorrected
      <4> QED  BY <2>1, <4>1
    <3>3. Covered(L.bal[y])
      BY <3>1, <3>2 DEF Kept, CoveredKept
    <3> QED
      BY <1>5, <3>1, <3>3
  <2> QED
    BY <1>2, <1>4, <2>1 DEF PlanFits, Takes
<1>7. ASSUME NEW g \in GrantIds, p.grant[g] > 0
      PROVE  /\ \E y \in Years : need[y] > p.year[y]
             /\ \A y \in Years : need[y] > p.year[y] => Remaining(M.bal[y]) <= 0
             /\ \A h \in 1 .. g - 1 : Usable(M.grants, h) = 0
  <2>1. g \in 1 .. Len(L.grants)
    <3>1. g > Len(L.grants) => p.grant[g] = 0
      BY <1>2 DEF PlanCovered
    <3>2. g \in Nat /\ g >= 1
      BY RulesAssumption DEF GrantIds
    <3> QED
      BY <1>1, <1>7, <3>1, <3>2
  <2>2. /\ \E y \in Years : need[y] > p.year[y]
        /\ \A h \in 1 .. g - 1 : p.grant[h] = Usable(L.grants, h)
    BY <1>2, <1>7, <2>1 DEF PlanFits
  <2>3. ASSUME NEW y \in Years, need[y] > p.year[y]
        PROVE  Remaining(M.bal[y]) <= 0
    <3>1. L.bal[y] # NoBalance /\ Remaining(L.bal[y]) - p.year[y] <= 0
      BY <1>2, <2>3 DEF PlanFits
    <3> QED
      BY <1>5, <3>1
  <2>4. ASSUME NEW h \in 1 .. g - 1
        PROVE  Usable(M.grants, h) = 0
    <3>1. h \in 1 .. Len(L.grants)
      BY <1>1, <2>1
    <3> QED
      BY <1>3, <2>2, <3>1 DEF ChargePosted
  <2> QED
    BY <2>2, <2>3, <2>4
<1>8. InOrder(M.bal, M.grants, M.reqs[id])
  BY <1>4, <1>7 DEF InOrder
<1> QED
  BY <1>3, <1>6, <1>8 DEF ChargePosted, ChargeDone, M, p

ApproveDone(L, M, id) ==
  /\ Moves(L, M, id) /\ Sound(L, M, id)
  /\ M.grants = L.grants
  /\ M.reqs = [L.reqs EXCEPT ![id] = M.reqs[id]]
  /\ M.reqs[id].status = "APPROVED"
  /\ M.reqs[id].need = L.reqs[id].need
  /\ M.reqs[id].year = L.reqs[id].year
  /\ M.reqs[id].grant = L.reqs[id].grant

\* An approval moves the days of the request from pending to used.
LEMMA ApproveMoves ==
  ASSUME NEW L, Kept(L), NEW id \in Ids, L.reqs[id].status = "PENDING",
         BalancesExist(L, id)
  PROVE  ApproveDone(L, Approved(L, id), id)
<1> DEFINE r == L.reqs[id]
           m == Minus(r.year)
           half == Post(L.bal, "pending", m)
           M == Approved(L, id)
           q == [r EXCEPT !.status = "APPROVED"]
<1>1. /\ TypedBooks(L) /\ L.reqs \in Reqs /\ r \in Request
      /\ r.year \in [Years -> Nat] /\ r.grant \in [GrantIds -> Nat]
      /\ L.bal \in [Years -> Bal \cup {NoBalance}]
      /\ L.grants \in Seq(Grant) /\ Len(L.grants) <= MaxGrants
      /\ Len(L.grants) \in Nat
  BY Typed DEF Kept, TypedBooks
<1>2. /\ \A g \in 1 .. Len(L.grants) : g \in GrantIds /\ L.grants[g].remaining \in Int
      /\ \A y \in Years : L.bal[y] # NoBalance =>
           L.bal[y].granted \in Int /\ L.bal[y].used \in Int /\ L.bal[y].pending \in Int
  BY <1>1, Typed
<1>3. m \in [Years -> Int] /\ \A y \in Years : m[y] = 0 - r.year[y]
  <2>1. m \in [Years -> Int] /\ IsMinus(m, r.year, Years)
    <3> HIDE DEF r
    <3> QED  BY <1>1, MinusDays
  <2> HIDE DEF m
  <2> QED  BY <2>1 DEF IsMinus
<1>4. /\ r.year \in [Years -> Int]
      /\ \A y \in Years : r.year[y] \in Nat /\ (r.year[y] # 0 => L.bal[y] # NoBalance)
      /\ \A y \in Years : m[y] # 0 => L.bal[y] # NoBalance
  <2>1. \A y \in Years : r.year[y] > 0 => L.bal[y] # NoBalance
    BY DEF BalancesExist
  <2> HIDE DEF r, m
  <2>2. \A y \in Years : r.year[y] \in Nat /\ (m[y] # 0 => r.year[y] # 0) /\ (r.year[y] # 0 => r.year[y] > 0)
    BY <1>1, <1>3
  <2> QED  BY <1>1, <2>1, <2>2
<1>5. RowsPosted(L.bal, half, "pending", m)
  <2> HIDE DEF r, m
  <2> QED  BY <1>1, <1>3, <1>4, PostRows
<1>6. RowsPosted(half, Post(half, "used", r.year), "used", r.year)
  <2>1. half \in [Years -> Bal \cup {NoBalance}]
        /\ \A y \in Years : r.year[y] # 0 => half[y] # NoBalance
    <3> HIDE DEF half, r, m
    <3> QED  BY <1>4, <1>5 DEF RowsPosted
  <2> HIDE DEF half, r, m
  <2> QED  BY <1>4, <2>1, PostRows
<1>7. /\ M.bal = Post(half, "used", r.year)
      /\ M.grants = L.grants
      /\ M.reqs = [L.reqs EXCEPT ![id] = q]
  BY DEF Approved
<1>8. /\ M.reqs[id] = q /\ q \in Request
      /\ q.status = "APPROVED" /\ q.need = r.need /\ q.year = r.year /\ q.grant = r.grant
      /\ M.reqs \in Reqs
      /\ M.reqs = [L.reqs EXCEPT ![id] = M.reqs[id]]
      /\ \A i \in Ids \ {id} : M.reqs[i] = L.reqs[i]
  <2>1. q \in Request /\ q.status = "APPROVED" /\ q.need = r.need /\ q.year = r.year /\ q.grant = r.grant
    BY <1>1 DEF Request, Statuses
  <2> DEFINE T == Request
  <2>2. L.reqs \in [Ids -> T]
    BY <1>1 DEF Reqs
  <2> HIDE DEF q, T, M
  <2>4. M.reqs[id] = q /\ \A i \in Ids \ {id} : M.reqs[i] = L.reqs[i]
    BY <1>7, <2>2
  <2>5. M.reqs \in [Ids -> T]
    BY <1>7, <2>1, <2>2 DEF T
  <2> QED
    BY <1>7, <2>1, <2>4, <2>5 DEF Reqs, T
<1> HIDE DEF M, q
<1>9. /\ M.bal \in [Years -> Bal \cup {NoBalance}]
      /\ \A y \in Years :
           /\ M.bal[y] = NoBalance <=> L.bal[y] = NoBalance
           /\ L.bal[y] # NoBalance =>
                /\ M.bal[y].granted = L.bal[y].granted
                /\ M.bal[y].used = L.bal[y].used + r.year[y]
                /\ M.bal[y].pending = L.bal[y].pending - r.year[y]
  <2> HIDE DEF half, r, m
  <2>1. M.bal \in [Years -> Bal \cup {NoBalance}]
    BY <1>6, <1>7 DEF RowsPosted
  <2>2. ASSUME NEW y \in Years
        PROVE  /\ half[y] = NoBalance <=> L.bal[y] = NoBalance
               /\ M.bal[y] = NoBalance <=> half[y] = NoBalance
    BY <1>5, <1>6, <1>7 DEF RowsPosted
  <2>3. ASSUME NEW y \in Years, L.bal[y] # NoBalance
        PROVE  /\ M.bal[y].granted = L.bal[y].granted
               /\ M.bal[y].used = L.bal[y].used + r.year[y]
               /\ M.bal[y].pending = L.bal[y].pending - r.year[y]
    <3>1. /\ half[y].granted = L.bal[y].granted
          /\ half[y].used = L.bal[y].used + 0
          /\ half[y].pending = L.bal[y].pending + m[y]
      BY <1>5, <2>3 DEF RowsPosted
    <3>2. /\ M.bal[y].granted = half[y].granted
          /\ M.bal[y].used = half[y].used + r.year[y]
          /\ M.bal[y].pending = half[y].pending + 0
      BY <1>6, <1>7, <2>2, <2>3 DEF RowsPosted
    <3> QED
      BY <1>2, <1>3, <1>4, <2>3, <3>1, <3>2
  <2> QED
    BY <2>1, <2>2, <2>3
<1>10. TypedBooks(M)
  BY <1>1, <1>7, <1>8, <1>9 DEF TypedBooks
<1>11. /\ \A y : /\ Held(r, Waiting, y) = r.year[y] /\ Held(r, Granted, y) = 0
                 /\ Held(M.reqs[id], Waiting, y) = 0
                 /\ Held(M.reqs[id], Granted, y) = r.year[y]
       /\ \A g : /\ HeldReward(r, Holding, g) = r.grant[g]
                 /\ HeldReward(M.reqs[id], Holding, g) = r.grant[g]
  BY <1>8 DEF Held, HeldReward, Waiting, Granted, Holding
<1>12. ASSUME NEW y \in Years, L.bal[y] # NoBalance
       PROVE  /\ M.bal[y].granted = L.bal[y].granted
              /\ M.bal[y].pending = L.bal[y].pending
                   - Held(r, Waiting, y) + Held(M.reqs[id], Waiting, y)
              /\ M.bal[y].used = L.bal[y].used
                   - Held(r, Granted, y) + Held(M.reqs[id], Granted, y)
              /\ Covered(L.bal[y]) => Covered(M.bal[y])
  <2>1. /\ Held(r, Waiting, y) = r.year[y] /\ Held(r, Granted, y) = 0
        /\ Held(M.reqs[id], Waiting, y) = 0
        /\ Held(M.reqs[id], Granted, y) = r.year[y]
    BY <1>11
  <2>2. /\ M.bal[y].granted = L.bal[y].granted
        /\ M.bal[y].used = L.bal[y].used + r.year[y]
        /\ M.bal[y].pending = L.bal[y].pending - r.year[y]
        /\ L.bal[y].granted \in Int /\ L.bal[y].used \in Int /\ L.bal[y].pending \in Int
        /\ r.year[y] \in Nat
    BY <1>2, <1>4, <1>9, <1>12
  <2> HIDE DEF r
  <2> QED
    BY <2>1, <2>2 DEF Covered
<1>13. \A g \in 1 .. Len(L.grants) : M.grants[g].remaining = L.grants[g].remaining
            + HeldReward(r, Holding, g) - HeldReward(M.reqs[id], Holding, g)
  <2>1. ASSUME NEW g \in 1 .. Len(L.grants)
        PROVE  M.grants[g].remaining = L.grants[g].remaining
            + HeldReward(r, Holding, g) - HeldReward(M.reqs[id], Holding, g)
    <3>1. HeldReward(r, Holding, g) = r.grant[g] /\ HeldReward(M.reqs[id], Holding, g) = r.grant[g]
      BY <1>11
    <3>2. r.grant[g] \in Nat /\ L.grants[g].remaining \in Int
      BY <1>1, <1>2
    <3> HIDE DEF r
    <3> QED  BY <1>7, <3>1, <3>2
  <2> QED  BY <2>1
<1>14. Moves(L, M, id)
  BY <1>7, <1>8, <1>9, <1>10, <1>12, <1>13 DEF Moves
<1>15. Sound(L, M, id)
  <2>1. \A y \in Years : M.reqs[id].year[y] > 0 => L.bal[y] # NoBalance
    BY <1>8 DEF BalancesExist
  <2>2. \A g \in GrantIds : g > Len(L.grants) => M.reqs[id].grant[g] = 0
    BY <1>8 DEF Kept, NothingBeyond
  <2>3. \A g \in 1 .. Len(L.grants) : M.grants[g].remaining >= 0
    BY <1>7 DEF Kept, RewardsKept, RewardKept
  <2> QED
    BY <1>12, <2>1, <2>2, <2>3 DEF Sound
<1> QED
  BY <1>7, <1>8, <1>14, <1>15 DEF ApproveDone, M

-----------------------------------------------------------------------------
(***************************************************************************)
(* The administrators' operations.                                         *)
(***************************************************************************)
\* The sums depend on the requests alone.
LEMMA SameSums ==
  ASSUME NEW L, NEW M, M.reqs = L.reqs
  PROVE  /\ \A S : InBooks(M, S) = InBooks(L, S)
         /\ \A S, y : YearDays(M, S, y) = YearDays(L, S, y)
         /\ \A S, g : GrantDays(M, S, g) = GrantDays(L, S, g)
BY DEF InBooks, YearDays, GrantDays

\* The administrators' operations on the row of one year.
LEMMA RowChanged ==
  ASSUME NEW L, Kept(L), NEW M, NEW y \in Years, NEW b \in Bal \cup {NoBalance},
         M.bal = [L.bal EXCEPT ![y] = b], M.grants = L.grants, M.reqs = L.reqs,
         b = NoBalance => y \in Purgeable,
         b # NoBalance =>
           /\ y \notin Purgeable => b.pending = YearDays(L, Waiting, y)
           /\ y \notin ByHand => b.used = YearDays(L, Granted, y)
           /\ y \notin Correctable => Covered(b)
  PROVE  Kept(M)
<1>1. L.bal \in [Years -> Bal \cup {NoBalance}] /\ TypedBooks(L)
  BY DEF Kept, TypedBooks
<1>2. M.bal \in [Years -> Bal \cup {NoBalance}]
  BY <1>1
<1>3. M.bal[y] = b /\ \A z \in Years : z # y => M.bal[z] = L.bal[z]
  BY <1>1
<1>4. TypedBooks(M)
  BY <1>1, <1>2 DEF TypedBooks
<1>5. NothingBeyond(M)
  BY DEF Kept, NothingBeyond
<1>6. HeldExist(M)
  <2>1. ASSUME NEW z \in Years \ Purgeable, M.bal[z] = NoBalance
        PROVE  \A i \in Ids : M.reqs[i].year[z] = 0
    BY <1>3, <2>1 DEF Kept, HeldExist
  <2> QED  BY <2>1 DEF HeldExist
<1>7. \A S, z : YearDays(M, S, z) = YearDays(L, S, z)
  BY SameSums
<1>8. \A S, g : GrantDays(M, S, g) = GrantDays(L, S, g)
  BY SameSums
<1>9. PendingKept(M)
  <2>1. ASSUME NEW z \in Years \ Purgeable, M.bal[z] # NoBalance
        PROVE  M.bal[z].pending = YearDays(L, Waiting, z)
    BY <1>3, <2>1 DEF Kept, PendingKept
  <2> QED  BY <1>7, <2>1 DEF PendingKept
<1>10. UsedKept(M)
  <2>1. ASSUME NEW z \in Years \ ByHand, M.bal[z] # NoBalance
        PROVE  M.bal[z].used = YearDays(L, Granted, z)
    BY <1>3, <2>1 DEF Kept, UsedKept
  <2> QED  BY <1>7, <2>1 DEF UsedKept
<1>11. RewardsKept(M)
  BY <1>8 DEF Kept, RewardsKept, RewardKept
<1>12. CoveredKept(M)
  <2>1. ASSUME NEW z \in Years \ Correctable, M.bal[z] # NoBalance
        PROVE  Covered(M.bal[z])
    BY <1>3, <2>1 DEF Kept, CoveredKept
  <2> QED  BY <2>1 DEF CoveredKept
<1> QED
  BY <1>4, <1>5, <1>6, <1>9, <1>10, <1>11, <1>12 DEF Kept

\* initialize_balances: no request holds days of a year without a balance.
LEMMA InitializeKeeps ==
  ASSUME NEW L, Kept(L), NEW y \in Years, L.bal[y] = NoBalance, NEW days \in Nat
  PROVE  Kept(Initialized(L, y, days))
<1> DEFINE b == [granted |-> days, used |-> 0, pending |-> 0]
           M == Initialized(L, y, days)
<1>1. /\ M.bal = [L.bal EXCEPT ![y] = b] /\ M.grants = L.grants /\ M.reqs = L.reqs
  BY DEF Initialized
<1>2. b \in Bal /\ b.pending = 0 /\ b.used = 0 /\ Covered(b) /\ b # NoBalance
  BY RulesAssumption DEF Bal, Covered
<1>3. y \notin Purgeable => YearDays(L, Waiting, y) = 0 /\ YearDays(L, Granted, y) = 0
  <2>1. ASSUME y \notin Purgeable
        PROVE  \A i \in Ids : L.reqs[i].year[y] = 0
    BY <2>1 DEF Kept, HeldExist
  <2>2. L.reqs \in Reqs
    BY DEF Kept, TypedBooks
  <2> QED  BY <2>1, <2>2, DaysZero
<1>4. y \notin ByHand => y \notin Purgeable
  BY DEF ByHand
<1> HIDE DEF b, M
<1> QED
  BY <1>1, <1>2, <1>3, <1>4, RowChanged DEF M

\* An accrual only widens what is covered.
LEMMA AccrueKeeps ==
  ASSUME NEW L, Kept(L), NEW y \in Years, L.bal[y] # NoBalance, NEW days \in Nat
  PROVE  Kept(Accrued(L, y, days))
<1> DEFINE b == [L.bal[y] EXCEPT !.granted = L.bal[y].granted + days]
           M == Accrued(L, y, days)
<1>1. /\ M.bal = [L.bal EXCEPT ![y] = b] /\ M.grants = L.grants /\ M.reqs = L.reqs
  BY DEF Accrued
<1>2. L.bal[y] \in Bal
  BY Typed DEF Kept
<1>3. b \in Bal /\ b.pending = L.bal[y].pending /\ b.used = L.bal[y].used
      /\ b.granted = L.bal[y].granted + days /\ b # NoBalance
      /\ (Covered(L.bal[y]) => Covered(b))
  BY <1>2, RulesAssumption DEF Bal, Covered
<1>4. /\ y \notin Purgeable => b.pending = YearDays(L, Waiting, y)
      /\ y \notin ByHand => b.used = YearDays(L, Granted, y)
      /\ y \notin Correctable => Covered(b)
  <2> HIDE DEF b
  <2> QED  BY <1>3 DEF Kept, PendingKept, UsedKept, CoveredKept
<1> HIDE DEF b, M
<1> QED
  BY <1>1, <1>3, <1>4, RowChanged DEF M

\* bulk_update_used_days, in the years it is called for.
LEMMA SetUsedKeeps ==
  ASSUME NEW L, Kept(L), NEW y \in Correctable, L.bal[y] # NoBalance, NEW days \in Nat
  PROVE  Kept(UsedSetTo(L, y, days))
<1> DEFINE b == [L.bal[y] EXCEPT !.used = days]
           M == UsedSetTo(L, y, days)
<1>1. /\ M.bal = [L.bal EXCEPT ![y] = b] /\ M.grants = L.grants /\ M.reqs = L.reqs
  BY DEF UsedSetTo
<1>2. L.bal[y] \in Bal /\ y \in Years /\ y \in ByHand
  BY Typed, SetsFinite DEF Kept, ByHand
<1>3. b \in Bal /\ b.pending = L.bal[y].pending /\ b # NoBalance
  BY <1>2, RulesAssumption DEF Bal
<1>4. y \notin Purgeable => b.pending = YearDays(L, Waiting, y)
  <2> HIDE DEF b
  <2> QED  BY <1>2, <1>3 DEF Kept, PendingKept
<1> HIDE DEF b, M
<1> QED
  BY <1>1, <1>2, <1>3, <1>4, RowChanged DEF M

\* delete_all_balances, in the years it is called for.
LEMMA PurgeKeeps ==
  ASSUME NEW L, Kept(L), NEW y \in Purgeable
  PROVE  Kept(Purged(L, y))
<1> DEFINE M == Purged(L, y)
<1>1. /\ M.bal = [L.bal EXCEPT ![y] = NoBalance] /\ M.grants = L.grants /\ M.reqs = L.reqs
  BY DEF Purged
<1>2. y \in Years
  BY LedgerAssumption
<1> HIDE DEF M
<1> QED
  BY <1>1, <1>2, RowChanged DEF M

\* A change of the rewards alone.
LEMMA RewardsChanged ==
  ASSUME NEW L, Kept(L), NEW M, M.bal = L.bal, M.reqs = L.reqs,
         M.grants \in Seq(Grant), Len(M.grants) <= MaxGrants,
         Len(L.grants) <= Len(M.grants),
         \A g \in 1 .. Len(M.grants) : RewardKept(M, g)
  PROVE  Kept(M)
<1>1. TypedBooks(M)
  BY DEF Kept, TypedBooks
<1>2. NothingBeyond(M)
  <2>1. Len(L.grants) \in Nat /\ Len(M.grants) \in Nat
    BY Typed, GrantRows DEF Kept
  <2>2. ASSUME NEW i \in Ids, NEW g \in GrantIds, g > Len(M.grants)
        PROVE  M.reqs[i].grant[g] = 0
    <3>1. g \in Nat
      BY RulesAssumption DEF GrantIds
    <3>2. g > Len(L.grants)
      BY <2>1, <2>2, <3>1
    <3> QED  BY <3>2 DEF Kept, NothingBeyond
  <2> QED  BY <2>2 DEF NothingBeyond
<1>3. HeldExist(M)
  BY DEF Kept, HeldExist
<1>4. \A S, z : YearDays(M, S, z) = YearDays(L, S, z)
  BY SameSums
<1>5. PendingKept(M) /\ UsedKept(M) /\ CoveredKept(M)
  BY <1>4 DEF Kept, PendingKept, UsedKept, CoveredKept
<1> QED
  BY <1>1, <1>2, <1>3, <1>5 DEF Kept, RewardsKept

\* A new reward: no request holds anything of a row that does not exist.
LEMMA RewardKeeps ==
  ASSUME NEW L, Kept(L), NEW days \in Nat, Len(L.grants) < MaxGrants
  PROVE  /\ Kept(Rewarded(L, days))
         /\ \A g \in 1 .. Len(L.grants) : Rewarded(L, days).grants[g] = L.grants[g]
<1> DEFINE M == Rewarded(L, days)
           n == [granted |-> days, remaining |-> days, revoked |-> FALSE]
<1>1. M.grants = Append(L.grants, n) /\ M.bal = L.bal /\ M.reqs = L.reqs
  BY DEF Rewarded
<1>2. TypedBooks(L) /\ L.grants \in Seq(Grant) /\ Len(L.grants) \in Nat /\ MaxGrants \in Nat
      /\ L.reqs \in Reqs
  BY Typed DEF Kept, TypedBooks
<1>3. n \in Grant
  BY DEF Grant
<1>4. /\ M.grants \in Seq(Grant) /\ Len(M.grants) = Len(L.grants) + 1
      /\ \A g \in 1 .. Len(L.grants) : M.grants[g] = L.grants[g]
      /\ M.grants[Len(L.grants) + 1] = n
  <2> DEFINE T == Grant
  <2>1. L.grants \in Seq(T) /\ n \in T
    BY <1>2, <1>3
  <2> HIDE DEF M, n, T
  <2>2. /\ M.grants \in Seq(T) /\ Len(M.grants) = Len(L.grants) + 1
        /\ \A g \in 1 .. Len(L.grants) : M.grants[g] = L.grants[g]
        /\ M.grants[Len(L.grants) + 1] = n
    BY <1>1, <2>1
  <2> QED  BY <2>2 DEF T
<1>5. n.granted = days /\ n.remaining = days
  OBVIOUS
<1> HIDE DEF M, n
<1>6. \A S, g : GrantDays(M, S, g) = GrantDays(L, S, g)
  BY <1>1, SameSums
<1>7. ASSUME NEW g \in 1 .. Len(M.grants)
      PROVE  RewardKept(M, g)
  <2>1. CASE g \in 1 .. Len(L.grants)
    <3>1. M.grants[g] = L.grants[g] /\ RewardKept(L, g)
      BY <1>4, <2>1 DEF Kept, RewardsKept
    <3> QED
      BY <1>6, <3>1 DEF RewardKept
  <2>2. CASE g = Len(L.grants) + 1
    <3>1. M.grants[g] = n
      BY <1>4, <2>2
    <3>2. g \in GrantIds /\ g > Len(L.grants)
      BY <1>2, <2>2 DEF GrantIds
    <3>3. \A i \in Ids : L.reqs[i].grant[g] = 0
      BY <3>2 DEF Kept, NothingBeyond
    <3>4. GrantDays(L, Holding, g) = 0
      BY <1>2, <3>2, <3>3, DaysZero
    <3>5. GrantDays(M, Holding, g) = 0
      BY <1>6, <3>4
    <3> QED
      BY <1>5, <3>1, <3>5 DEF RewardKept
  <2> QED
    BY <1>2, <1>4, <2>1, <2>2
<1>8. Kept(M)
  <2>1. Len(M.grants) <= MaxGrants /\ Len(L.grants) <= Len(M.grants)
    BY <1>2, <1>4
  <2> QED  BY <1>1, <1>4, <1>7, <2>1, RewardsChanged
<1> QED
  BY <1>4, <1>8 DEF M

\* A revoked reward keeps nothing; what requests hold of it stays theirs.
LEMMA RevokeKeeps ==
  ASSUME NEW L, Kept(L), NEW g \in 1 .. Len(L.grants)
  PROVE  /\ Kept(Revoked(L, g))
         /\ \A h \in 1 .. Len(L.grants) : h # g => Revoked(L, g).grants[h] = L.grants[h]
<1> DEFINE M == Revoked(L, g)
           n == [L.grants[g] EXCEPT !.remaining = 0, !.revoked = TRUE]
<1>1. M.grants = [L.grants EXCEPT ![g] = n] /\ M.bal = L.bal /\ M.reqs = L.reqs
  <2>1. L.grants \in Seq(Grant) /\ g \in DOMAIN L.grants
    BY Typed DEF Kept, TypedBooks
  <2> DEFINE a  == [L.grants[g] EXCEPT !.remaining = 0]
             K  == [L EXCEPT !.grants[g].remaining = 0]
             gr == [L.grants EXCEPT ![g] = a]
  <2>2. K.grants = gr /\ K.bal = L.bal /\ K.reqs = L.reqs
    OBVIOUS
  <2>3. gr[g] = a
    BY <2>1
  <2>4. M = [K EXCEPT !.grants[g].revoked = TRUE]
    BY DEF Revoked
  <2>5. /\ M.grants = [gr EXCEPT ![g] = [gr[g] EXCEPT !.revoked = TRUE]]
        /\ M.bal = L.bal /\ M.reqs = L.reqs
    <3> HIDE DEF K, M, gr
    <3>1. /\ M.grants = [K.grants EXCEPT ![g] = [K.grants[g] EXCEPT !.revoked = TRUE]]
          /\ M.bal = K.bal /\ M.reqs = K.reqs
      BY <2>4
    <3> QED  BY <2>2, <3>1
  <2>6. n = [a EXCEPT !.revoked = TRUE]
    OBVIOUS
  <2>7. M.grants = [gr EXCEPT ![g] = n]
    <3> HIDE DEF M, gr, n, a
    <3> QED  BY <2>3, <2>5, <2>6
  <2>8. [gr EXCEPT ![g] = n] = [L.grants EXCEPT ![g] = n]
    <3> HIDE DEF n, a
    <3> QED  BY <2>1
  <2> QED
    BY <2>5, <2>7, <2>8
<1>2. L.grants \in Seq(Grant) /\ Len(L.grants) \in Nat /\ Len(L.grants) <= MaxGrants
      /\ L.reqs \in Reqs /\ L.grants[g] \in Grant /\ g \in GrantIds
      /\ L.grants[g].granted \in Nat /\ L.grants[g].remaining \in Int
  <2>1. TypedBooks(L) /\ L.grants \in Seq(Grant) /\ Len(L.grants) <= MaxGrants
    BY DEF Kept, TypedBooks
  <2>2. Len(L.grants) \in Nat /\ L.reqs \in Reqs /\ L.grants[g] \in Grant
        /\ L.grants[g].granted \in Nat /\ L.grants[g].remaining \in Int
    BY <2>1, Typed
  <2>3. g \in GrantIds
    BY <2>1, Typed
  <2> QED  BY <2>1, <2>2, <2>3
<1>3. n \in Grant /\ n.granted = L.grants[g].granted /\ n.remaining = 0 /\ n.revoked = TRUE
  <2>1. L.grants[g] \in Grant
    BY <1>2
  <2> DEFINE x == L.grants[g]
             a == [x EXCEPT !.remaining = 0]
  <2>2. n = [a EXCEPT !.revoked = TRUE]
    OBVIOUS
  <2>3. x \in Grant
    BY <2>1
  <2> HIDE DEF n, x
  <2>4. a \in Grant /\ a.granted = x.granted /\ a.remaining = 0
    BY <2>3 DEF Grant
  <2> HIDE DEF a
  <2>5. n \in Grant /\ n.granted = a.granted /\ n.remaining = a.remaining /\ n.revoked = TRUE
    BY <2>2, <2>4 DEF Grant
  <2> QED  BY <2>4, <2>5 DEF x
<1>4. /\ M.grants \in Seq(Grant) /\ Len(M.grants) = Len(L.grants)
      /\ \A h \in 1 .. Len(L.grants) : h # g => M.grants[h] = L.grants[h]
      /\ M.grants[g] = n
  <2> DEFINE T == Grant
  <2>1. L.grants \in Seq(T) /\ n \in T
    BY <1>2, <1>3
  <2> HIDE DEF M, n, T
  <2>2. /\ M.grants \in Seq(T) /\ Len(M.grants) = Len(L.grants)
        /\ \A h \in 1 .. Len(L.grants) : h # g => M.grants[h] = L.grants[h]
        /\ M.grants[g] = n
    BY <1>1, <2>1
  <2> QED  BY <2>2 DEF T
<1> HIDE DEF M, n
<1>6. \A S, h : GrantDays(M, S, h) = GrantDays(L, S, h)
  BY <1>1, SameSums
<1>7. ASSUME NEW h \in 1 .. Len(M.grants)
      PROVE  RewardKept(M, h)
  <2>1. RewardKept(L, h)
    BY <1>4 DEF Kept, RewardsKept
  <2>2. CASE h # g
    <3>1. M.grants[h] = L.grants[h]
      BY <1>4, <2>2
    <3> QED
      BY <1>6, <2>1, <3>1 DEF RewardKept
  <2>3. CASE h = g
    <3>1. M.grants[h] = n
      BY <1>4, <2>3
    <3>2. GrantDays(L, Holding, g) \in Int
      BY <1>2, DaysInt
    <3>3. GrantDays(M, Holding, g) = GrantDays(L, Holding, g)
      BY <1>6
    <3>4. GrantDays(L, Holding, g) <= L.grants[g].granted
      BY <1>2, <2>1, <2>3, <3>2 DEF RewardKept
    <3> QED
      BY <1>2, <1>3, <2>3, <3>1, <3>2, <3>3, <3>4 DEF RewardKept
  <2> QED
    BY <2>2, <2>3
<1>8. Kept(M)
  <2>1. Len(M.grants) <= MaxGrants /\ Len(L.grants) <= Len(M.grants)
    BY <1>2, <1>4
  <2> QED  BY <1>1, <1>4, <1>7, <2>1, RewardsChanged
<1> QED
  BY <1>4, <1>8 DEF M

-----------------------------------------------------------------------------
(***************************************************************************)
(* Every operation keeps the books, the days of every request and the      *)
(* order of spending.                                                      *)
(***************************************************************************)
\* What every operation does to the books.
KeepsOrder(L, M) ==
  /\ \A id \in Ids : M.reqs[id] # L.reqs[id] /\ M.reqs[id].status = "PENDING"
                       => InOrder(M.bal, M.grants, M.reqs[id])
  /\ \A g \in 1 .. Len(L.grants) :
       L.grants[g].revoked => M.grants[g].remaining >= L.grants[g].remaining

Steps(L, M) == Kept(M) /\ TakesKept(M) /\ KeepsOrder(L, M)

\* Rewriting one request leaves what the others take alone.
LEMMA OthersTake ==
  ASSUME NEW L, TakesKept(L), NEW M, NEW id \in Ids,
         \A i \in Ids \ {id} : M.reqs[i] = L.reqs[i],
         M.reqs[id].status \in Holding /\ Uncorrected(M.reqs[id]) => Takes(M.reqs[id])
  PROVE  TakesKept(M)
<1>1. ASSUME NEW i \in InBooks(M, Holding), Uncorrected(M.reqs[i])
      PROVE  Takes(M.reqs[i])
  <2>1. i \in Ids /\ M.reqs[i].status \in Holding
    BY DEF InBooks
  <2>2. CASE i = id
    BY <1>1, <2>1, <2>2
  <2>3. CASE i # id
    <3>1. M.reqs[i] = L.reqs[i]
      BY <2>1, <2>3
    <3>2. i \in InBooks(L, Holding)
      BY <2>1, <3>1 DEF InBooks
    <3> QED  BY <1>1, <3>1, <3>2 DEF TakesKept
  <2> QED  BY <2>2, <2>3
<1> QED
  BY <1>1 DEF TakesKept

\* The remaining days of a reward are an integer.
LEMMA RemainingInt ==
  ASSUME NEW L, Kept(L)
  PROVE  \A g \in 1 .. Len(L.grants) : L.grants[g].remaining \in Int
BY Typed DEF Kept

\* create_leave_request.
LEMMA CreateSteps ==
  ASSUME NEW L, Kept(L), TakesKept(L), NEW id \in Ids, NEW need \in [Years -> Nat],
         L.reqs[id].status = "NONE", CanCharge(L, need)
  PROVE  Steps(L, Charged(L, id, need, Plan(L, need)))
<1> DEFINE M == Charged(L, id, need, Plan(L, need))
<1>1. HoldsNothing(L.reqs[id])
  BY DEF HoldsNothing, Held, HeldReward, Holding
<1>2. ChargeDone(L, M, id)
  BY <1>1, ChargeMoves
<1> HIDE DEF M
<1>3. Kept(M)
  BY <1>2, MoveKeeps DEF ChargeDone
<1>4. \A i \in Ids \ {id} : M.reqs[i] = L.reqs[i]
  BY <1>2 DEF ChargeDone, Moves
<1>5. TakesKept(M)
  BY <1>2, <1>4, OthersTake DEF ChargeDone
<1>6. KeepsOrder(L, M)
  <2>1. ASSUME NEW i \in Ids, M.reqs[i] # L.reqs[i]
        PROVE  InOrder(M.bal, M.grants, M.reqs[i])
    <3>1. i = id
      BY <1>4, <2>1
    <3> QED  BY <1>2, <3>1 DEF ChargeDone
  <2>2. ASSUME NEW g \in 1 .. Len(L.grants), L.grants[g].revoked
        PROVE  M.grants[g].remaining >= L.grants[g].remaining
    <3>1. M.grants[g].remaining = L.grants[g].remaining
      BY <1>2, <2>2 DEF ChargeDone
    <3> QED  BY <3>1, RemainingInt
  <2> QED  BY <2>1, <2>2 DEF KeepsOrder
<1> QED
  BY <1>3, <1>5, <1>6 DEF Steps, M

\* reject_leave_request and cancel_leave_request.
LEMMA RefundSteps ==
  ASSUME NEW L, Kept(L), TakesKept(L), NEW id \in Ids, NEW status \in {"REJECTED", "CANCELLED"},
         L.reqs[id].status \in Holding, BalancesExist(L, id)
  PROVE  Steps(L, Refunded(L, id, status))
<1> DEFINE M == Refunded(L, id, status)
<1>1. status \in Statuses
  BY DEF Statuses
<1>2. RefundDone(L, M, id, status)
  BY <1>1, RefundMoves
<1> HIDE DEF M
<1>3. Kept(M)
  BY <1>2, MoveKeeps DEF RefundDone
<1>4. \A i \in Ids \ {id} : M.reqs[i] = L.reqs[i]
  BY <1>2 DEF RefundDone, Moves
<1>5. M.reqs[id].status \notin Holding /\ M.reqs[id].status # "PENDING"
  BY <1>2 DEF RefundDone, Holding
<1>6. TakesKept(M)
  BY <1>4, <1>5, OthersTake
<1>7. KeepsOrder(L, M)
  BY <1>2, <1>4, <1>5 DEF RefundDone, KeepsOrder
<1> QED
  BY <1>3, <1>6, <1>7 DEF Steps, M

\* update_leave_request: revert, plan from what is free then, apply.
LEMMA UpdateSteps ==
  ASSUME NEW L, Kept(L), TakesKept(L), NEW id \in Ids, NEW need \in [Years -> Nat],
         L.reqs[id].status = "PENDING", BalancesExist(L, id),
         CanCharge(Refunded(L, id, "PENDING"), need)
  PROVE  LET freed == Refunded(L, id, "PENDING")
         IN  Steps(L, Charged(freed, id, need, Plan(freed, need)))
<1> DEFINE F == Refunded(L, id, "PENDING")
           M == Charged(F, id, need, Plan(F, need))
<1>1. "PENDING" \in Statuses /\ L.reqs[id].status \in Holding
  BY DEF Statuses, Holding
<1>2. RefundDone(L, F, id, "PENDING")
  BY <1>1, RefundMoves
<1>3. CanCharge(F, need)
  OBVIOUS
<1> HIDE DEF F
<1>4. Kept(F)
  BY <1>2, MoveKeeps DEF RefundDone
<1>5. HoldsNothing(F.reqs[id])
  <2>1. F.reqs[id].year = NoDays /\ F.reqs[id].grant = NoReward
    BY <1>2 DEF RefundDone
  <2> QED
    BY <2>1, NothingHeld DEF HoldsNothing, Held, HeldReward
<1>6. ChargeDone(F, M, id)
  BY <1>3, <1>4, <1>5, ChargeMoves
<1> HIDE DEF M
<1>7. Kept(M)
  BY <1>4, <1>6, MoveKeeps DEF ChargeDone
<1>8. \A i \in Ids \ {id} : M.reqs[i] = L.reqs[i]
  <2>1. \A i \in Ids \ {id} : F.reqs[i] = L.reqs[i]
    BY <1>2 DEF RefundDone, Moves
  <2>2. \A i \in Ids \ {id} : M.reqs[i] = F.reqs[i]
    BY <1>6 DEF ChargeDone, Moves
  <2> QED  BY <2>1, <2>2
<1>9. TakesKept(M)
  BY <1>6, <1>8, OthersTake DEF ChargeDone
<1>10. KeepsOrder(L, M)
  <2>1. ASSUME NEW i \in Ids, M.reqs[i] # L.reqs[i]
        PROVE  InOrder(M.bal, M.grants, M.reqs[i])
    <3>1. i = id
      BY <1>8, <2>1
    <3> QED  BY <1>6, <3>1 DEF ChargeDone
  <2>2. ASSUME NEW g \in 1 .. Len(L.grants), L.grants[g].revoked
        PROVE  M.grants[g].remaining >= L.grants[g].remaining
    <3>1. Len(F.grants) = Len(L.grants) /\ F.grants[g].revoked = L.grants[g].revoked
          /\ F.grants[g].remaining >= L.grants[g].remaining
      BY <1>2 DEF RefundDone, Moves
    <3>2. M.grants[g].remaining = F.grants[g].remaining
      BY <1>6, <2>2, <3>1 DEF ChargeDone
    <3> QED  BY <3>1, <3>2
  <2> QED  BY <2>1, <2>2 DEF KeepsOrder
<1> QED
  BY <1>7, <1>9, <1>10 DEF Steps, M, F

\* approve_leave_request.
LEMMA ApproveSteps ==
  ASSUME NEW L, Kept(L), TakesKept(L), NEW id \in Ids, L.reqs[id].status = "PENDING",
         BalancesExist(L, id)
  PROVE  Steps(L, Approved(L, id))
<1> DEFINE M == Approved(L, id)
<1>1. ApproveDone(L, M, id)
  BY ApproveMoves
<1> HIDE DEF M
<1>2. Kept(M)
  BY <1>1, MoveKeeps DEF ApproveDone
<1>3. \A i \in Ids \ {id} : M.reqs[i] = L.reqs[i]
  BY <1>1 DEF ApproveDone, Moves
<1>4. id \in InBooks(L, Holding)
  BY DEF InBooks, Holding
<1>5. Uncorrected(M.reqs[id]) => Takes(M.reqs[id])
  BY <1>1, <1>4 DEF ApproveDone, TakesKept, Uncorrected, Takes
<1>6. TakesKept(M)
  BY <1>3, <1>5, OthersTake
<1>7. KeepsOrder(L, M)
  <2>1. \A i \in Ids : M.reqs[i] # L.reqs[i] => M.reqs[i].status # "PENDING"
    BY <1>1, <1>3 DEF ApproveDone
  <2>2. \A g \in 1 .. Len(L.grants) : M.grants[g].remaining >= L.grants[g].remaining
    BY <1>1, RemainingInt DEF ApproveDone
  <2> QED  BY <2>1, <2>2 DEF KeepsOrder
<1> QED
  BY <1>2, <1>6, <1>7 DEF Steps, M

\* An operation that touches no request and no revoked reward.
LEMMA AdministratorSteps ==
  ASSUME NEW L, Kept(L), TakesKept(L), NEW M, Kept(M), M.reqs = L.reqs,
         \A g \in 1 .. Len(L.grants) : L.grants[g].revoked => M.grants[g] = L.grants[g]
  PROVE  Steps(L, M)
<1>1. TakesKept(M)
  BY DEF TakesKept, InBooks
<1>2. \A g \in 1 .. Len(L.grants) :
        L.grants[g].revoked => M.grants[g].remaining >= L.grants[g].remaining
  BY RemainingInt
<1> QED
  BY <1>1, <1>2 DEF Steps, KeepsOrder

-----------------------------------------------------------------------------
(***************************************************************************)
(* The invariant of the specification and the theorems.                    *)
(***************************************************************************)
LInv == Kept(Books) /\ TakesKept(Books)

\* The record of the variables.
LEMMA BooksFields == Books.bal = bal /\ Books.grants = grants /\ Books.reqs = reqs
BY DEF Books

\* No balances, no rewards, no requests: the books agree.
LEMMA InitLInv == LedgerInit => LInv
<1> SUFFICES ASSUME LedgerInit PROVE LInv
  OBVIOUS
<1>1. /\ bal = [y \in Years |-> NoBalance] /\ grants = << >>
      /\ reqs = [id \in Ids |-> NoRequest]
  BY DEF LedgerInit
<1>2. NoRequest \in Request /\ NoRequest.status = "NONE"
      /\ NoRequest.year = NoDays /\ NoRequest.grant = NoReward
  BY NothingHeld DEF NoRequest, Request, Statuses
<1>3. TypedBooks(Books)
  <2>1. Books.bal \in [Years -> Bal \cup {NoBalance}]
    BY <1>1, BooksFields
  <2>2. << >> \in Seq(Grant)
    OBVIOUS
  <2>3. Books.grants \in Seq(Grant) /\ Len(Books.grants) <= MaxGrants
    BY <1>1, <2>2, BooksFields, RulesAssumption
  <2>4. Books.reqs \in Reqs
    BY <1>1, <1>2, BooksFields DEF Reqs
  <2> QED  BY <2>1, <2>3, <2>4 DEF TypedBooks
<1>4. \A i \in Ids : Books.reqs[i] = NoRequest
  BY <1>1, BooksFields
<1>5. \A y \in Years : Books.bal[y] = NoBalance
  BY <1>1, BooksFields
<1>6. NothingBeyond(Books)
  BY <1>2, <1>4, NothingHeld DEF NothingBeyond
<1>7. HeldExist(Books)
  BY <1>2, <1>4, NothingHeld DEF HeldExist
<1>8. PendingKept(Books) /\ UsedKept(Books) /\ CoveredKept(Books)
  BY <1>5 DEF PendingKept, UsedKept, CoveredKept
<1>9. RewardsKept(Books)
  BY <1>1, BooksFields DEF RewardsKept
<1>10. TakesKept(Books)
  BY <1>2, <1>4 DEF TakesKept, InBooks, Holding
<1> QED
  BY <1>3, <1>6, <1>7, <1>8, <1>9, <1>10 DEF LInv, Kept

\* The books after a step are those that the operation returns.
LEMMA BecomeKeeps ==
  ASSUME NEW M, Become(M), Kept(M), TakesKept(M)
  PROVE  LInv'
<1>1. Books'.bal = M.bal /\ Books'.grants = M.grants /\ Books'.reqs = M.reqs
  BY DEF Become, Books
<1>2. Kept(Books')
  <2> DEFINE N == Books'
  <2>1. N.bal = M.bal /\ N.grants = M.grants /\ N.reqs = M.reqs /\ Kept(M)
    BY <1>1
  <2> HIDE DEF N
  <2>2. /\ \A S, y : YearDays(N, S, y) = YearDays(M, S, y)
        /\ \A S, g : GrantDays(N, S, g) = GrantDays(M, S, g)
    BY <2>1, SameSums
  <2>3. TypedBooks(N) /\ NothingBeyond(N) /\ HeldExist(N)
    BY <2>1 DEF Kept, TypedBooks, NothingBeyond, HeldExist
  <2>4. PendingKept(N) /\ UsedKept(N)
    BY <2>1, <2>2 DEF Kept, PendingKept, UsedKept
  <2>5. RewardsKept(N) /\ CoveredKept(N)
    BY <2>1, <2>2 DEF Kept, RewardsKept, RewardKept, CoveredKept
  <2>6. Kept(N)
    BY <2>3, <2>4, <2>5 DEF Kept
  <2> QED  BY <2>6 DEF N
<1>3. TakesKept(Books')
  BY <1>1 DEF TakesKept, InBooks
<1> QED
  BY <1>2, <1>3 DEF LInv

\* And so they keep the order of spending.
LEMMA BecomeSteps ==
  ASSUME NEW M, Become(M), Steps(Books, M), Kept(Books)
  PROVE  LInv' /\ SpendsInOrder
<1>1. bal' = M.bal /\ grants' = M.grants /\ reqs' = M.reqs
  BY DEF Become
<1>2. Kept(M) /\ TakesKept(M) /\ KeepsOrder(Books, M)
  BY DEF Steps
<1>3. LInv'
  BY <1>2, BecomeKeeps
<1>4. ASSUME NEW id \in Ids, NEW g \in GrantIds, reqs'[id].grant[g] > 0,
             reqs'[id] # reqs[id], reqs'[id].status = "PENDING"
      PROVE  /\ \E y \in Years : reqs'[id].need[y] > reqs'[id].year[y]
             /\ \A y \in Years : reqs'[id].need[y] > reqs'[id].year[y] => Remaining(bal'[y]) <= 0
             /\ \A h \in 1 .. g - 1 : Usable(grants', h) = 0
  <2>1. InOrder(M.bal, M.grants, M.reqs[id])
    BY <1>1, <1>2, <1>4, BooksFields DEF KeepsOrder
  <2> QED
    BY <1>1, <1>4, <2>1 DEF InOrder
<1>5. ASSUME NEW g \in DOMAIN grants, grants[g].revoked
      PROVE  grants'[g].remaining >= grants[g].remaining
  <2>1. g \in 1 .. Len(Books.grants)
    BY Typed, BooksFields DEF Kept
  <2> QED
    BY <1>1, <1>2, <1>5, <2>1, BooksFields DEF KeepsOrder
<1>6. SpendsInOrder
  BY <1>4, <1>5 DEF SpendsInOrder
<1> QED
  BY <1>3, <1>6

\* Every step keeps the invariant and the order of spending.
LEMMA NextLInv == LInv /\ LedgerNext => LInv' /\ SpendsInOrder
<1> SUFFICES ASSUME LInv, LedgerNext
             PROVE  LInv' /\ SpendsInOrder
  OBVIOUS
<1>0. Kept(Books) /\ TakesKept(Books)
  BY DEF LInv
<1>1. CASE \E id \in Ids, u \in Users, need \in Needs : Create(id, need, u)
  <2>1. PICK id \in Ids, u \in Users, need \in Needs : Create(id, need, u)
    BY <1>1
  <2>2. need \in [Years -> Nat]
    BY LedgerAssumption
  <2>3. /\ Books.reqs[id].status = "NONE" /\ CanCharge(Books, need)
        /\ Become(Charged(Books, id, need, Plan(Books, need)))
    BY <2>1, BooksFields DEF Create
  <2>4. Steps(Books, Charged(Books, id, need, Plan(Books, need)))
    BY <1>0, <2>2, <2>3, CreateSteps
  <2> QED
    BY <1>0, <2>3, <2>4, BecomeSteps
<1>2. CASE \E id \in Ids, u \in Users, need \in Needs : Update(id, need, u)
  <2>1. PICK id \in Ids, u \in Users, need \in Needs : Update(id, need, u)
    BY <1>2
  <2>2. need \in [Years -> Nat]
    BY LedgerAssumption
  <2> DEFINE F == Refunded(Books, id, "PENDING")
  <2>3. /\ Books.reqs[id].status = "PENDING" /\ BalancesExist(Books, id) /\ CanCharge(F, need)
        /\ Become(Charged(F, id, need, Plan(F, need)))
    BY <2>1, BooksFields DEF Update
  <2>4. Steps(Books, Charged(F, id, need, Plan(F, need)))
    BY <1>0, <2>2, <2>3, UpdateSteps
  <2> QED
    BY <1>0, <2>3, <2>4, BecomeSteps
<1>3. CASE \E id \in Ids, u \in Users : Cancel(id, u)
  <2>1. PICK id \in Ids, u \in Users : Cancel(id, u)
    BY <1>3
  <2>2. /\ Books.reqs[id].status \in Holding /\ BalancesExist(Books, id)
        /\ Become(Refunded(Books, id, "CANCELLED"))
    BY <2>1, BooksFields DEF Cancel, Holding
  <2>3. Steps(Books, Refunded(Books, id, "CANCELLED"))
    BY <1>0, <2>2, RefundSteps
  <2> QED
    BY <1>0, <2>2, <2>3, BecomeSteps
<1>4. CASE \E id \in Ids, u \in Users : Approve(id, u)
  <2>1. PICK id \in Ids, u \in Users : Approve(id, u)
    BY <1>4
  <2>2. /\ Books.reqs[id].status = "PENDING" /\ BalancesExist(Books, id)
        /\ Become(Approved(Books, id))
    BY <2>1, BooksFields DEF Approve
  <2>3. Steps(Books, Approved(Books, id))
    BY <1>0, <2>2, ApproveSteps
  <2> QED
    BY <1>0, <2>2, <2>3, BecomeSteps
<1>5. CASE \E id \in Ids, u \in Users : Reject(id, u)
  <2>1. PICK id \in Ids, u \in Users : Reject(id, u)
    BY <1>5
  <2>2. /\ Books.reqs[id].status \in Holding /\ BalancesExist(Books, id)
        /\ Become(Refunded(Books, id, "REJECTED"))
    BY <2>1, BooksFields DEF Reject, Holding
  <2>3. Steps(Books, Refunded(Books, id, "REJECTED"))
    BY <1>0, <2>2, RefundSteps
  <2> QED
    BY <1>0, <2>2, <2>3, BecomeSteps
<1>6. CASE \E y \in Years, days \in InitialDays : Initialize(y, days)
  <2>1. PICK y \in Years, days \in InitialDays : Initialize(y, days)
    BY <1>6
  <2> DEFINE M == Initialized(Books, y, days)
  <2>2. Books.bal[y] = NoBalance /\ Become(M) /\ days \in Nat
    BY <2>1, BooksFields, LedgerAssumption DEF Initialize
  <2>3. Kept(M)
    BY <1>0, <2>2, InitializeKeeps
  <2>4. M.reqs = Books.reqs /\ M.grants = Books.grants
    BY DEF Initialized, Books
  <2> HIDE DEF M
  <2>5. Steps(Books, M)
    BY <1>0, <2>3, <2>4, AdministratorSteps
  <2> QED
    BY <1>0, <2>2, <2>5, BecomeSteps
<1>7. CASE \E y \in Years, days \in AccrualDays : Accrue(y, days)
  <2>1. PICK y \in Years, days \in AccrualDays : Accrue(y, days)
    BY <1>7
  <2> DEFINE M == Accrued(Books, y, days)
  <2>2. Books.bal[y] # NoBalance /\ Become(M) /\ days \in Nat
    BY <2>1, BooksFields, LedgerAssumption DEF Accrue
  <2>3. Kept(M)
    BY <1>0, <2>2, AccrueKeeps
  <2>4. M.reqs = Books.reqs /\ M.grants = Books.grants
    BY DEF Accrued, Books
  <2> HIDE DEF M
  <2>5. Steps(Books, M)
    BY <1>0, <2>3, <2>4, AdministratorSteps
  <2> QED
    BY <1>0, <2>2, <2>5, BecomeSteps
<1>8. CASE \E y \in Correctable, days \in UsedDays : SetUsed(y, days)
  <2>1. PICK y \in Correctable, days \in UsedDays : SetUsed(y, days)
    BY <1>8
  <2> DEFINE M == UsedSetTo(Books, y, days)
  <2>2. Books.bal[y] # NoBalance /\ Become(M) /\ days \in Nat
    BY <2>1, BooksFields, LedgerAssumption DEF SetUsed
  <2>3. Kept(M)
    BY <1>0, <2>2, SetUsedKeeps
  <2>4. M.reqs = Books.reqs /\ M.grants = Books.grants
    BY DEF UsedSetTo, Books
  <2> HIDE DEF M
  <2>5. Steps(Books, M)
    BY <1>0, <2>3, <2>4, AdministratorSteps
  <2> QED
    BY <1>0, <2>2, <2>5, BecomeSteps
<1>9. CASE \E y \in Purgeable : Purge(y)
  <2>1. PICK y \in Purgeable : Purge(y)
    BY <1>9
  <2> DEFINE M == Purged(Books, y)
  <2>2. Become(M)
    BY <2>1 DEF Purge
  <2>3. Kept(M)
    BY <1>0, PurgeKeeps
  <2>4. M.reqs = Books.reqs /\ M.grants = Books.grants
    BY DEF Purged, Books
  <2> HIDE DEF M
  <2>5. Steps(Books, M)
    BY <1>0, <2>3, <2>4, AdministratorSteps
  <2> QED
    BY <1>0, <2>2, <2>5, BecomeSteps
<1>10. CASE \E days \in RewardDays : Reward(days)
  <2>1. PICK days \in RewardDays : Reward(days)
    BY <1>10
  <2> DEFINE M == Rewarded(Books, days)
  <2>2. Len(Books.grants) < MaxGrants /\ Become(M) /\ days \in Nat
    BY <2>1, BooksFields, LedgerAssumption DEF Reward
  <2>3. Kept(M) /\ \A g \in 1 .. Len(Books.grants) : M.grants[g] = Books.grants[g]
    BY <1>0, <2>2, RewardKeeps
  <2>4. M.reqs = Books.reqs
    BY DEF Rewarded, Books
  <2> HIDE DEF M
  <2>5. Steps(Books, M)
    BY <1>0, <2>3, <2>4, AdministratorSteps
  <2> QED
    BY <1>0, <2>2, <2>5, BecomeSteps
<1>11. CASE \E g \in DOMAIN grants : Revoke(g)
  <2>1. PICK g \in DOMAIN grants : Revoke(g)
    BY <1>11
  <2> DEFINE M == Revoked(Books, g)
  <2>2. g \in 1 .. Len(Books.grants) /\ ~ Books.grants[g].revoked /\ Become(M)
    BY <1>0, <2>1, Typed, BooksFields DEF Revoke, Kept
  <2>3. Kept(M) /\ \A h \in 1 .. Len(Books.grants) : h # g => M.grants[h] = Books.grants[h]
    BY <1>0, <2>2, RevokeKeeps
  <2>4. M.reqs = Books.reqs
    BY DEF Revoked, Books
  <2> HIDE DEF M
  <2>5. \A h \in 1 .. Len(Books.grants) : Books.grants[h].revoked => M.grants[h] = Books.grants[h]
    BY <2>2, <2>3
  <2>6. Steps(Books, M)
    BY <1>0, <2>3, <2>4, <2>5, AdministratorSteps
  <2> QED
    BY <1>0, <2>2, <2>6, BecomeSteps
<1> QED
  BY <1>1, <1>2, <1>3, <1>4, <1>5, <1>6, <1>7, <1>8, <1>9, <1>10, <1>11 DEF LedgerNext

\* A step that changes nothing keeps the invariant.
LEMMA StutterLInv == LInv /\ UNCHANGED ledgerVars => LInv'
<1> SUFFICES ASSUME LInv, UNCHANGED ledgerVars PROVE LInv'
  OBVIOUS
<1>1. Books' = Books
  BY DEF ledgerVars, Books
<1>2. Kept(Books') /\ TakesKept(Books')
  BY <1>1 DEF LInv
<1> QED
  BY <1>2 DEF LInv

(***************************************************************************)
(* The invariant of the books, for every behaviour.                        *)
(***************************************************************************)
THEOREM LedgerInvariant == LedgerSpec => []LInv
BY InitLInv, NextLInv, StutterLInv, PTL DEF LedgerSpec

(***************************************************************************)
(* "Statutory first, then rewards (FIFO)" (models/leave.py:13), whatever   *)
(* has happened to the books before: a request that takes reward days      *)
(* finds its years and the older rewards empty, and a revoked reward is    *)
(* not spent any more (leaves.py:1272, 1412). The plan takes from a reward *)
(* only what the years lack and the older rewards do not have; a reversal  *)
(* only adds to rewards.                                                   *)
(***************************************************************************)
THEOREM SpendsOldestFirst == LedgerSpec => SpendingOrder
<1>1. LInv /\ [LedgerNext]_ledgerVars => [SpendsInOrder]_ledgerVars
  BY NextLInv
<1> QED
  BY LedgerInvariant, <1>1, PTL DEF LedgerSpec, SpendingOrder

\* What the invariant says of the three books.
LEMMA LInvBooks ==
  ASSUME LInv
  PROVE  BooksTyped /\ BooksAgree /\ NoOverdraft
<1>1. Kept(Books) /\ TypedBooks(Books)
  BY DEF LInv, Kept
<1>2. BooksTyped
  BY <1>1, BooksFields DEF BooksTyped, TypedBooks, Bal, Grant, Reqs
<1>3. \A S, y : YearDays(Books, S, y) = DaysOf(InStatus(S), y)
  BY BooksFields DEF YearDays, DaysOf, InBooks, InStatus
<1>4. \A g : GrantDays(Books, Holding, g) = RewardOf(Active, g)
  BY BooksFields DEF GrantDays, RewardOf, InBooks, InStatus, Active, Holding
<1>5. PendingMatches
  BY <1>1, <1>3, BooksFields DEF Kept, PendingKept, PendingMatches, Waiting
<1>6. UsedMatches
  BY <1>1, <1>3, BooksFields DEF Kept, UsedKept, UsedMatches, Granted
<1>7. RewardsMatch
  <2>1. DOMAIN grants = 1 .. Len(Books.grants)
    BY <1>1, Typed, BooksFields
  <2> QED
    BY <1>1, <1>4, <2>1, BooksFields DEF Kept, RewardsKept, RewardKept, RewardsMatch
<1>8. NoOverdraft
  BY <1>1, BooksFields DEF Kept, CoveredKept, NoOverdraft, ByHand
<1> QED
  BY <1>2, <1>5, <1>6, <1>7, <1>8 DEF BooksAgree

(***************************************************************************)
(* The rows are what models/leave.py declares, and there are never more    *)
(* rewards than the bound, whatever the handlers do.                       *)
(***************************************************************************)
THEOREM BooksAlwaysTyped == LedgerSpec => []BooksTyped
<1>1. LInv => BooksTyped
  BY LInvBooks
<1> QED
  BY LedgerInvariant, <1>1, PTL

(***************************************************************************)
(* pending_days, used_days and the rewards agree with the requests, for    *)
(* any number of requests, years and rewards (leaves.py:1356, 1369, 1397,  *)
(* 1399, 1412, 1776).                                                      *)
(***************************************************************************)
THEOREM BooksAlwaysAgree == LedgerSpec => []BooksAgree
<1>1. LInv => BooksAgree
  BY LInvBooks
<1> QED
  BY LedgerInvariant, <1>1, PTL

(***************************************************************************)
(* No year is overdrawn, whatever is requested, edited, decided and        *)
(* cancelled in whatever order (leaves.py:1511).                           *)
(***************************************************************************)
THEOREM NeverOverdrawn == LedgerSpec => []NoOverdraft
<1>1. LInv => NoOverdraft
  BY LInvBooks
<1> QED
  BY LedgerInvariant, <1>1, PTL

\* The requests of years that nobody corrects take the days they are for.
TakesUncorrected ==
  \A id \in Active :
    (\A y \in Correctable : reqs[id].need[y] = 0) =>
      SumFunction(reqs[id].year) + SumFunction(reqs[id].grant) = SumFunction(reqs[id].need)

\* What the invariant says of the requests.
LEMMA LInvTakes == LInv => TakesUncorrected
  BY BooksFields DEF LInv, TakesKept, TakesUncorrected, Active, InStatus, InBooks, Holding,
                     Uncorrected, Takes

(***************************************************************************)
(* A request takes exactly the days it is for, from years and rewards      *)
(* together, if no administrator corrects the used days of the years it    *)
(* falls in (models/leave.py:10, leave_allocation.py:133). A correction    *)
(* may leave a year with less than nothing; the plan of a later request    *)
(* then adds what it lacks to what the rewards must give.                  *)
(***************************************************************************)
THEOREM RequestsTakeTheirDays == LedgerSpec => []TakesUncorrected
<1> QED
  BY LedgerInvariant, LInvTakes, PTL

(***************************************************************************)
(* Where nobody corrects used days by hand, every request does.            *)
(***************************************************************************)
THEOREM WithoutCorrections ==
  ASSUME Correctable = {}
  PROVE  LedgerSpec => []TakesWhatItNeeds
<1>1. TakesUncorrected => TakesWhatItNeeds
  BY DEF TakesUncorrected, TakesWhatItNeeds
<1> QED
  BY RequestsTakeTheirDays, <1>1, PTL

-----------------------------------------------------------------------------
(***************************************************************************)
(* The handlers in sessions of their own.  Everything rests on what two    *)
(* states of the books have in common.                                     *)
(***************************************************************************)
\* In M the requests are those of L, the rewards of L are untouched, and no day has
\* been used or reserved of its balances since, nor taken from what was granted.
Since(L, M) ==
  /\ M.reqs = L.reqs
  /\ \A y \in Years : L.bal[y] # NoBalance =>
       /\ M.bal[y] # NoBalance
       /\ M.bal[y].used = L.bal[y].used
       /\ M.bal[y].pending = L.bal[y].pending
       /\ M.bal[y].granted >= L.bal[y].granted
  /\ Len(L.grants) <= Len(M.grants)
  /\ \A g \in 1 .. Len(L.grants) : M.grants[g] = L.grants[g]

\* Nothing has been granted to the balances since, and none has gone.
SameGranted(L, M) ==
  \A y \in Years : L.bal[y] # NoBalance =>
    M.bal[y] # NoBalance /\ M.bal[y].granted = L.bal[y].granted

\* A plan gives a request the days it is for.
PlanGives(need, p) ==
  (\A y \in Correctable : need[y] = 0) =>
    SumFunction(p.year) + SumFunction(p.grant) = SumFunction(need)

OnRequest(s) ==
  /\ s.x \in Ids
  /\ s.ready => BalancesExist(s.snap, s.x)

\* What a handler has read, and the guards it has passed on it.
Passed(s) ==
  \/ /\ s.op = "create"
     /\ s.x \in Ids /\ s.snap.reqs[s.x].status = "NONE"
     /\ \E u \in Users : MayHandle(u)
     /\ s.arg.need \in Needs
     /\ PlanCovered(s.snap, s.arg.plan) /\ PlanGives(s.arg.need, s.arg.plan)
  \/ /\ s.op = "cancel"
     /\ OnRequest(s) /\ s.snap.reqs[s.x].status \in Holding
     /\ \E u \in Users : MayHandle(u)
  \/ /\ s.op = "approve"
     /\ OnRequest(s) /\ s.snap.reqs[s.x].status = "PENDING"
     /\ \E u \in Users : MayDecide(u) /\ u \notin Self
  \/ /\ s.op = "reject"
     /\ OnRequest(s) /\ s.snap.reqs[s.x].status = "PENDING"
     /\ \E u \in Users : MayDecide(u)
  \/ /\ s.op = "accrue"
     /\ s.ready /\ s.x \in Years /\ s.arg \in AccrualDays
     /\ s.snap.bal[s.x] # NoBalance /\ s.snap.bal[s.x].granted + s.arg <= MaxGranted
  \/ /\ s.op = "setused"
     /\ s.ready /\ s.x \in Correctable /\ s.arg \in UsedDays
     /\ s.snap.bal[s.x] # NoBalance /\ s.snap.bal[s.x].used # s.arg
  \/ /\ s.op = "purge"
     /\ s.ready /\ s.x \in Purgeable /\ s.snap.bal[s.x] # NoBalance
  \/ /\ s.op = "revoke"
     /\ s.ready /\ s.x \in 1 .. Len(s.snap.grants) /\ ~ s.snap.grants[s.x].revoked

\* A session that a handler holds.
InSession(s) ==
  /\ s = [op |-> s.op, x |-> s.x, arg |-> s.arg, ready |-> s.ready, snap |-> s.snap]
  /\ s.snap = [bal |-> s.snap.bal, grants |-> s.snap.grants, reqs |-> s.snap.reqs]
  /\ TypedBooks(s.snap) /\ NothingBeyond(s.snap)
  /\ Passed(s)

Sessions == /\ LInv
            /\ client = [c \in Clients |-> client[c]]
            /\ \A c \in Clients : client[c] # Idle => InSession(client[c])

\* The plan of a request is still the one build_allocation_plan would make.
PlanCurrent(s) == s.op = "create" =>
                    CanCharge(s.snap, s.arg.need) /\ s.arg.plan = Plan(s.snap, s.arg.need)

\* One handler at a time: what it has read is what is there.
AloneInv == /\ Sessions
            /\ \A c \in Clients : client[c] # Idle =>
                 /\ Since(client[c].snap, Books) /\ SameGranted(client[c].snap, Books)
                 /\ PlanCurrent(client[c])

\* A handler h beside an accrual a: neither has written a column the other has read
\* in order to write it.
BesideInv(h, a) ==
  /\ Sessions
  /\ client[h] # Idle => /\ client[h].op \notin {"accrue", "purge"}
                         /\ Since(client[h].snap, Books)
  /\ client[a] # Idle => client[a].op = "accrue" /\ SameGranted(client[a].snap, Books)

\* What is written of a balance, column by column.
LEMMA WrittenBalance ==
  ASSUME NEW b \in Bal, NEW old, NEW new
  PROVE  Written(old, new, b) =
           [granted |-> IF new.granted = old.granted THEN b.granted ELSE new.granted,
            used    |-> IF new.used = old.used THEN b.used ELSE new.used,
            pending |-> IF new.pending = old.pending THEN b.pending ELSE new.pending]
<1>1. DOMAIN b = {"granted", "used", "pending"}
  BY DEF Bal
<1> QED
  BY <1>1 DEF Written

\* The same of a reward.
LEMMA WrittenReward ==
  ASSUME NEW r \in Grant, NEW old, NEW new
  PROVE  Written(old, new, r) =
           [granted   |-> IF new.granted = old.granted THEN r.granted ELSE new.granted,
            remaining |-> IF new.remaining = old.remaining THEN r.remaining ELSE new.remaining,
            revoked   |-> IF new.revoked = old.revoked THEN r.revoked ELSE new.revoked]
<1>1. DOMAIN r = {"granted", "remaining", "revoked"}
  BY DEF Grant
<1> QED
  BY <1>1 DEF Written

\* The same of a request.
LEMMA WrittenRequest ==
  ASSUME NEW r \in Request, NEW old, NEW new
  PROVE  Written(old, new, r) =
           [status |-> IF new.status = old.status THEN r.status ELSE new.status,
            need   |-> IF new.need = old.need THEN r.need ELSE new.need,
            year   |-> IF new.year = old.year THEN r.year ELSE new.year,
            grant  |-> IF new.grant = old.grant THEN r.grant ELSE new.grant]
<1>1. DOMAIN r = {"status", "need", "year", "grant"}
  BY DEF Request
<1> QED
  BY <1>1 DEF Written

\* A row that a session has not changed is not written.
LEMMA NotWritten ==
  ASSUME NEW old
  PROVE  /\ \A b \in Bal : Written(old, old, b) = b
         /\ \A r \in Grant : Written(old, old, r) = r
         /\ \A r \in Request : Written(old, old, r) = r
<1>1. ASSUME NEW b \in Bal PROVE Written(old, old, b) = b
  BY WrittenBalance DEF Bal
<1>2. ASSUME NEW r \in Grant PROVE Written(old, old, r) = r
  BY WrittenReward DEF Grant
<1>3. ASSUME NEW r \in Request PROVE Written(old, old, r) = r
  BY WrittenRequest DEF Request
<1> QED
  BY <1>1, <1>2, <1>3

\* A row that nobody else has changed becomes what the session makes of it.
LEMMA WrittenNew ==
  ASSUME NEW old
  PROVE  /\ old \in Bal => \A b \in Bal : Written(old, b, old) = b
         /\ old \in Grant => \A r \in Grant : Written(old, r, old) = r
         /\ old \in Request => \A r \in Request : Written(old, r, old) = r
<1>1. ASSUME old \in Bal, NEW b \in Bal PROVE Written(old, b, old) = b
  BY <1>1, WrittenBalance DEF Bal
<1>2. ASSUME old \in Grant, NEW r \in Grant PROVE Written(old, r, old) = r
  BY <1>2, WrittenReward DEF Grant
<1>3. ASSUME old \in Request, NEW r \in Request PROVE Written(old, r, old) = r
  BY <1>3, WrittenRequest DEF Request
<1> QED
  BY <1>1, <1>2, <1>3

\* What a commit makes of the row of a year that was o when it was read, is n in the
\* session, and b in the books.
MergedRow(o, n, b) ==
  IF n = o THEN b ELSE IF n = NoBalance THEN NoBalance ELSE Written(o, n, b)

SameBooks(L, M) == L.bal = M.bal /\ L.grants = M.grants /\ L.reqs = M.reqs

\* What must hold of the books M that a commit leaves behind.
BalancesMerged(S, N, M) ==
  /\ M.bal = [y \in Years |-> M.bal[y]]
  /\ \A y \in Years : M.bal[y] = MergedRow(S.bal[y], N.bal[y], Books.bal[y])

RewardsMerged(S, N, M) ==
  /\ M.grants = [g \in 1 .. Len(Books.grants) |-> M.grants[g]]
  /\ \A g \in 1 .. Len(Books.grants) :
       M.grants[g] = IF g \in 1 .. Len(S.grants)
                     THEN Written(S.grants[g], N.grants[g], Books.grants[g])
                     ELSE Books.grants[g]

RequestsMerged(S, N, M) ==
  /\ M.reqs = [id \in Ids |-> M.reqs[id]]
  /\ \A id \in Ids : M.reqs[id] = Written(S.reqs[id], N.reqs[id], Books.reqs[id])

\* Row by row is all there is to a commit.
LEMMA MergeIs ==
  ASSUME NEW S, TypedBooks(S), TypedBooks(Books), NEW N, NEW M,
         BalancesMerged(S, N, M), RewardsMerged(S, N, M), RequestsMerged(S, N, M)
  PROVE  SameBooks(Merge(S, N), M)
<1>1. /\ DOMAIN S.grants = 1 .. Len(S.grants)
      /\ DOMAIN grants = 1 .. Len(Books.grants)
  BY Typed, BooksFields
<1>2. Merge(S, N).bal = M.bal
  BY BooksFields DEF Merge, MergedRow, BalancesMerged
<1>3. Merge(S, N).grants = M.grants
  BY <1>1, BooksFields DEF Merge, RewardsMerged
<1>4. Merge(S, N).reqs = M.reqs
  BY BooksFields DEF Merge, RequestsMerged
<1> QED
  BY <1>2, <1>3, <1>4 DEF SameBooks

\* What a session leaves alone stays as it is in the books.
LEMMA LeftAlone ==
  ASSUME NEW S, TypedBooks(S), TypedBooks(Books), NEW N, NEW M
  PROVE  /\ N.bal = S.bal /\ M.bal = Books.bal => BalancesMerged(S, N, M)
         /\ N.grants = S.grants /\ M.grants = Books.grants => RewardsMerged(S, N, M)
         /\ N.reqs = S.reqs /\ M.reqs = Books.reqs => RequestsMerged(S, N, M)
<1>1. ASSUME N.bal = S.bal, M.bal = Books.bal
      PROVE  BalancesMerged(S, N, M)
  <2>1. Books.bal = [y \in Years |-> Books.bal[y]]
    BY DEF TypedBooks
  <2> QED  BY <1>1, <2>1 DEF BalancesMerged, MergedRow
<1>2. ASSUME N.grants = S.grants, M.grants = Books.grants
      PROVE  RewardsMerged(S, N, M)
  <2>1. \A g \in 1 .. Len(Books.grants) : Books.grants[g] \in Grant
    BY Typed
  <2>2. Books.grants = [g \in 1 .. Len(Books.grants) |-> Books.grants[g]]
    BY DEF TypedBooks
  <2>3. ASSUME NEW g \in 1 .. Len(Books.grants)
        PROVE  Written(S.grants[g], N.grants[g], Books.grants[g]) = Books.grants[g]
    BY <1>2, <2>1, NotWritten
  <2> QED  BY <1>2, <2>2, <2>3 DEF RewardsMerged
<1>3. ASSUME N.reqs = S.reqs, M.reqs = Books.reqs
      PROVE  RequestsMerged(S, N, M)
  <2>1. Books.reqs = [id \in Ids |-> Books.reqs[id]] /\ \A id \in Ids : Books.reqs[id] \in Request
    BY DEF TypedBooks, Reqs
  <2>2. ASSUME NEW id \in Ids
        PROVE  Written(S.reqs[id], N.reqs[id], Books.reqs[id]) = Books.reqs[id]
    BY <1>3, <2>1, NotWritten
  <2> QED  BY <1>3, <2>1, <2>2 DEF RequestsMerged
<1> QED
  BY <1>1, <1>2, <1>3

\* One request rewritten, that nobody else has written.
LEMMA RequestMerged ==
  ASSUME NEW S, TypedBooks(S), TypedBooks(Books), Books.reqs = S.reqs, NEW N, NEW M,
         NEW id \in Ids, NEW q \in Request,
         N.reqs = [S.reqs EXCEPT ![id] = q], M.reqs = [Books.reqs EXCEPT ![id] = q]
  PROVE  RequestsMerged(S, N, M)
<1>1. S.reqs = [i \in Ids |-> S.reqs[i]] /\ \A i \in Ids : S.reqs[i] \in Request
  BY DEF TypedBooks, Reqs
<1>2. ASSUME NEW i \in Ids
      PROVE  M.reqs[i] = Written(S.reqs[i], N.reqs[i], Books.reqs[i])
  <2>1. CASE i = id
    <3>1. N.reqs[i] = q /\ M.reqs[i] = q /\ S.reqs[i] \in Request
      BY <1>1, <2>1
    <3> QED  BY <3>1, WrittenNew
  <2>2. CASE i # id
    <3>1. N.reqs[i] = S.reqs[i] /\ M.reqs[i] = S.reqs[i] /\ S.reqs[i] \in Request
      BY <1>1, <2>2
    <3> QED  BY <3>1, NotWritten
  <2> QED  BY <2>1, <2>2
<1>3. M.reqs = [i \in Ids |-> M.reqs[i]]
  BY <1>1
<1> QED
  BY <1>2, <1>3 DEF RequestsMerged

\* Rows to whose columns days are added.
RowsAdd(b, p, u, w) ==
  /\ p = [y \in Years |-> p[y]]
  /\ \A y \in Years :
       /\ p[y] = NoBalance <=> b[y] = NoBalance
       /\ b[y] # NoBalance =>
            /\ p[y] \in Bal /\ b[y] \in Bal
            /\ p[y].granted = b[y].granted
            /\ p[y].used = b[y].used + u[y]
            /\ p[y].pending = b[y].pending + w[y]

\* Days added to columns that nobody else has written.
LEMMA AdditionsMerged ==
  ASSUME NEW S, TypedBooks(S), TypedBooks(Books), Since(S, Books), NEW N, NEW M,
         NEW u \in [Years -> Int], NEW w \in [Years -> Int],
         \A y \in Years : S.bal[y] = NoBalance => u[y] = 0 /\ w[y] = 0,
         RowsAdd(S.bal, N.bal, u, w), RowsAdd(Books.bal, M.bal, u, w)
  PROVE  BalancesMerged(S, N, M)
<1>0. NoBalance \notin Bal
  BY RulesAssumption DEF Bal
<1>1. ASSUME NEW y \in Years
      PROVE  M.bal[y] = MergedRow(S.bal[y], N.bal[y], Books.bal[y])
  <2> DEFINE o == S.bal[y]
             n == N.bal[y]
             b == Books.bal[y]
             m == M.bal[y]
  <2>1. u[y] \in Int /\ w[y] \in Int
    OBVIOUS
  <2>2. CASE o = NoBalance
    <3>1. n = o /\ u[y] = 0 /\ w[y] = 0
      BY <2>2 DEF RowsAdd
    <3>2. m = b
      <4>1. CASE b = NoBalance
        BY <4>1 DEF RowsAdd
      <4>2. CASE b # NoBalance
        <5>1. /\ m \in Bal /\ b \in Bal
              /\ m.granted = b.granted
              /\ m.used = b.used + 0
              /\ m.pending = b.pending + 0
          BY <3>1, <4>2 DEF RowsAdd
        <5> HIDE DEF m, b
        <5> QED  BY <5>1 DEF Bal
      <4> QED  BY <4>1, <4>2
    <3> QED  BY <3>1, <3>2 DEF MergedRow
  <2>3. CASE o # NoBalance
    <3>1. /\ b # NoBalance
          /\ b.used = o.used /\ b.pending = o.pending
      BY <2>3 DEF Since
    <3>2. /\ n \in Bal /\ o \in Bal
          /\ n.granted = o.granted /\ n.used = o.used + u[y] /\ n.pending = o.pending + w[y]
      BY <2>3 DEF RowsAdd
    <3>3. /\ m \in Bal /\ b \in Bal
          /\ m.granted = b.granted /\ m.used = b.used + u[y] /\ m.pending = b.pending + w[y]
      BY <3>1 DEF RowsAdd
    <3> HIDE DEF o, n, b, m
    <3>4. CASE n = o
      <4>1. m.used = b.used /\ m.pending = b.pending
        BY <2>1, <3>1, <3>2, <3>3, <3>4 DEF Bal
      <4>2. m = b
        BY <3>3, <4>1 DEF Bal
      <4> QED  BY <3>4, <4>2 DEF MergedRow, m, n, b, o
    <3>5. CASE n # o
      <4>1. Written(o, n, b) =
             [granted |-> IF n.granted = o.granted THEN b.granted ELSE n.granted,
              used    |-> IF n.used = o.used THEN b.used ELSE n.used,
              pending |-> IF n.pending = o.pending THEN b.pending ELSE n.pending]
        BY <3>3, WrittenBalance
      <4>2. Written(o, n, b) = [granted |-> m.granted, used |-> m.used, pending |-> m.pending]
        BY <3>1, <3>2, <3>3, <4>1
      <4>3. m = [granted |-> m.granted, used |-> m.used, pending |-> m.pending]
        BY <3>3 DEF Bal
      <4>4. m = Written(o, n, b) /\ n # NoBalance
        BY <1>0, <3>2, <4>2, <4>3
      <4> QED  BY <3>5, <4>4 DEF MergedRow, m, n, b, o
    <3> QED  BY <3>4, <3>5
  <2> QED  BY <2>2, <2>3
<1>2. M.bal = [y \in Years |-> M.bal[y]]
  BY DEF RowsAdd
<1> QED
  BY <1>1, <1>2 DEF BalancesMerged

\* Days put back into or taken from rewards that nobody else has written.
LEMMA PostRewardMerged ==
  ASSUME NEW S, TypedBooks(S), TypedBooks(Books), Since(S, Books), NEW N, NEW M,
         NEW days \in [GrantIds -> Int],
         \A g \in GrantIds : g > Len(S.grants) => days[g] = 0,
         N.grants = PostReward(S.grants, days), M.grants = PostReward(Books.grants, days)
  PROVE  RewardsMerged(S, N, M)
<1> DEFINE k == Len(S.grants)
           n == Len(Books.grants)
<1>1. /\ k \in Nat /\ n \in Nat /\ k <= n
      /\ DOMAIN S.grants = 1 .. k /\ DOMAIN Books.grants = 1 .. n
      /\ \A g \in 1 .. n : g \in GrantIds /\ Books.grants[g] \in Grant
      /\ \A g \in 1 .. k : g \in GrantIds /\ S.grants[g] \in Grant /\ Books.grants[g] = S.grants[g]
  BY Typed DEF Since
<1> HIDE DEF k, n
<1>2. /\ N.grants = [g \in 1 .. k |-> [S.grants[g] EXCEPT !.remaining = S.grants[g].remaining + days[g]]]
      /\ M.grants = [g \in 1 .. n |-> [Books.grants[g] EXCEPT !.remaining = Books.grants[g].remaining + days[g]]]
  BY <1>1 DEF PostReward
<1>3. ASSUME NEW g \in 1 .. n
      PROVE  M.grants[g] = IF g \in 1 .. k THEN Written(S.grants[g], N.grants[g], Books.grants[g])
                           ELSE Books.grants[g]
  <2>1. days[g] \in Int /\ Books.grants[g] \in Grant
    BY <1>1
  <2>2. M.grants[g] = [Books.grants[g] EXCEPT !.remaining = Books.grants[g].remaining + days[g]]
    BY <1>2
  <2>3. CASE g \in 1 .. k
    <3>1. Books.grants[g] = S.grants[g] /\ S.grants[g] \in Grant
      BY <1>1, <2>3
    <3>2. N.grants[g] = [S.grants[g] EXCEPT !.remaining = S.grants[g].remaining + days[g]]
      BY <1>2, <2>3
    <3>3. N.grants[g] = M.grants[g]
      BY <2>2, <3>1, <3>2
    <3>4. N.grants[g] \in Grant
      <4>1. S.grants[g].remaining + days[g] \in Int
        BY <2>1, <3>1 DEF Grant
      <4>2. \A r \in Grant, v \in Int : [r EXCEPT !.remaining = v] \in Grant
        BY DEF Grant
      <4> QED  BY <3>1, <3>2, <4>1, <4>2
    <3>5. Written(S.grants[g], N.grants[g], S.grants[g]) = N.grants[g]
      BY <3>1, <3>4, WrittenNew
    <3> QED  BY <2>3, <3>1, <3>3, <3>5
  <2>4. CASE g \notin 1 .. k
    <3>1. g > k /\ g \in GrantIds
      BY <1>1, <2>4
    <3>2. days[g] = 0
      BY <3>1 DEF k
    <3>3. M.grants[g] = Books.grants[g]
      BY <2>1, <2>2, <3>2 DEF Grant
    <3> QED  BY <2>4, <3>3
  <2> QED  BY <2>3, <2>4
<1>4. M.grants = [g \in 1 .. n |-> M.grants[g]]
  BY <1>2
<1> QED
  BY <1>3, <1>4 DEF RewardsMerged, k, n

\* A posting adds days to one column.
LEMMA PostAdds ==
  ASSUME NEW b \in [Years -> Bal \cup {NoBalance}], NEW days \in [Years -> Int],
         \A y \in Years : days[y] # 0 => b[y] # NoBalance
  PROVE  /\ RowsAdd(b, Post(b, "pending", days), NoDays, days)
         /\ RowsAdd(b, Post(b, "used", days), days, NoDays)
<1>1. \A y \in Years : NoDays[y] = 0
  BY NothingHeld
<1>2. RowsPosted(b, Post(b, "pending", days), "pending", days)
  BY PostRows
<1>3. RowsPosted(b, Post(b, "used", days), "used", days)
  BY PostRows
<1>4. ASSUME NEW p, RowsPosted(b, p, "pending", days)
      PROVE  RowsAdd(b, p, NoDays, days)
  BY <1>1, <1>4 DEF RowsPosted, RowsAdd
<1>5. ASSUME NEW p, RowsPosted(b, p, "used", days)
      PROVE  RowsAdd(b, p, days, NoDays)
  BY <1>1, <1>5 DEF RowsPosted, RowsAdd
<1> QED
  BY <1>2, <1>3, <1>4, <1>5

\* Days added to the reserved ones and then to the used ones.
LEMMA AddsTwice ==
  ASSUME NEW b, NEW m, NEW p, NEW u \in [Years -> Int], NEW w \in [Years -> Int],
         RowsAdd(b, m, NoDays, w), RowsAdd(m, p, u, NoDays)
  PROVE  RowsAdd(b, p, u, w)
<1>1. ASSUME NEW y \in Years
      PROVE  /\ p[y] = NoBalance <=> b[y] = NoBalance
             /\ b[y] # NoBalance =>
                  /\ p[y] \in Bal /\ b[y] \in Bal
                  /\ p[y].granted = b[y].granted
                  /\ p[y].used = b[y].used + u[y]
                  /\ p[y].pending = b[y].pending + w[y]
  <2>1. (p[y] = NoBalance <=> m[y] = NoBalance) /\ (m[y] = NoBalance <=> b[y] = NoBalance)
    BY DEF RowsAdd
  <2>2. ASSUME b[y] # NoBalance
        PROVE  /\ p[y] \in Bal /\ b[y] \in Bal
               /\ p[y].granted = b[y].granted
               /\ p[y].used = b[y].used + u[y]
               /\ p[y].pending = b[y].pending + w[y]
    <3>1. /\ m[y] \in Bal /\ b[y] \in Bal
          /\ m[y].granted = b[y].granted
          /\ m[y].used = b[y].used + 0
          /\ m[y].pending = b[y].pending + w[y]
      BY <2>2, NothingHeld DEF RowsAdd
    <3>2. /\ p[y] \in Bal
          /\ p[y].granted = m[y].granted
          /\ p[y].used = m[y].used + u[y]
          /\ p[y].pending = m[y].pending + 0
      BY <2>1, <2>2, NothingHeld DEF RowsAdd
    <3>3. b[y].used \in Int /\ m[y].pending \in Int
      BY <3>1 DEF Bal
    <3> QED  BY <3>1, <3>2, <3>3
  <2> QED  BY <2>1, <2>2
<1> QED
  BY <1>1 DEF RowsAdd

\* The commit of create_leave_request: the plan that the session made, charged to the
\* books as they are.
LEMMA ChargeMerged ==
  ASSUME NEW S, TypedBooks(S), TypedBooks(Books), Since(S, Books), NEW id \in Ids,
         NEW need \in [Years -> Nat], NEW p, PlanCovered(S, p)
  PROVE  SameBooks(Merge(S, Charged(S, id, need, p)), Charged(Books, id, need, p))
<1> DEFINE N == Charged(S, id, need, p)
           M == Charged(Books, id, need, p)
           m == Minus(p.grant)
           q == [status |-> "PENDING", need |-> need, year |-> p.year, grant |-> p.grant]
<1>1. /\ p.year \in [Years -> Nat] /\ p.year \in [Years -> Int] /\ p.grant \in [GrantIds -> Nat]
      /\ \A y \in Years : p.year[y] # 0 => p.year[y] > 0
  BY DEF PlanCovered
<1>2. /\ N.bal = Post(S.bal, "pending", p.year) /\ M.bal = Post(Books.bal, "pending", p.year)
      /\ N.grants = PostReward(S.grants, m) /\ M.grants = PostReward(Books.grants, m)
      /\ N.reqs = [S.reqs EXCEPT ![id] = q] /\ M.reqs = [Books.reqs EXCEPT ![id] = q]
  BY DEF Charged
<1>3. /\ \A y \in Years : p.year[y] # 0 => S.bal[y] # NoBalance
      /\ \A y \in Years : p.year[y] # 0 => Books.bal[y] # NoBalance
  BY <1>1 DEF PlanCovered, Since
<1>4. /\ m \in [GrantIds -> Int]
      /\ \A g \in GrantIds : m[g] = 0 - p.grant[g]
  BY <1>1, MinusDays DEF IsMinus
<1> HIDE DEF N, M, m
<1>5. BalancesMerged(S, N, M)
  <2>0. S.bal \in [Years -> Bal \cup {NoBalance}] /\ Books.bal \in [Years -> Bal \cup {NoBalance}]
    BY DEF TypedBooks
  <2>1. RowsAdd(S.bal, N.bal, NoDays, p.year) /\ RowsAdd(Books.bal, M.bal, NoDays, p.year)
    BY <1>1, <1>2, <1>3, <2>0, PostAdds
  <2>2. NoDays \in [Years -> Int] /\ \A y \in Years : S.bal[y] = NoBalance => NoDays[y] = 0 /\ p.year[y] = 0
    BY <1>3, NothingHeld
  <2> QED  BY <1>1, <2>1, <2>2, AdditionsMerged
<1>6. RewardsMerged(S, N, M)
  <2>1. \A g \in GrantIds : g > Len(S.grants) => m[g] = 0
    BY <1>4 DEF PlanCovered
  <2> QED  BY <1>2, <1>4, <2>1, PostRewardMerged
<1>7. RequestsMerged(S, N, M)
  <2>1. q \in Request
    BY <1>1 DEF Request, Statuses
  <2>2. Books.reqs = S.reqs
    BY DEF Since
  <2> HIDE DEF q
  <2> QED  BY <1>2, <2>1, <2>2, RequestMerged
<1> QED
  BY <1>5, <1>6, <1>7, MergeIs DEF N, M

\* The commit of a cancellation or a rejection.
LEMMA RefundMerged ==
  ASSUME NEW S, TypedBooks(S), TypedBooks(Books), Since(S, Books), NEW id \in Ids,
         NEW status \in Statuses, BalancesExist(S, id), NothingBeyond(S)
  PROVE  SameBooks(Merge(S, Refunded(S, id, status)), Refunded(Books, id, status))
<1> DEFINE N == Refunded(S, id, status)
           M == Refunded(Books, id, status)
           r == S.reqs[id]
           m == Minus(r.year)
           q == [r EXCEPT !.status = status, !.year = NoDays, !.grant = NoReward]
<1>1. Books.reqs = S.reqs
  BY DEF Since
<1>2. /\ r \in Request /\ r.year \in [Years -> Nat] /\ r.grant \in [GrantIds -> Nat]
      /\ r.grant \in [GrantIds -> Int]
  BY Typed
<1>3. m \in [Years -> Int] /\ \A y \in Years : m[y] # 0 => r.year[y] > 0
  <2> HIDE DEF r
  <2> QED  BY <1>2, MinusDays DEF IsMinus
<1>4. /\ \A y \in Years : m[y] # 0 => S.bal[y] # NoBalance
      /\ \A y \in Years : m[y] # 0 => Books.bal[y] # NoBalance
  <2>1. \A y \in Years : r.year[y] > 0 => S.bal[y] # NoBalance
    BY DEF BalancesExist
  <2> HIDE DEF r, m
  <2> QED  BY <1>3, <2>1 DEF Since
<1>5. /\ N.grants = PostReward(S.grants, r.grant) /\ M.grants = PostReward(Books.grants, r.grant)
      /\ N.reqs = [S.reqs EXCEPT ![id] = q] /\ M.reqs = [Books.reqs EXCEPT ![id] = q]
  BY <1>1 DEF Refunded
<1>6. \/ /\ N.bal = Post(S.bal, "pending", m) /\ M.bal = Post(Books.bal, "pending", m)
      \/ /\ N.bal = Post(S.bal, "used", m) /\ M.bal = Post(Books.bal, "used", m)
  BY <1>1 DEF Refunded
<1>7. q \in Request
  BY <1>2, NothingHeld DEF Request
<1>8. \A g \in GrantIds : g > Len(S.grants) => r.grant[g] = 0
  BY DEF NothingBeyond
<1> HIDE DEF N, M, m, r, q
<1>9. NoDays \in [Years -> Int] /\ \A y \in Years : S.bal[y] = NoBalance => NoDays[y] = 0 /\ m[y] = 0
  BY <1>3, <1>4, NothingHeld
<1>10. BalancesMerged(S, N, M)
  <2>0. S.bal \in [Years -> Bal \cup {NoBalance}] /\ Books.bal \in [Years -> Bal \cup {NoBalance}]
    BY DEF TypedBooks
  <2>1. CASE N.bal = Post(S.bal, "pending", m) /\ M.bal = Post(Books.bal, "pending", m)
    <3>1. RowsAdd(S.bal, N.bal, NoDays, m) /\ RowsAdd(Books.bal, M.bal, NoDays, m)
      BY <1>3, <1>4, <2>0, <2>1, PostAdds
    <3> QED  BY <1>3, <1>9, <3>1, AdditionsMerged
  <2>2. CASE N.bal = Post(S.bal, "used", m) /\ M.bal = Post(Books.bal, "used", m)
    <3>1. RowsAdd(S.bal, N.bal, m, NoDays) /\ RowsAdd(Books.bal, M.bal, m, NoDays)
      BY <1>3, <1>4, <2>0, <2>2, PostAdds
    <3> QED  BY <1>3, <1>9, <3>1, AdditionsMerged
  <2> QED  BY <1>6, <2>1, <2>2
<1>11. RewardsMerged(S, N, M)
  BY <1>2, <1>5, <1>8, PostRewardMerged
<1>12. RequestsMerged(S, N, M)
  BY <1>1, <1>5, <1>7, RequestMerged
<1> QED
  BY <1>10, <1>11, <1>12, MergeIs DEF N, M

\* The commit of an approval.
LEMMA ApproveMerged ==
  ASSUME NEW S, TypedBooks(S), TypedBooks(Books), Since(S, Books), NEW id \in Ids,
         BalancesExist(S, id)
  PROVE  SameBooks(Merge(S, Approved(S, id)), Approved(Books, id))
<1> DEFINE N == Approved(S, id)
           M == Approved(Books, id)
           r == S.reqs[id]
           m == Minus(r.year)
           q == [r EXCEPT !.status = "APPROVED"]
           Half(b) == Post(b, "pending", m)
<1>1. Books.reqs = S.reqs
  BY DEF Since
<1>2. r \in Request /\ r.year \in [Years -> Nat] /\ r.year \in [Years -> Int]
  BY Typed
<1>3. /\ m \in [Years -> Int]
      /\ \A y \in Years : m[y] # 0 => r.year[y] > 0
      /\ \A y \in Years : r.year[y] # 0 => r.year[y] > 0
  <2> HIDE DEF r
  <2> QED  BY <1>2, MinusDays DEF IsMinus
<1>4. /\ \A y \in Years : r.year[y] > 0 => S.bal[y] # NoBalance
      /\ \A y \in Years : r.year[y] > 0 => Books.bal[y] # NoBalance
  BY DEF BalancesExist, Since
<1>5. /\ N.grants = S.grants /\ M.grants = Books.grants
      /\ N.reqs = [S.reqs EXCEPT ![id] = q] /\ M.reqs = [Books.reqs EXCEPT ![id] = q]
      /\ N.bal = Post(Half(S.bal), "used", r.year)
      /\ M.bal = Post(Half(Books.bal), "used", r.year)
  BY <1>1 DEF Approved
<1>6. q \in Request
  BY <1>2 DEF Request, Statuses
<1> HIDE DEF N, M, m, r, q
<1>7. ASSUME NEW b \in [Years -> Bal \cup {NoBalance}],
             \A y \in Years : r.year[y] > 0 => b[y] # NoBalance
      PROVE  RowsAdd(b, Post(Half(b), "used", r.year), r.year, m)
  <2>1. RowsAdd(b, Half(b), NoDays, m) /\ RowsPosted(b, Half(b), "pending", m)
    BY <1>3, <1>7, PostAdds, PostRows
  <2> HIDE DEF Half
  <2>2. /\ Half(b) \in [Years -> Bal \cup {NoBalance}]
        /\ \A y \in Years : r.year[y] # 0 => Half(b)[y] # NoBalance
    BY <1>3, <1>7, <2>1 DEF RowsPosted
  <2>3. RowsAdd(Half(b), Post(Half(b), "used", r.year), r.year, NoDays)
    BY <1>2, <2>2, PostAdds
  <2> QED  BY <1>2, <1>3, <2>1, <2>3, AddsTwice
<1>8. BalancesMerged(S, N, M)
  <2>1. RowsAdd(S.bal, N.bal, r.year, m) /\ RowsAdd(Books.bal, M.bal, r.year, m)
    <3> HIDE DEF Half
    <3> QED  BY <1>4, <1>5, <1>7 DEF TypedBooks
  <2>2. \A y \in Years : S.bal[y] = NoBalance => r.year[y] = 0 /\ m[y] = 0
    BY <1>3, <1>4
  <2> QED  BY <1>2, <1>3, <2>1, <2>2, AdditionsMerged
<1>9. RewardsMerged(S, N, M)
  BY <1>5, LeftAlone
<1>10. RequestsMerged(S, N, M)
  BY <1>1, <1>5, <1>6, RequestMerged
<1> QED
  BY <1>8, <1>9, <1>10, MergeIs DEF N, M

\* The commit of an operation on the row of one year.
LEMMA RowMerged ==
  ASSUME NEW S, TypedBooks(S), TypedBooks(Books), NEW y \in Years, NEW N, NEW M,
         NEW n, NEW m,
         N.bal = [S.bal EXCEPT ![y] = n], M.bal = [Books.bal EXCEPT ![y] = m],
         m = MergedRow(S.bal[y], n, Books.bal[y])
  PROVE  BalancesMerged(S, N, M)
<1>1. /\ S.bal = [z \in Years |-> S.bal[z]] /\ Books.bal = [z \in Years |-> Books.bal[z]]
  BY DEF TypedBooks
<1>2. ASSUME NEW z \in Years
      PROVE  M.bal[z] = MergedRow(S.bal[z], N.bal[z], Books.bal[z])
  <2>1. CASE z = y
    <3>1. N.bal[z] = n /\ M.bal[z] = m
      BY <1>1, <2>1
    <3> QED  BY <2>1, <3>1
  <2>2. CASE z # y
    <3>1. N.bal[z] = S.bal[z] /\ M.bal[z] = Books.bal[z]
      BY <1>1, <2>2
    <3> QED  BY <3>1 DEF MergedRow
  <2> QED  BY <2>1, <2>2
<1>3. M.bal = [z \in Years |-> M.bal[z]]
  BY <1>1
<1> QED
  BY <1>2, <1>3 DEF BalancesMerged

\* The commit of an accrual: nothing has been granted to the year since.
LEMMA AccrueMerged ==
  ASSUME NEW S, TypedBooks(S), TypedBooks(Books), SameGranted(S, Books), NEW y \in Years,
         S.bal[y] # NoBalance, NEW days \in Nat
  PROVE  SameBooks(Merge(S, Accrued(S, y, days)), Accrued(Books, y, days))
<1> DEFINE N == Accrued(S, y, days)
           M == Accrued(Books, y, days)
           o == S.bal[y]
           b == Books.bal[y]
           n == [o EXCEPT !.granted = o.granted + days]
           m == [b EXCEPT !.granted = b.granted + days]
<1>1. /\ N.bal = [S.bal EXCEPT ![y] = n] /\ M.bal = [Books.bal EXCEPT ![y] = m]
      /\ N.grants = S.grants /\ M.grants = Books.grants
      /\ N.reqs = S.reqs /\ M.reqs = Books.reqs
  BY DEF Accrued
<1>2. o \in Bal /\ b \in Bal /\ b.granted = o.granted
  <2>1. b # NoBalance /\ b.granted = o.granted
    BY DEF SameGranted
  <2> QED  BY <2>1, Typed
<1>3. NoBalance \notin Bal
  BY RulesAssumption DEF Bal
<1> HIDE DEF o, b, N, M
<1>4. /\ n \in Bal /\ n.granted = o.granted + days /\ n.used = o.used /\ n.pending = o.pending
      /\ m \in Bal /\ m.granted = b.granted + days /\ m.used = b.used /\ m.pending = b.pending
  BY <1>2 DEF Bal
<1> HIDE DEF n, m
<1>5. m = MergedRow(o, n, b)
  <2>1. CASE n = o
    <3>1. m.granted = b.granted /\ m.used = b.used /\ m.pending = b.pending
      BY <1>2, <1>4, <2>1
    <3>2. m = b
      BY <1>2, <1>4, <3>1 DEF Bal
    <3> QED  BY <2>1, <3>2 DEF MergedRow
  <2>2. CASE n # o
    <3>1. Written(o, n, b) = [granted |-> m.granted, used |-> m.used, pending |-> m.pending]
      BY <1>2, <1>4, WrittenBalance
    <3>2. m = [granted |-> m.granted, used |-> m.used, pending |-> m.pending]
      BY <1>4 DEF Bal
    <3>3. n # NoBalance
      BY <1>3, <1>4
    <3> QED  BY <2>2, <3>1, <3>2, <3>3 DEF MergedRow
  <2> QED  BY <2>1, <2>2
<1>6. BalancesMerged(S, N, M)
  BY <1>1, <1>5, RowMerged DEF o, b
<1>7. RewardsMerged(S, N, M) /\ RequestsMerged(S, N, M)
  BY <1>1, LeftAlone
<1> QED
  BY <1>6, <1>7, MergeIs DEF N, M

\* The commit of a correction of the used days.
LEMMA SetUsedMerged ==
  ASSUME NEW S, TypedBooks(S), TypedBooks(Books), NEW y \in Years,
         S.bal[y] # NoBalance, Books.bal[y] # NoBalance, NEW days \in Nat, S.bal[y].used # days
  PROVE  SameBooks(Merge(S, UsedSetTo(S, y, days)), UsedSetTo(Books, y, days))
<1> DEFINE N == UsedSetTo(S, y, days)
           M == UsedSetTo(Books, y, days)
           o == S.bal[y]
           b == Books.bal[y]
           n == [o EXCEPT !.used = days]
           m == [b EXCEPT !.used = days]
<1>1. /\ N.bal = [S.bal EXCEPT ![y] = n] /\ M.bal = [Books.bal EXCEPT ![y] = m]
      /\ N.grants = S.grants /\ M.grants = Books.grants
      /\ N.reqs = S.reqs /\ M.reqs = Books.reqs
  BY DEF UsedSetTo
<1>2. o \in Bal /\ b \in Bal /\ o.used # days
  BY Typed
<1>3. NoBalance \notin Bal
  BY RulesAssumption DEF Bal
<1> HIDE DEF o, b, N, M
<1>4. /\ n \in Bal /\ n.granted = o.granted /\ n.used = days /\ n.pending = o.pending
      /\ m \in Bal /\ m.granted = b.granted /\ m.used = days /\ m.pending = b.pending
  BY <1>2 DEF Bal
<1> HIDE DEF n, m
<1>5. m = MergedRow(o, n, b)
  <2>1. Written(o, n, b) = [granted |-> m.granted, used |-> m.used, pending |-> m.pending]
    BY <1>2, <1>4, WrittenBalance
  <2>2. m = [granted |-> m.granted, used |-> m.used, pending |-> m.pending]
    BY <1>4 DEF Bal
  <2>3. n # NoBalance /\ n # o
    BY <1>2, <1>3, <1>4
  <2> QED  BY <2>1, <2>2, <2>3 DEF MergedRow
<1>6. BalancesMerged(S, N, M)
  BY <1>1, <1>5, RowMerged DEF o, b
<1>7. RewardsMerged(S, N, M) /\ RequestsMerged(S, N, M)
  BY <1>1, LeftAlone
<1> QED
  BY <1>6, <1>7, MergeIs DEF N, M

\* The commit of the deletion of a balance.
LEMMA PurgeMerged ==
  ASSUME NEW S, TypedBooks(S), TypedBooks(Books), NEW y \in Years, S.bal[y] # NoBalance
  PROVE  SameBooks(Merge(S, Purged(S, y)), Purged(Books, y))
<1> DEFINE N == Purged(S, y)
           M == Purged(Books, y)
<1>1. /\ N.bal = [S.bal EXCEPT ![y] = NoBalance] /\ M.bal = [Books.bal EXCEPT ![y] = NoBalance]
      /\ N.grants = S.grants /\ M.grants = Books.grants
      /\ N.reqs = S.reqs /\ M.reqs = Books.reqs
  BY DEF Purged
<1> HIDE DEF N, M
<1>2. NoBalance = MergedRow(S.bal[y], NoBalance, Books.bal[y])
  BY DEF MergedRow
<1>3. BalancesMerged(S, N, M)
  BY <1>1, <1>2, RowMerged
<1>4. RewardsMerged(S, N, M) /\ RequestsMerged(S, N, M)
  BY <1>1, LeftAlone
<1> QED
  BY <1>3, <1>4, MergeIs DEF N, M

\* What revoke_reward_grant makes of the rewards.
LEMMA RevokedRows ==
  ASSUME NEW L, TypedBooks(L), NEW g \in 1 .. Len(L.grants)
  PROVE  LET M == Revoked(L, g)
             n == [granted |-> L.grants[g].granted, remaining |-> 0, revoked |-> TRUE]
         IN  n \in Grant /\ M.bal = L.bal /\ M.reqs = L.reqs /\ M.grants = [L.grants EXCEPT ![g] = n]
<1> DEFINE M == Revoked(L, g)
           a == [L.grants[g] EXCEPT !.remaining = 0]
           n == [granted |-> L.grants[g].granted, remaining |-> 0, revoked |-> TRUE]
           K  == [L EXCEPT !.grants[g].remaining = 0]
           gr == [L.grants EXCEPT ![g] = a]
<1>1. L.grants \in Seq(Grant) /\ g \in DOMAIN L.grants /\ L.grants[g] \in Grant
  BY Typed DEF TypedBooks
<1>2. K.grants = gr /\ K.bal = L.bal /\ K.reqs = L.reqs
  OBVIOUS
<1>3. gr[g] = a
  BY <1>1
<1>4. M = [K EXCEPT !.grants[g].revoked = TRUE]
  BY DEF Revoked
<1>5. /\ M.grants = [gr EXCEPT ![g] = [gr[g] EXCEPT !.revoked = TRUE]]
      /\ M.bal = L.bal /\ M.reqs = L.reqs
  <2> HIDE DEF K, M, gr
  <2>1. /\ M.grants = [K.grants EXCEPT ![g] = [K.grants[g] EXCEPT !.revoked = TRUE]]
        /\ M.bal = K.bal /\ M.reqs = K.reqs
    BY <1>4
  <2> QED  BY <1>2, <2>1
<1>6. n = [a EXCEPT !.revoked = TRUE] /\ n \in Grant
  <2> DEFINE x == L.grants[g]
  <2>1. x \in Grant
    BY <1>1
  <2> HIDE DEF x
  <2>2. a = [x EXCEPT !.remaining = 0] /\ n = [granted |-> x.granted, remaining |-> 0, revoked |-> TRUE]
    BY DEF x
  <2> HIDE DEF a, n
  <2>3. a \in Grant /\ a.granted = x.granted /\ a.remaining = 0
    BY <2>1, <2>2 DEF Grant
  <2> DEFINE z == [a EXCEPT !.revoked = TRUE]
  <2>6. z \in Grant /\ z.granted = a.granted /\ z.remaining = a.remaining /\ z.revoked = TRUE
    BY <2>3 DEF Grant
  <2> HIDE DEF z
  <2>4. z = [granted |-> a.granted, remaining |-> a.remaining, revoked |-> TRUE]
    BY <2>6 DEF Grant
  <2>5. n \in Grant
    BY <2>1, <2>2 DEF Grant
  <2> QED  BY <2>2, <2>3, <2>4, <2>5 DEF z
<1>7. M.grants = [gr EXCEPT ![g] = n]
  <2> HIDE DEF M, gr, n, a
  <2> QED  BY <1>3, <1>5, <1>6
<1>8. [gr EXCEPT ![g] = n] = [L.grants EXCEPT ![g] = n]
  <2> HIDE DEF n, a
  <2> QED  BY <1>1
<1> QED
  BY <1>5, <1>6, <1>7, <1>8

\* The commit of a revocation.
LEMMA RevokeMerged ==
  ASSUME NEW S, TypedBooks(S), TypedBooks(Books), Since(S, Books), NEW g \in 1 .. Len(S.grants)
  PROVE  SameBooks(Merge(S, Revoked(S, g)), Revoked(Books, g))
<1> DEFINE N == Revoked(S, g)
           M == Revoked(Books, g)
           n == [granted |-> S.grants[g].granted, remaining |-> 0, revoked |-> TRUE]
<1>1. /\ Len(S.grants) \in Nat /\ Len(Books.grants) \in Nat /\ Len(S.grants) <= Len(Books.grants)
      /\ DOMAIN S.grants = 1 .. Len(S.grants) /\ DOMAIN Books.grants = 1 .. Len(Books.grants)
      /\ \A h \in 1 .. Len(S.grants) : S.grants[h] \in Grant /\ Books.grants[h] = S.grants[h]
      /\ \A h \in 1 .. Len(Books.grants) : Books.grants[h] \in Grant
  BY Typed DEF Since
<1>2. g \in 1 .. Len(Books.grants)
  BY <1>1
<1>3. /\ n \in Grant
      /\ N.bal = S.bal /\ N.reqs = S.reqs /\ N.grants = [S.grants EXCEPT ![g] = n]
      /\ M.bal = Books.bal /\ M.reqs = Books.reqs /\ M.grants = [Books.grants EXCEPT ![g] = n]
  <2>1. Books.grants[g] = S.grants[g]
    BY <1>1
  <2> QED  BY <1>2, <2>1, RevokedRows
<1> HIDE DEF N, M, n
<1>4. ASSUME NEW h \in 1 .. Len(Books.grants)
      PROVE  M.grants[h] = IF h \in 1 .. Len(S.grants)
                           THEN Written(S.grants[h], N.grants[h], Books.grants[h])
                           ELSE Books.grants[h]
  <2>1. CASE h = g
    <3>1. N.grants[h] = n /\ M.grants[h] = n /\ S.grants[h] \in Grant /\ Books.grants[h] = S.grants[h]
      BY <1>1, <1>3, <2>1
    <3> QED  BY <1>3, <2>1, <3>1, WrittenNew
  <2>2. CASE h # g
    <3>1. M.grants[h] = Books.grants[h] /\ Books.grants[h] \in Grant
      BY <1>1, <1>3, <2>2
    <3>2. h \in 1 .. Len(S.grants) => N.grants[h] = S.grants[h]
      BY <1>1, <1>3, <2>2
    <3> QED  BY <3>1, <3>2, NotWritten
  <2> QED  BY <2>1, <2>2
<1>5. M.grants = [h \in 1 .. Len(Books.grants) |-> M.grants[h]]
  BY <1>1, <1>3
<1>6. RewardsMerged(S, N, M)
  BY <1>4, <1>5 DEF RewardsMerged
<1>7. BalancesMerged(S, N, M) /\ RequestsMerged(S, N, M)
  BY <1>3, LeftAlone
<1> QED
  BY <1>6, <1>7, MergeIs DEF N, M

\* How many days are still to be found behind each reward.
WalkOf(gr, days, left) ==
  /\ left \in [0 .. Len(gr) -> Nat]
  /\ left[0] = days
  /\ \A g \in 1 .. Len(gr) : left[g] = left[g - 1] - Least(Usable(gr, g), left[g - 1])
  /\ RewardTakes(gr, days) =
       [g \in GrantIds |-> IF g <= Len(gr) THEN left[g - 1] - left[g] ELSE 0]

\* The days taken from the rewards are the differences along such a walk.
LEMMA WalkAlong ==
  ASSUME NEW gr \in Seq(Grant), NEW days \in Nat
  PROVE  \E left : WalkOf(gr, days, left)
<1> DEFINE n == Len(gr)
           left == CHOOSE left : Walks(left, gr, days, n)
<1>1. n \in Nat /\ \A g \in 1 .. n : Usable(gr, g) \in Nat
  BY GrantRows DEF Usable
<1>2. Walks(left, gr, days, n)
  BY <1>1, WalkExists
<1>3. RewardTakes(gr, days) = [g \in GrantIds |-> IF g <= n THEN left[g - 1] - left[g] ELSE 0]
  BY DEF RewardTakes, Walks
<1> HIDE DEF left
<1>4. left[0] = days /\ \A g \in 1 .. n : left[g] = left[g - 1] - Least(Usable(gr, g), left[g - 1])
  BY <1>1, <1>2 DEF Walks
<1> HIDE DEF n
<1>5. \A g \in 0 .. n : left[g] \in Nat
  <2> DEFINE bad == {g \in 0 .. n : left[g] \notin Nat}
  <2>1. SUFFICES ASSUME bad # {} PROVE FALSE
    OBVIOUS
  <2>2. PICK g \in bad : \A y \in bad : g <= y
    <3>1. bad \in SUBSET Nat
      BY <1>1
    <3> HIDE DEF bad
    <3> QED  BY <2>1, <3>1, LeastNatural
  <2>3. g \in 0 .. n /\ left[g] \notin Nat
    BY <2>2
  <2>4. g # 0
    BY <1>4, <2>3
  <2>5. g - 1 \in 0 .. n /\ ~ (g <= g - 1) /\ g \in 1 .. n
    BY <1>1, <2>3, <2>4
  <2>6. left[g - 1] \in Nat
    BY <2>2, <2>5
  <2> QED
    BY <1>1, <1>4, <2>3, <2>5, <2>6, WalkStep
<1>6. left \in [0 .. n -> Nat]
  <2>1. left = [g \in 0 .. n |-> left[g]]
    BY <1>2 DEF Walks, n
  <2> QED  BY <1>5, <2>1
<1> QED
  BY <1>3, <1>4, <1>6 DEF WalkOf, n

\* What is not taken from the rewards is what is left behind the last one.
LEMMA TakesTelescope ==
  ASSUME NEW gr \in Seq(Grant), Len(gr) <= MaxGrants, NEW days \in Nat,
         NEW left, WalkOf(gr, days, left)
  PROVE  SumFunction(RewardTakes(gr, days)) = days - left[Len(gr)]
<1> DEFINE n == Len(gr)
           t == RewardTakes(gr, days)
           F(k) == SumFunctionOnSet(t, 1 .. k)
           at(k) == IF k <= n THEN left[k] ELSE left[n]
<1>1. n \in Nat /\ MaxGrants \in Nat /\ n <= MaxGrants
  BY RulesAssumption, GrantRows
<1>2. /\ left \in [0 .. n -> Nat] /\ left[0] = days
      /\ t = [g \in GrantIds |-> IF g <= n THEN left[g - 1] - left[g] ELSE 0]
  BY DEF WalkOf
<1>3. GrantIds = 1 .. MaxGrants /\ IsFiniteSet(GrantIds)
  <2>1. IsFiniteSet(1 .. MaxGrants)
    <3>1. 1 \in Int /\ MaxGrants \in Int
      BY <1>1
    <3> QED  BY <3>1, FS_Interval
  <2> QED  BY <2>1 DEF GrantIds
<1> HIDE DEF n, t
<1>4. ASSUME NEW g \in GrantIds
      PROVE  t[g] \in Int /\ at(g) \in Int /\ at(g - 1) \in Int /\ t[g] = at(g - 1) - at(g)
  <2>1. CASE g <= n
    BY <1>1, <1>2, <1>3, <2>1
  <2>2. CASE ~ (g <= n)
    <3>1. t[g] = 0 /\ at(g) = left[n] /\ at(g - 1) = left[n] /\ left[n] \in Int
      <4>1. g \in Int /\ g > n /\ (g - 1 <= n => g - 1 = n)
        BY <1>1, <1>3, <2>2
      <4>2. at(g - 1) = left[n]
        BY <4>1
      <4>3. n \in 0 .. n
        BY <1>1
      <4> QED  BY <1>2, <2>2, <4>2, <4>3
    <3> QED  BY <3>1
  <2> QED  BY <2>1, <2>2
<1>5. SumLaws(t, GrantIds)
  BY <1>3, <1>4, SumTakeOut
<1>6. /\ F(0) = 0
      /\ \A k \in GrantIds : F(k) = t[k] + F(k - 1) /\ F(k - 1) \in Int
  <2>1. F(0) = 0
    <3>1. 1 .. 0 = {}
      OBVIOUS
    <3> QED  BY <1>5, <3>1 DEF SumLaws
  <2>2. ASSUME NEW k \in GrantIds
        PROVE  F(k) = t[k] + F(k - 1) /\ F(k - 1) \in Int
    <3>1. /\ 1 .. k \in SUBSET GrantIds /\ k \in 1 .. k
          /\ 1 .. (k - 1) \in SUBSET GrantIds
          /\ (1 .. k) \ {k} = 1 .. (k - 1)
      BY <1>1, <1>3
    <3>2. SumFunctionOnSet(t, 1 .. k) = t[k] + SumFunctionOnSet(t, (1 .. k) \ {k})
      BY <1>5, <3>1 DEF SumLaws
    <3>3. SumFunctionOnSet(t, 1 .. (k - 1)) \in Int
      BY <1>5, <3>1 DEF SumLaws
    <3> QED  BY <3>1, <3>2, <3>3
  <2> QED  BY <2>1, <2>2
<1> HIDE DEF F, at
<1>7. at(0) = days
  BY <1>1, <1>2 DEF at
<1>8. \A k \in 0 .. MaxGrants : F(k) = days - at(k)
  <2> DEFINE bad == {k \in 0 .. MaxGrants : F(k) # days - at(k)}
  <2>1. SUFFICES ASSUME bad # {} PROVE FALSE
    OBVIOUS
  <2>2. PICK k \in bad : \A y \in bad : k <= y
    <3>1. bad \in SUBSET Nat
      BY <1>1
    <3> HIDE DEF bad
    <3> QED  BY <2>1, <3>1, LeastNatural
  <2>3. k \in 0 .. MaxGrants /\ F(k) # days - at(k)
    BY <2>2
  <2>4. k # 0
    BY <1>6, <1>7, <2>3
  <2>5. k \in GrantIds /\ k - 1 \in 0 .. MaxGrants /\ ~ (k <= k - 1)
    BY <1>1, <1>3, <2>3, <2>4
  <2>6. F(k - 1) = days - at(k - 1)
    BY <2>2, <2>5
  <2>7. F(k) = t[k] + F(k - 1) /\ t[k] = at(k - 1) - at(k) /\ at(k) \in Int /\ at(k - 1) \in Int
    BY <1>4, <1>6, <2>5
  <2> QED  BY <2>3, <2>6, <2>7
<1>9. SumFunction(t) = F(MaxGrants)
  <2>1. t \in [GrantIds -> Int]
    BY <1>2, <1>4
  <2>2. SumFunction(t) = SumFunctionOnSet(t, GrantIds)
    BY <2>1, FunctionSum
  <2> QED  BY <1>3, <2>2 DEF F
<1>10. at(MaxGrants) = left[n]
  BY <1>1 DEF at
<1>11. MaxGrants \in 0 .. MaxGrants
  BY <1>1
<1> QED
  BY <1>8, <1>9, <1>10, <1>11 DEF t, n

\* Rewards granted later are not reached when the earlier ones suffice.
LEMMA TakesStable ==
  ASSUME NEW gr \in Seq(Grant), NEW more \in Seq(Grant), NEW days \in Nat,
         Len(gr) <= Len(more), Len(more) <= MaxGrants,
         \A g \in 1 .. Len(gr) : more[g] = gr[g],
         days - SumFunction(RewardTakes(gr, days)) = 0
  PROVE  RewardTakes(more, days) = RewardTakes(gr, days)
<1> DEFINE n == Len(gr)
           m == Len(more)
<1>1. n \in Nat /\ m \in Nat /\ n <= m /\ m <= MaxGrants /\ MaxGrants \in Nat
  BY RulesAssumption, GrantRows
<1>2. PICK left : WalkOf(gr, days, left)
  BY WalkAlong
<1>3. PICK walk : WalkOf(more, days, walk)
  BY WalkAlong
<1>4. /\ left \in [0 .. n -> Nat] /\ left[0] = days
      /\ \A g \in 1 .. n : left[g] = left[g - 1] - Least(Usable(gr, g), left[g - 1])
      /\ RewardTakes(gr, days) = [g \in GrantIds |-> IF g <= n THEN left[g - 1] - left[g] ELSE 0]
  BY <1>2 DEF WalkOf
<1>5. /\ walk \in [0 .. m -> Nat] /\ walk[0] = days
      /\ \A g \in 1 .. m : walk[g] = walk[g - 1] - Least(Usable(more, g), walk[g - 1])
      /\ RewardTakes(more, days) = [g \in GrantIds |-> IF g <= m THEN walk[g - 1] - walk[g] ELSE 0]
  BY <1>3 DEF WalkOf
<1>6. left[n] = 0
  <2>1. SumFunction(RewardTakes(gr, days)) = days - left[n]
    BY <1>1, <1>2, TakesTelescope
  <2>2. left[n] \in Nat
    <3>1. n \in 0 .. n /\ left \in [0 .. n -> Nat]
      BY <1>1, <1>4
    <3> HIDE DEF n
    <3> QED  BY <3>1
  <2> QED  BY <2>1, <2>2
<1>7. \A g \in 1 .. n : Usable(more, g) = Usable(gr, g)
  BY DEF Usable
<1>8. \A g \in 1 .. m : Usable(more, g) \in Nat
  BY GrantRows DEF Usable
<1> HIDE DEF n, m
<1>9. \A g \in 0 .. n : walk[g] = left[g]
  <2> DEFINE bad == {g \in 0 .. n : walk[g] # left[g]}
  <2>1. SUFFICES ASSUME bad # {} PROVE FALSE
    OBVIOUS
  <2>2. PICK g \in bad : \A y \in bad : g <= y
    <3>1. bad \in SUBSET Nat
      BY <1>1
    <3> HIDE DEF bad
    <3> QED  BY <2>1, <3>1, LeastNatural
  <2>3. g \in 0 .. n /\ walk[g] # left[g]
    BY <2>2
  <2>4. g # 0
    BY <1>4, <1>5, <2>3
  <2>5. g - 1 \in 0 .. n /\ ~ (g <= g - 1) /\ g \in 1 .. n /\ g \in 1 .. m
    BY <1>1, <2>3, <2>4
  <2>6. walk[g - 1] = left[g - 1]
    BY <2>2, <2>5
  <2> QED  BY <1>4, <1>5, <1>7, <2>3, <2>5, <2>6
<1>10. \A g \in n .. m : walk[g] = 0
  <2> DEFINE bad == {g \in n .. m : walk[g] # 0}
  <2>1. SUFFICES ASSUME bad # {} PROVE FALSE
    OBVIOUS
  <2>2. PICK g \in bad : \A y \in bad : g <= y
    <3>1. bad \in SUBSET Nat
      BY <1>1
    <3> HIDE DEF bad
    <3> QED  BY <2>1, <3>1, LeastNatural
  <2>3. g \in n .. m /\ walk[g] # 0
    BY <2>2
  <2>4. g # n
    <3>1. n \in 0 .. n
      BY <1>1
    <3> QED  BY <1>6, <1>9, <2>3, <3>1
  <2>5. g - 1 \in n .. m /\ ~ (g <= g - 1) /\ g \in 1 .. m
    BY <1>1, <2>3, <2>4
  <2>6. walk[g - 1] = 0
    BY <2>2, <2>5
  <2>7. walk[g] = 0 - Least(Usable(more, g), 0) /\ Usable(more, g) \in Nat
    BY <1>5, <1>8, <2>5, <2>6
  <2> QED  BY <2>3, <2>7 DEF Least
<1>11. ASSUME NEW g \in GrantIds
       PROVE  (IF g <= m THEN walk[g - 1] - walk[g] ELSE 0) = (IF g <= n THEN left[g - 1] - left[g] ELSE 0)
  <2>0. g \in 1 .. MaxGrants
    BY DEF GrantIds
  <2>1. CASE g <= n
    <3>1. g \in 0 .. n /\ g - 1 \in 0 .. n /\ g <= m
      BY <1>1, <2>0, <2>1
    <3> QED  BY <1>9, <2>1, <3>1
  <2>2. CASE ~ (g <= n) /\ g <= m
    <3>1. g \in n .. m /\ g - 1 \in n .. m
      BY <1>1, <2>0, <2>2
    <3> QED  BY <1>10, <2>2, <3>1
  <2>3. CASE ~ (g <= n) /\ ~ (g <= m)
    BY <2>3
  <2> QED  BY <1>1, <2>1, <2>2, <2>3
<1> QED
  BY <1>4, <1>5, <1>11

\* The plan that was made still is the plan when balances have been initialised and
\* rewards granted in between.
LEMMA PlanStable ==
  ASSUME NEW S, TypedBooks(S), NEW L, TypedBooks(L), Since(S, L), SameGranted(S, L),
         NEW need \in [Years -> Nat], CanCharge(S, need)
  PROVE  CanCharge(L, need) /\ Plan(L, need) = Plan(S, need)
<1>1. \A y \in Years : need[y] > 0 => S.bal[y] # NoBalance
  BY DEF CanCharge
<1>2. \A y \in Years : need[y] > 0 => L.bal[y] # NoBalance
  BY <1>1 DEF Since
<1>3. ASSUME NEW y \in Years
      PROVE  StatutoryTake(L.bal, need, y) = StatutoryTake(S.bal, need, y)
  <2>1. CASE need[y] = 0
    BY <2>1 DEF StatutoryTake
  <2>2. CASE need[y] # 0
    <3>1. need[y] > 0
      BY <2>2
    <3>2. Remaining(L.bal[y]) = Remaining(S.bal[y])
      BY <1>1, <3>1 DEF Since, SameGranted, Remaining
    <3> QED  BY <2>2, <3>2 DEF StatutoryTake
  <2> QED  BY <2>1, <2>2
<1> DEFINE rest == Leftover(S.bal, need)
<1>4. Leftover(L.bal, need) = rest
  BY <1>3 DEF Leftover
<1>5. rest \in Nat
  <2> DEFINE lack == [y \in Years |-> need[y] - StatutoryTake(S.bal, need, y)]
  <2>1. IsFiniteSet(Years) /\ \A y \in Years : lack[y] \in Nat
    <3>1. S.bal \in [Years -> Bal \cup {NoBalance}]
      BY DEF TypedBooks
    <3>2. ASSUME NEW y \in Years
          PROVE  need[y] - StatutoryTake(S.bal, need, y) \in Nat
      <4>1. StatutoryTake(S.bal, need, y) \in Int /\ StatutoryTake(S.bal, need, y) <= need[y]
            /\ need[y] \in Nat
        BY <1>1, <3>1, TakeFacts
      <4> QED  BY <4>1
    <3> QED  BY <3>2, SetsFinite
  <2>2. rest = SumFunctionOnSet(lack, Years)
    <3>1. rest = SumFunction(lack)
      BY DEF Leftover
    <3>2. lack \in [Years -> Nat]
      BY <2>1
    <3> HIDE DEF lack, rest
    <3> QED  BY <3>1, <3>2, FunctionSum
  <2> HIDE DEF lack, rest
  <2> QED  BY <2>1, <2>2, SumNatural
<1>6. rest - SumFunction(RewardTakes(S.grants, rest)) = 0
  BY DEF CanCharge, Plan
<1> HIDE DEF rest
<1>7. RewardTakes(L.grants, rest) = RewardTakes(S.grants, rest)
  <2>1. /\ S.grants \in Seq(Grant) /\ L.grants \in Seq(Grant) /\ Len(L.grants) <= MaxGrants
        /\ Len(S.grants) <= Len(L.grants)
        /\ \A g \in 1 .. Len(S.grants) : L.grants[g] = S.grants[g]
    BY DEF TypedBooks, Since
  <2> QED  BY <1>5, <1>6, <2>1, TakesStable
<1>8. Plan(L, need) = Plan(S, need)
  BY <1>3, <1>4, <1>7 DEF Plan, rest
<1>9. Plan(L, need).short = 0
  BY <1>8 DEF CanCharge
<1> QED
  BY <1>2, <1>8, <1>9 DEF CanCharge

\* Nothing has happened yet.
LEMMA SinceSelf ==
  ASSUME NEW L, TypedBooks(L), NEW M, SameBooks(L, M)
  PROVE  Since(L, M) /\ SameGranted(L, M)
<1>1. \A y \in Years : L.bal[y] # NoBalance => L.bal[y].granted \in Int
  BY Typed
<1>2. Len(L.grants) \in Nat
  BY Typed
<1>3. L.bal = M.bal /\ L.grants = M.grants /\ L.reqs = M.reqs
  BY DEF SameBooks
<1>4. \A y \in Years : L.bal[y] # NoBalance => M.bal[y].granted >= L.bal[y].granted
  BY <1>1, <1>3
<1>5. Len(L.grants) <= Len(M.grants)
  BY <1>2, <1>3
<1> QED
  BY <1>3, <1>4, <1>5 DEF Since, SameGranted

\* One thing after another.
LEMMA SinceThen ==
  ASSUME NEW K, TypedBooks(K), NEW L, TypedBooks(L), NEW M, TypedBooks(M)
  PROVE  /\ Since(K, L) /\ Since(L, M) => Since(K, M)
         /\ SameGranted(K, L) /\ SameGranted(L, M) => SameGranted(K, M)
<1>1. ASSUME Since(K, L), Since(L, M)
      PROVE  Since(K, M)
  <2>1. K.reqs = L.reqs /\ L.reqs = M.reqs
    BY <1>1 DEF Since
  <2>2. ASSUME NEW y \in Years, K.bal[y] # NoBalance
        PROVE  /\ M.bal[y] # NoBalance
               /\ M.bal[y].used = K.bal[y].used
               /\ M.bal[y].pending = K.bal[y].pending
               /\ M.bal[y].granted >= K.bal[y].granted
    <3>1. /\ L.bal[y] # NoBalance
          /\ L.bal[y].used = K.bal[y].used
          /\ L.bal[y].pending = K.bal[y].pending
          /\ L.bal[y].granted >= K.bal[y].granted
      BY <1>1, <2>2 DEF Since
    <3>2. /\ M.bal[y] # NoBalance
          /\ M.bal[y].used = L.bal[y].used
          /\ M.bal[y].pending = L.bal[y].pending
          /\ M.bal[y].granted >= L.bal[y].granted
      BY <1>1, <3>1 DEF Since
    <3>3. K.bal[y].granted \in Int /\ L.bal[y].granted \in Int /\ M.bal[y].granted \in Int
      BY <2>2, <3>1, <3>2, Typed
    <3> QED  BY <3>1, <3>2, <3>3
  <2>3. /\ Len(K.grants) \in Nat /\ Len(L.grants) \in Nat /\ Len(M.grants) \in Nat
        /\ Len(K.grants) <= Len(L.grants) /\ Len(L.grants) <= Len(M.grants)
    BY <1>1, Typed DEF Since
  <2>4. ASSUME NEW g \in 1 .. Len(K.grants)
        PROVE  M.grants[g] = K.grants[g]
    <3>1. g \in 1 .. Len(L.grants)
      BY <2>3
    <3> QED  BY <1>1, <3>1 DEF Since
  <2> QED  BY <2>1, <2>2, <2>3, <2>4 DEF Since
<1>2. ASSUME SameGranted(K, L), SameGranted(L, M)
      PROVE  SameGranted(K, M)
  BY <1>2 DEF SameGranted
<1> QED
  BY <1>1, <1>2

\* An initialised balance and a new reward take nothing away.
LEMMA InsertSince ==
  ASSUME NEW L, TypedBooks(L)
  PROVE  /\ \A y \in Years, days \in Nat : L.bal[y] = NoBalance =>
              Since(L, Initialized(L, y, days)) /\ SameGranted(L, Initialized(L, y, days))
         /\ \A days \in Nat :
              Since(L, Rewarded(L, days)) /\ SameGranted(L, Rewarded(L, days))
<1>1. /\ L.bal = [y \in Years |-> L.bal[y]] /\ Len(L.grants) \in Nat /\ L.grants \in Seq(Grant)
      /\ \A y \in Years : L.bal[y] # NoBalance => L.bal[y].granted \in Int
  BY Typed DEF TypedBooks
<1>2. ASSUME NEW y \in Years, NEW days \in Nat, L.bal[y] = NoBalance
      PROVE  Since(L, Initialized(L, y, days)) /\ SameGranted(L, Initialized(L, y, days))
  <2> DEFINE M == Initialized(L, y, days)
  <2>1. M.grants = L.grants /\ M.reqs = L.reqs
    BY DEF Initialized
  <2>2. \A z \in Years : L.bal[z] # NoBalance => M.bal[z] = L.bal[z]
    BY <1>1, <1>2 DEF Initialized
  <2> HIDE DEF M
  <2>3. \A z \in Years : L.bal[z] # NoBalance => M.bal[z].granted >= L.bal[z].granted
    BY <1>1, <2>2
  <2>4. Len(L.grants) <= Len(M.grants)
    BY <1>1, <2>1
  <2>5. Since(L, M)
    BY <2>1, <2>2, <2>3, <2>4 DEF Since
  <2>6. SameGranted(L, M)
    BY <2>2 DEF SameGranted
  <2> QED  BY <2>5, <2>6 DEF M
<1>3. ASSUME NEW days \in Nat
      PROVE  Since(L, Rewarded(L, days)) /\ SameGranted(L, Rewarded(L, days))
  <2> DEFINE M == Rewarded(L, days)
             n == [granted |-> days, remaining |-> days, revoked |-> FALSE]
  <2>1. M.grants = Append(L.grants, n) /\ M.bal = L.bal /\ M.reqs = L.reqs
    BY DEF Rewarded
  <2>2. n \in Grant
    BY DEF Grant
  <2>3. /\ Len(M.grants) = Len(L.grants) + 1
        /\ \A g \in 1 .. Len(L.grants) : M.grants[g] = L.grants[g]
    <3> DEFINE T == Grant
    <3>1. L.grants \in Seq(T) /\ n \in T
      BY <1>1, <2>2
    <3> HIDE DEF M, n, T
    <3> QED  BY <2>1, <3>1
  <2> HIDE DEF M
  <2>4. Len(L.grants) <= Len(M.grants)
    BY <1>1, <2>3
  <2>5. \A y \in Years : L.bal[y] # NoBalance => M.bal[y].granted >= L.bal[y].granted
    BY <1>1, <2>1
  <2>6. Since(L, M)
    BY <2>1, <2>3, <2>4, <2>5 DEF Since
  <2>7. SameGranted(L, M)
    BY <2>1 DEF SameGranted
  <2> QED  BY <2>6, <2>7 DEF M
<1> QED
  BY <1>2, <1>3

\* An accrual takes nothing away.
LEMMA AccrueSince ==
  ASSUME NEW L, TypedBooks(L), NEW y \in Years, L.bal[y] # NoBalance, NEW days \in Nat
  PROVE  Since(L, Accrued(L, y, days))
<1> DEFINE M == Accrued(L, y, days)
           b == L.bal[y]
           n == [b EXCEPT !.granted = b.granted + days]
<1>1. M.bal = [L.bal EXCEPT ![y] = n] /\ M.grants = L.grants /\ M.reqs = L.reqs
  BY DEF Accrued
<1>2. /\ L.bal = [z \in Years |-> L.bal[z]] /\ Len(L.grants) \in Nat
      /\ \A z \in Years : L.bal[z] # NoBalance => L.bal[z].granted \in Int
      /\ b \in Bal
  BY Typed DEF TypedBooks
<1>3. NoBalance \notin Bal
  BY RulesAssumption DEF Bal
<1> HIDE DEF M, b
<1>4. n \in Bal /\ n.used = b.used /\ n.pending = b.pending /\ n.granted = b.granted + days
      /\ n.granted >= b.granted /\ n # NoBalance
  BY <1>2, <1>3 DEF Bal
<1> HIDE DEF n
<1>5. ASSUME NEW z \in Years, L.bal[z] # NoBalance
      PROVE  /\ M.bal[z] # NoBalance
             /\ M.bal[z].used = L.bal[z].used
             /\ M.bal[z].pending = L.bal[z].pending
             /\ M.bal[z].granted >= L.bal[z].granted
  <2>1. CASE z = y
    <3>1. M.bal[z] = n /\ L.bal[z] = b
      BY <1>1, <1>2, <2>1 DEF b
    <3> QED  BY <1>4, <3>1
  <2>2. CASE z # y
    <3>1. M.bal[z] = L.bal[z]
      BY <1>1, <1>2, <2>2
    <3> QED  BY <1>2, <1>5, <3>1
  <2> QED  BY <2>1, <2>2
<1>6. Len(L.grants) <= Len(M.grants)
  BY <1>1, <1>2
<1> QED
  BY <1>1, <1>5, <1>6 DEF Since, M

\* The handlers of requests, a correction and a revocation grant nothing to a year.
LEMMA OthersGrantNothing ==
  ASSUME NEW L, TypedBooks(L)
  PROVE  /\ \A M, id : Moves(L, M, id) => SameGranted(L, M)
         /\ \A y \in Years, days \in Nat : SameGranted(L, UsedSetTo(L, y, days))
         /\ \A g \in 1 .. Len(L.grants) : SameGranted(L, Revoked(L, g))
<1>1. \A M, id : Moves(L, M, id) => SameGranted(L, M)
  BY DEF Moves, SameGranted
<1>2. ASSUME NEW y \in Years, NEW days \in Nat
      PROVE  SameGranted(L, UsedSetTo(L, y, days))
  <2> DEFINE M == UsedSetTo(L, y, days)
             b == L.bal[y]
             n == [b EXCEPT !.used = days]
  <2>1. M.bal = [L.bal EXCEPT ![y] = n]
    BY DEF UsedSetTo
  <2>2. L.bal = [z \in Years |-> L.bal[z]] /\ (b # NoBalance => b \in Bal) /\ NoBalance \notin Bal
    BY Typed, RulesAssumption DEF TypedBooks, Bal
  <2> HIDE DEF M, b
  <2>3. b # NoBalance => n \in Bal /\ n.granted = b.granted
    BY <2>2 DEF Bal
  <2> HIDE DEF n
  <2>4. ASSUME NEW z \in Years, L.bal[z] # NoBalance
        PROVE  M.bal[z] # NoBalance /\ M.bal[z].granted = L.bal[z].granted
    <3>1. CASE z = y
      <4>1. M.bal[z] = n /\ L.bal[z] = b
        BY <2>1, <2>2, <3>1 DEF b
      <4> QED  BY <2>2, <2>3, <2>4, <4>1
    <3>2. CASE z # y
      <4>1. M.bal[z] = L.bal[z]
        BY <2>1, <2>2, <3>2
      <4> QED  BY <2>4, <4>1
    <3> QED  BY <3>1, <3>2
  <2> QED  BY <2>4 DEF SameGranted, M
<1>3. ASSUME NEW g \in 1 .. Len(L.grants)
      PROVE  SameGranted(L, Revoked(L, g))
  <2>1. Revoked(L, g).bal = L.bal
    BY <1>3, RevokedRows
  <2> QED  BY <2>1 DEF SameGranted
<1> QED
  BY <1>1, <1>2, <1>3

\* A plan that was covered is covered still.
LEMMA StillCovered ==
  ASSUME NEW S, TypedBooks(S), NEW L, TypedBooks(L), Since(S, L), NEW p, PlanCovered(S, p)
  PROVE  PlanCovered(L, p)
<1>1. p.year \in [Years -> Nat] /\ p.grant \in [GrantIds -> Nat]
  BY DEF PlanCovered
<1>2. ASSUME NEW y \in Years, p.year[y] > 0
      PROVE  L.bal[y] # NoBalance /\ p.year[y] <= Remaining(L.bal[y])
  <2>1. S.bal[y] # NoBalance /\ p.year[y] <= Remaining(S.bal[y]) /\ p.year[y] \in Nat
    BY <1>1, <1>2 DEF PlanCovered
  <2>2. /\ L.bal[y] # NoBalance
        /\ L.bal[y].used = S.bal[y].used /\ L.bal[y].pending = S.bal[y].pending
        /\ L.bal[y].granted >= S.bal[y].granted
    BY <2>1 DEF Since
  <2>3. /\ S.bal[y].granted \in Int /\ S.bal[y].used \in Int /\ S.bal[y].pending \in Int
        /\ L.bal[y].granted \in Int
    BY <2>1, <2>2, Typed
  <2> QED  BY <2>1, <2>2, <2>3 DEF Remaining
<1>3. /\ Len(S.grants) \in Nat /\ Len(L.grants) \in Nat /\ Len(S.grants) <= Len(L.grants)
      /\ GrantIds = 1 .. MaxGrants
      /\ \A g \in 1 .. Len(L.grants) : g \in GrantIds /\ Usable(L.grants, g) \in Nat
  <2>1. /\ Len(S.grants) \in Nat /\ Len(L.grants) \in Nat /\ Len(S.grants) <= Len(L.grants)
        /\ \A g \in 1 .. Len(L.grants) : g \in GrantIds /\ L.grants[g].remaining \in Int
    BY Typed DEF Since
  <2>2. \A g \in 1 .. Len(L.grants) : Usable(L.grants, g) \in Nat
    BY <2>1 DEF Usable
  <2> QED  BY <2>1, <2>2 DEF GrantIds
<1>4. ASSUME NEW g \in GrantIds, g > Len(L.grants)
      PROVE  p.grant[g] = 0
  <2>1. g > Len(S.grants)
    BY <1>3, <1>4
  <2> QED  BY <2>1 DEF PlanCovered
<1>5. ASSUME NEW g \in 1 .. Len(L.grants)
      PROVE  p.grant[g] <= Usable(L.grants, g)
  <2>1. CASE g \in 1 .. Len(S.grants)
    <3>1. p.grant[g] <= Usable(S.grants, g) /\ L.grants[g] = S.grants[g]
      BY <2>1 DEF PlanCovered, Since
    <3> QED  BY <3>1 DEF Usable
  <2>2. CASE g \notin 1 .. Len(S.grants)
    <3>1. g \in GrantIds /\ g > Len(S.grants) /\ Usable(L.grants, g) \in Nat
      BY <1>3, <2>2
    <3>2. p.grant[g] = 0
      BY <3>1 DEF PlanCovered
    <3> QED  BY <3>1, <3>2
  <2> QED  BY <2>1, <2>2
<1> QED
  BY <1>1, <1>2, <1>4, <1>5 DEF PlanCovered

\* The plan that a handler of create_leave_request makes of what it reads.
LEMMA PlanMade ==
  ASSUME NEW L, Kept(L), NEW need \in [Years -> Nat], CanCharge(L, need)
  PROVE  PlanCovered(L, Plan(L, need)) /\ PlanGives(need, Plan(L, need))
<1> DEFINE p == Plan(L, need)
<1>1. PlanFits(L, need, p) /\ PlanCovered(L, p)
  BY PlanIsFit DEF Kept, PlanFits
<1> HIDE DEF p
<1>2. ASSUME \A y \in Correctable : need[y] = 0
      PROVE  SumFunction(p.year) + SumFunction(p.grant) = SumFunction(need)
  <2>1. ASSUME NEW y \in Years, need[y] > 0
        PROVE  Remaining(L.bal[y]) >= 0
    <3>1. L.bal[y] # NoBalance
      BY <2>1 DEF CanCharge
    <3>2. y \notin Correctable
      BY <1>2, <2>1
    <3>3. Covered(L.bal[y])
      BY <3>1, <3>2 DEF Kept, CoveredKept
    <3>4. L.bal[y].granted \in Int /\ L.bal[y].used \in Int /\ L.bal[y].pending \in Int
      BY <3>1, Typed DEF Kept
    <3> QED
      BY <3>3, <3>4 DEF Covered, Remaining
  <2> QED
    BY <1>1, <2>1 DEF PlanFits
<1> QED
  BY <1>1, <1>2 DEF PlanGives, p

\* A plan made from what was read keeps the books when it is applied later.
LEMMA StalePlanKeeps ==
  ASSUME NEW L, Kept(L), TakesKept(L), NEW id \in Ids, NEW need \in [Years -> Nat],
         L.reqs[id].status = "NONE", NEW p, PlanCovered(L, p), PlanGives(need, p)
  PROVE  LET M == Charged(L, id, need, p)
         IN  Kept(M) /\ TakesKept(M) /\ SameGranted(L, M)
<1> DEFINE M == Charged(L, id, need, p)
<1>1. HoldsNothing(L.reqs[id])
  BY DEF HoldsNothing, Held, HeldReward, Holding
<1>2. ChargePosted(L, M, id, need, p)
  BY <1>1, ChargePosts
<1> HIDE DEF M
<1>3. Moves(L, M, id) /\ Sound(L, M, id)
  BY <1>2 DEF ChargePosted
<1>4. Kept(M)
  BY <1>3, MoveKeeps
<1>5. \A i \in Ids \ {id} : M.reqs[i] = L.reqs[i]
  BY <1>3 DEF Moves
<1>6. M.reqs[id].need = need /\ M.reqs[id].year = p.year /\ M.reqs[id].grant = p.grant
  BY <1>2 DEF ChargePosted
<1>7. Uncorrected(M.reqs[id]) => Takes(M.reqs[id])
  BY <1>6 DEF Uncorrected, Takes, PlanGives
<1>8. TakesKept(M)
  BY <1>5, <1>7, OthersTake
<1>9. SameGranted(L, M)
  BY <1>3, OthersGrantNothing DEF Kept
<1> QED
  BY <1>4, <1>8, <1>9 DEF M

-----------------------------------------------------------------------------
\* A session that has just read the books, or read them again.
Fresh(s) == InSession(s) /\ SameBooks(Books, s.snap) /\ PlanCurrent(s)

Load(c) == \/ LoadCreate(c) \/ LoadCancel(c) \/ LoadDecision(c)
           \/ LoadBalance(c) \/ LoadReward(c)

\* A handler that begins has passed its guards on what is in the books.
LEMMA LoadBegins ==
  ASSUME LInv, NEW c \in Clients, Load(c)
  PROVE  \E s : /\ Fresh(s) /\ s.op \in Allowed[c]
                /\ client' = [client EXCEPT ![c] = s]
                /\ UNCHANGED <<bal, grants, reqs>>
<1> DEFINE S(op, x, arg, ready) == [op |-> op, x |-> x, arg |-> arg,
                                    ready |-> ready, snap |-> Books]
<1>1. /\ TypedBooks(Books) /\ NothingBeyond(Books) /\ Kept(Books)
      /\ Books = [bal |-> Books.bal, grants |-> Books.grants, reqs |-> Books.reqs]
      /\ SameBooks(Books, Books)
  BY DEF LInv, Kept, Books, SameBooks
<1>2. ASSUME NEW op, NEW x, NEW arg, NEW ready, Begin(c, op, x, arg, ready),
             Passed(S(op, x, arg, ready)), PlanCurrent(S(op, x, arg, ready))
      PROVE  \E s : /\ Fresh(s) /\ s.op \in Allowed[c]
                    /\ client' = [client EXCEPT ![c] = s]
                    /\ UNCHANGED <<bal, grants, reqs>>
  <2> DEFINE s == S(op, x, arg, ready)
  <2>1. /\ s = [op |-> s.op, x |-> s.x, arg |-> s.arg, ready |-> s.ready, snap |-> s.snap]
        /\ s.snap = Books /\ s.op = op
    OBVIOUS
  <2>2. op \in Allowed[c] /\ client' = [client EXCEPT ![c] = s] /\ UNCHANGED <<bal, grants, reqs>>
    BY <1>2 DEF Begin
  <2>3. Passed(s) /\ PlanCurrent(s)
    BY <1>2
  <2> HIDE DEF s
  <2>4. Fresh(s)
    BY <1>1, <2>1, <2>3 DEF Fresh, InSession
  <2> QED  BY <2>1, <2>2, <2>4
<1>3. CASE LoadCreate(c)
  <2>1. PICK id \in Ids, need \in Needs, u \in Users :
          /\ reqs[id].status = "NONE" /\ MayHandle(u) /\ CanCharge(Books, need)
          /\ Begin(c, "create", id, [need |-> need, plan |-> Plan(Books, need)], FALSE)
    BY <1>3 DEF LoadCreate
  <2> DEFINE p == Plan(Books, need)
             s == S("create", id, [need |-> need, plan |-> p], FALSE)
  <2>2. need \in [Years -> Nat]
    BY LedgerAssumption
  <2>3. PlanCovered(Books, p) /\ PlanGives(need, p)
    BY <1>1, <2>1, <2>2, PlanMade
  <2>4. /\ s.op = "create" /\ s.x = id /\ s.snap = Books
        /\ s.arg.need = need /\ s.arg.plan = p
    OBVIOUS
  <2>5. Books.reqs[id].status = "NONE"
    BY <2>1, BooksFields
  <2>6. PlanCurrent(s)
    BY <2>1, <2>4 DEF PlanCurrent
  <2> HIDE DEF s, p
  <2>7. Passed(s)
    BY <2>1, <2>3, <2>4, <2>5 DEF Passed
  <2> QED  BY <1>2, <2>1, <2>6, <2>7 DEF s, p
<1>4. CASE LoadCancel(c)
  <2>1. PICK id \in Ids, u \in Users :
          /\ reqs[id].status \in Holding /\ MayHandle(u)
          /\ Begin(c, "cancel", id, NoDays, FALSE)
    BY <1>4 DEF LoadCancel, Holding
  <2> DEFINE s == S("cancel", id, NoDays, FALSE)
  <2>2. s.op = "cancel" /\ s.x = id /\ s.snap = Books /\ s.ready = FALSE
    OBVIOUS
  <2> HIDE DEF s
  <2>3. Passed(s)
    BY <2>1, <2>2, BooksFields DEF Passed, OnRequest
  <2>4. PlanCurrent(s)
    BY <2>2 DEF PlanCurrent
  <2> QED  BY <1>2, <2>1, <2>3, <2>4 DEF s
<1>5. CASE LoadDecision(c)
  <2>1. PICK id \in Ids, u \in Users :
          /\ reqs[id].status = "PENDING" /\ MayDecide(u)
          /\ \/ u \notin Self /\ Begin(c, "approve", id, NoDays, FALSE)
             \/ Begin(c, "reject", id, NoDays, FALSE)
    BY <1>5 DEF LoadDecision
  <2>2. CASE u \notin Self /\ Begin(c, "approve", id, NoDays, FALSE)
    <3> DEFINE s == S("approve", id, NoDays, FALSE)
    <3>1. s.op = "approve" /\ s.x = id /\ s.snap = Books /\ s.ready = FALSE
      OBVIOUS
    <3> HIDE DEF s
    <3>2. Passed(s)
      BY <2>1, <2>2, <3>1, BooksFields DEF Passed, OnRequest
    <3>3. PlanCurrent(s)
      BY <3>1 DEF PlanCurrent
    <3> QED  BY <1>2, <2>2, <3>2, <3>3 DEF s
  <2>3. CASE Begin(c, "reject", id, NoDays, FALSE)
    <3> DEFINE s == S("reject", id, NoDays, FALSE)
    <3>1. s.op = "reject" /\ s.x = id /\ s.snap = Books /\ s.ready = FALSE
      OBVIOUS
    <3> HIDE DEF s
    <3>2. Passed(s)
      BY <2>1, <3>1, BooksFields DEF Passed, OnRequest
    <3>3. PlanCurrent(s)
      BY <3>1 DEF PlanCurrent
    <3> QED  BY <1>2, <2>3, <3>2, <3>3 DEF s
  <2> QED  BY <2>1, <2>2, <2>3
<1>6. CASE LoadBalance(c)
  <2>1. PICK y \in Years :
          /\ bal[y] # NoBalance
          /\ \/ \E days \in AccrualDays : /\ bal[y].granted + days <= MaxGranted
                                          /\ Begin(c, "accrue", y, days, TRUE)
             \/ /\ y \in Correctable
                /\ \E days \in UsedDays \ {bal[y].used} : Begin(c, "setused", y, days, TRUE)
             \/ y \in Purgeable /\ Begin(c, "purge", y, 0, TRUE)
    BY <1>6 DEF LoadBalance
  <2>2. CASE \E days \in AccrualDays : /\ bal[y].granted + days <= MaxGranted
                                       /\ Begin(c, "accrue", y, days, TRUE)
    <3>1. PICK days \in AccrualDays : /\ bal[y].granted + days <= MaxGranted
                                      /\ Begin(c, "accrue", y, days, TRUE)
      BY <2>2
    <3> DEFINE s == S("accrue", y, days, TRUE)
    <3>2. s.op = "accrue" /\ s.x = y /\ s.arg = days /\ s.snap = Books /\ s.ready = TRUE
      OBVIOUS
    <3> HIDE DEF s
    <3>3. Passed(s)
      BY <2>1, <3>1, <3>2, BooksFields DEF Passed
    <3>4. PlanCurrent(s)
      BY <3>2 DEF PlanCurrent
    <3> QED  BY <1>2, <3>1, <3>3, <3>4 DEF s
  <2>3. CASE /\ y \in Correctable
             /\ \E days \in UsedDays \ {bal[y].used} : Begin(c, "setused", y, days, TRUE)
    <3>1. PICK days \in UsedDays \ {bal[y].used} : Begin(c, "setused", y, days, TRUE)
      BY <2>3
    <3> DEFINE s == S("setused", y, days, TRUE)
    <3>2. s.op = "setused" /\ s.x = y /\ s.arg = days /\ s.snap = Books /\ s.ready = TRUE
      OBVIOUS
    <3> HIDE DEF s
    <3>3. Passed(s)
      BY <2>1, <2>3, <3>1, <3>2, BooksFields DEF Passed
    <3>4. PlanCurrent(s)
      BY <3>2 DEF PlanCurrent
    <3> QED  BY <1>2, <3>1, <3>3, <3>4 DEF s
  <2>4. CASE y \in Purgeable /\ Begin(c, "purge", y, 0, TRUE)
    <3> DEFINE s == S("purge", y, 0, TRUE)
    <3>1. s.op = "purge" /\ s.x = y /\ s.snap = Books /\ s.ready = TRUE
      OBVIOUS
    <3> HIDE DEF s
    <3>2. Passed(s)
      BY <2>1, <2>4, <3>1, BooksFields DEF Passed
    <3>3. PlanCurrent(s)
      BY <3>1 DEF PlanCurrent
    <3> QED  BY <1>2, <2>4, <3>2, <3>3 DEF s
  <2> QED  BY <2>1, <2>2, <2>3, <2>4
<1>7. CASE LoadReward(c)
  <2>1. PICK g \in DOMAIN grants : ~ grants[g].revoked /\ Begin(c, "revoke", g, 0, TRUE)
    BY <1>7 DEF LoadReward
  <2>2. g \in 1 .. Len(Books.grants) /\ ~ Books.grants[g].revoked
    BY <1>1, <2>1, BooksFields, Typed
  <2> DEFINE s == S("revoke", g, 0, TRUE)
  <2>3. s.op = "revoke" /\ s.x = g /\ s.snap = Books /\ s.ready = TRUE
    OBVIOUS
  <2> HIDE DEF s
  <2>4. Passed(s)
    BY <2>2, <2>3 DEF Passed
  <2>5. PlanCurrent(s)
    BY <2>3 DEF PlanCurrent
  <2> QED  BY <1>2, <2>1, <2>4, <2>5 DEF s
<1> QED
  BY <1>3, <1>4, <1>5, <1>6, <1>7 DEF Load

\* The second read brings a handler up to date, if nobody has changed the requests.
LEMMA FetchReads ==
  ASSUME LInv, NEW c \in Clients, client = [d \in Clients |-> client[d]],
         InSession(client[c]), Since(client[c].snap, Books), Fetch(c)
  PROVE  \E t : /\ InSession(t) /\ SameBooks(Books, t.snap) /\ t.op = client[c].op
                /\ SameGranted(client[c].snap, Books) /\ PlanCurrent(client[c]) => PlanCurrent(t)
                /\ client' = [client EXCEPT ![c] = t]
                /\ UNCHANGED <<bal, grants, reqs>>
<1> DEFINE s == client[c]
           snap == [s.snap EXCEPT !.bal = bal, !.grants = grants]
           t == [op |-> s.op, x |-> s.x, arg |-> s.arg, ready |-> TRUE, snap |-> Books]
<1>1. /\ TypedBooks(Books) /\ NothingBeyond(Books) /\ Kept(Books)
      /\ Books = [bal |-> Books.bal, grants |-> Books.grants, reqs |-> Books.reqs]
      /\ SameBooks(Books, Books)
  BY DEF LInv, Kept, Books, SameBooks
<1>2. /\ ~ s.ready
      /\ s.op = "create" => \A y \in Years : s.arg.plan.year[y] > 0 => bal[y] # NoBalance
      /\ s.op # "create" => BalancesExist(snap, s.x)
      /\ client' = [client EXCEPT ![c].snap = snap, ![c].ready = TRUE]
      /\ UNCHANGED <<bal, grants, reqs>>
  BY DEF Fetch
<1>3. /\ s = [op |-> s.op, x |-> s.x, arg |-> s.arg, ready |-> s.ready, snap |-> s.snap]
      /\ s.snap = [bal |-> s.snap.bal, grants |-> s.snap.grants, reqs |-> s.snap.reqs]
      /\ TypedBooks(s.snap) /\ Passed(s)
  BY DEF InSession
<1>4. s.snap.reqs = Books.reqs
  BY DEF Since
<1>5. snap = Books
  <2> DEFINE k == s.snap
  <2>1. k = [bal |-> k.bal, grants |-> k.grants, reqs |-> k.reqs] /\ k.reqs = reqs
    BY <1>3, <1>4, BooksFields
  <2> DEFINE i == [k EXCEPT !.bal = bal]
             j == [i EXCEPT !.grants = grants]
  <2>2. snap = j
    OBVIOUS
  <2> HIDE DEF k, s, snap
  <2>3. i = [bal |-> bal, grants |-> k.grants, reqs |-> reqs]
    BY <2>1
  <2> HIDE DEF i
  <2>4. j = [bal |-> bal, grants |-> grants, reqs |-> reqs]
    BY <2>3
  <2> QED  BY <2>2, <2>4 DEF Books
<1>6. client' = [client EXCEPT ![c] = t]
  <2>1. client' = [client EXCEPT ![c] = [[s EXCEPT !.snap = snap] EXCEPT !.ready = TRUE]]
    BY <1>2
  <2> DEFINE z == [[s EXCEPT !.snap = snap] EXCEPT !.ready = TRUE]
  <2>2. z = t
    <3>1. PICK o, x, a, r, k, v : /\ s = [op |-> o, x |-> x, arg |-> a, ready |-> r, snap |-> k]
                                  /\ t = [op |-> o, x |-> x, arg |-> a, ready |-> v, snap |-> snap]
                                  /\ v = TRUE
      BY <1>3, <1>5
    <3> HIDE DEF s, t, snap
    <3>2. [s EXCEPT !.snap = snap] = [op |-> o, x |-> x, arg |-> a, ready |-> r, snap |-> snap]
      BY <3>1
    <3>3. [[op |-> o, x |-> x, arg |-> a, ready |-> r, snap |-> snap] EXCEPT !.ready = v]
            = [op |-> o, x |-> x, arg |-> a, ready |-> v, snap |-> snap]
      OBVIOUS
    <3> QED  BY <3>1, <3>2, <3>3
  <2> HIDE DEF z, t, snap
  <2> QED  BY <2>1, <2>2 DEF z
<1>7. /\ t.op = s.op /\ t.x = s.x /\ t.arg = s.arg /\ t.ready = TRUE /\ t.snap = Books
      /\ t = [op |-> t.op, x |-> t.x, arg |-> t.arg, ready |-> t.ready, snap |-> t.snap]
  OBVIOUS
<1> HIDE DEF t, snap
<1>8. Passed(t)
  <2>1. CASE s.op = "create"
    <3>1. /\ s.x \in Ids /\ s.snap.reqs[s.x].status = "NONE"
          /\ \E u \in Users : MayHandle(u)
          /\ s.arg.need \in Needs
          /\ PlanCovered(s.snap, s.arg.plan) /\ PlanGives(s.arg.need, s.arg.plan)
      BY <1>3, <2>1 DEF Passed
    <3>2. PlanCovered(Books, s.arg.plan)
      BY <1>1, <1>3, <3>1, StillCovered
    <3> HIDE DEF s
    <3> QED  BY <1>4, <1>7, <2>1, <3>1, <3>2 DEF Passed
  <2>2. CASE s.op \in {"cancel", "approve", "reject"}
    <3>1. BalancesExist(Books, s.x) /\ s.x \in Ids
      BY <1>2, <1>3, <1>5, <2>2 DEF Passed, OnRequest
    <3> HIDE DEF s
    <3> QED  BY <1>3, <1>4, <1>7, <2>2, <3>1 DEF Passed, OnRequest
  <2> HIDE DEF s
  <2> QED  BY <1>2, <1>3, <2>1, <2>2 DEF Passed
<1>9. InSession(t) /\ SameBooks(Books, t.snap)
  BY <1>1, <1>7, <1>8 DEF InSession
<1>10. ASSUME SameGranted(s.snap, Books), PlanCurrent(s)
       PROVE  PlanCurrent(t)
  <2> SUFFICES ASSUME t.op = "create"
               PROVE  CanCharge(Books, t.arg.need) /\ t.arg.plan = Plan(Books, t.arg.need)
    BY <1>7 DEF PlanCurrent
  <2>1. /\ s.op = "create" /\ CanCharge(s.snap, s.arg.need) /\ s.arg.plan = Plan(s.snap, s.arg.need)
    BY <1>7, <1>10 DEF PlanCurrent
  <2>2. s.arg.need \in [Years -> Nat]
    BY <1>3, <2>1, LedgerAssumption DEF Passed
  <2> QED  BY <1>1, <1>3, <1>7, <1>10, <2>1, <2>2, PlanStable
<1> QED
  BY <1>2, <1>6, <1>7, <1>9, <1>10

-----------------------------------------------------------------------------
\* A session that may commit: what it read to write is still there.
Current(s) == /\ InSession(s) /\ s.ready
              /\ s.op = "accrue" => SameGranted(s.snap, Books)
              /\ s.op # "accrue" => Since(s.snap, Books)

\* The operation of the session, on the books as they are.
CommitsAs(s, M) ==
  \/ s.op = "create"  /\ M = Charged(Books, s.x, s.arg.need, s.arg.plan)
  \/ s.op = "cancel"  /\ M = Refunded(Books, s.x, "CANCELLED")
  \/ s.op = "approve" /\ M = Approved(Books, s.x)
  \/ s.op = "reject"  /\ M = Refunded(Books, s.x, "REJECTED")
  \/ s.op = "accrue"  /\ M = Accrued(Books, s.x, s.arg)
  \/ s.op = "setused" /\ M = UsedSetTo(Books, s.x, s.arg)
  \/ s.op = "purge"   /\ M = Purged(Books, s.x)
  \/ s.op = "revoke"  /\ M = Revoked(Books, s.x)

\* The columns that a session writes make of the books what its operation does.
LEMMA CommitIs ==
  ASSUME TypedBooks(Books), NEW s, Current(s)
  PROVE  \E M : CommitsAs(s, M) /\ SameBooks(Merge(s.snap, Outcome(s)), M)
<1>1. /\ TypedBooks(s.snap) /\ NothingBeyond(s.snap) /\ Passed(s) /\ s.ready
      /\ s.op = "accrue" => SameGranted(s.snap, Books)
      /\ s.op # "accrue" => Since(s.snap, Books)
  BY DEF Current, InSession
<1>2. CASE s.op = "create"
  <2>1. /\ s.x \in Ids /\ s.arg.need \in [Years -> Nat] /\ PlanCovered(s.snap, s.arg.plan)
        /\ Since(s.snap, Books)
    BY <1>1, <1>2, LedgerAssumption DEF Passed
  <2>2. Outcome(s) = Charged(s.snap, s.x, s.arg.need, s.arg.plan)
    BY <1>2 DEF Outcome
  <2>3. SameBooks(Merge(s.snap, Charged(s.snap, s.x, s.arg.need, s.arg.plan)),
                  Charged(Books, s.x, s.arg.need, s.arg.plan))
    BY <1>1, <2>1, ChargeMerged
  <2>4. CommitsAs(s, Charged(Books, s.x, s.arg.need, s.arg.plan))
    BY <1>2 DEF CommitsAs
  <2> QED  BY <2>2, <2>3, <2>4
<1>3. CASE s.op = "cancel"
  <2>1. s.x \in Ids /\ BalancesExist(s.snap, s.x) /\ Since(s.snap, Books) /\ "CANCELLED" \in Statuses
    BY <1>1, <1>3 DEF Passed, OnRequest, Statuses
  <2>2. Outcome(s) = Refunded(s.snap, s.x, "CANCELLED")
    BY <1>3 DEF Outcome
  <2>3. SameBooks(Merge(s.snap, Refunded(s.snap, s.x, "CANCELLED")), Refunded(Books, s.x, "CANCELLED"))
    BY <1>1, <2>1, RefundMerged
  <2>4. CommitsAs(s, Refunded(Books, s.x, "CANCELLED"))
    BY <1>3 DEF CommitsAs
  <2> QED  BY <2>2, <2>3, <2>4
<1>4. CASE s.op = "approve"
  <2>1. s.x \in Ids /\ BalancesExist(s.snap, s.x) /\ Since(s.snap, Books)
    BY <1>1, <1>4 DEF Passed, OnRequest
  <2>2. Outcome(s) = Approved(s.snap, s.x)
    BY <1>4 DEF Outcome
  <2>3. SameBooks(Merge(s.snap, Approved(s.snap, s.x)), Approved(Books, s.x))
    BY <1>1, <2>1, ApproveMerged
  <2>4. CommitsAs(s, Approved(Books, s.x))
    BY <1>4 DEF CommitsAs
  <2> QED  BY <2>2, <2>3, <2>4
<1>5. CASE s.op = "reject"
  <2>1. s.x \in Ids /\ BalancesExist(s.snap, s.x) /\ Since(s.snap, Books) /\ "REJECTED" \in Statuses
    BY <1>1, <1>5 DEF Passed, OnRequest, Statuses
  <2>2. Outcome(s) = Refunded(s.snap, s.x, "REJECTED")
    BY <1>5 DEF Outcome
  <2>3. SameBooks(Merge(s.snap, Refunded(s.snap, s.x, "REJECTED")), Refunded(Books, s.x, "REJECTED"))
    BY <1>1, <2>1, RefundMerged
  <2>4. CommitsAs(s, Refunded(Books, s.x, "REJECTED"))
    BY <1>5 DEF CommitsAs
  <2> QED  BY <2>2, <2>3, <2>4
<1>6. CASE s.op = "accrue"
  <2>1. s.x \in Years /\ s.snap.bal[s.x] # NoBalance /\ s.arg \in Nat /\ SameGranted(s.snap, Books)
    BY <1>1, <1>6, LedgerAssumption DEF Passed
  <2>2. Outcome(s) = Accrued(s.snap, s.x, s.arg)
    BY <1>6 DEF Outcome
  <2>3. SameBooks(Merge(s.snap, Accrued(s.snap, s.x, s.arg)), Accrued(Books, s.x, s.arg))
    BY <1>1, <2>1, AccrueMerged
  <2>4. CommitsAs(s, Accrued(Books, s.x, s.arg))
    BY <1>6 DEF CommitsAs
  <2> QED  BY <2>2, <2>3, <2>4
<1>7. CASE s.op = "setused"
  <2>1. /\ s.x \in Years /\ s.snap.bal[s.x] # NoBalance /\ s.arg \in Nat
        /\ s.snap.bal[s.x].used # s.arg /\ Since(s.snap, Books)
    BY <1>1, <1>7, LedgerAssumption DEF Passed
  <2>2. Books.bal[s.x] # NoBalance
    BY <2>1 DEF Since
  <2>3. Outcome(s) = UsedSetTo(s.snap, s.x, s.arg)
    BY <1>7 DEF Outcome
  <2>4. SameBooks(Merge(s.snap, UsedSetTo(s.snap, s.x, s.arg)), UsedSetTo(Books, s.x, s.arg))
    BY <1>1, <2>1, <2>2, SetUsedMerged
  <2>5. CommitsAs(s, UsedSetTo(Books, s.x, s.arg))
    BY <1>7 DEF CommitsAs
  <2> QED  BY <2>3, <2>4, <2>5
<1>8. CASE s.op = "purge"
  <2>1. s.x \in Years /\ s.snap.bal[s.x] # NoBalance
    BY <1>1, <1>8, LedgerAssumption DEF Passed
  <2>2. Outcome(s) = Purged(s.snap, s.x)
    BY <1>8 DEF Outcome
  <2>3. SameBooks(Merge(s.snap, Purged(s.snap, s.x)), Purged(Books, s.x))
    BY <1>1, <2>1, PurgeMerged
  <2>4. CommitsAs(s, Purged(Books, s.x))
    BY <1>8 DEF CommitsAs
  <2> QED  BY <2>2, <2>3, <2>4
<1>9. CASE s.op = "revoke"
  <2>1. s.x \in 1 .. Len(s.snap.grants) /\ Since(s.snap, Books)
    BY <1>1, <1>9 DEF Passed
  <2>2. Outcome(s) = Revoked(s.snap, s.x)
    BY <1>9 DEF Outcome
  <2>3. SameBooks(Merge(s.snap, Revoked(s.snap, s.x)), Revoked(Books, s.x))
    BY <1>1, <2>1, RevokeMerged
  <2>4. CommitsAs(s, Revoked(Books, s.x))
    BY <1>9 DEF CommitsAs
  <2> QED  BY <2>2, <2>3, <2>4
<1> QED
  BY <1>1, <1>2, <1>3, <1>4, <1>5, <1>6, <1>7, <1>8, <1>9 DEF Passed

\* A request that a session may close or approve is in the books as it read it.
LEMMA RequestThere ==
  ASSUME NEW s, InSession(s), s.ready, Since(s.snap, Books), s.op \in {"cancel", "approve", "reject"}
  PROVE  /\ s.x \in Ids /\ BalancesExist(Books, s.x)
         /\ Books.reqs[s.x].status \in Holding
         /\ s.op # "cancel" => Books.reqs[s.x].status = "PENDING"
<1>1. s.x \in Ids /\ BalancesExist(s.snap, s.x) /\ s.snap.reqs[s.x].status \in Holding
      /\ (s.op # "cancel" => s.snap.reqs[s.x].status = "PENDING")
  BY DEF InSession, Passed, OnRequest, Holding
<1>2. s.snap.reqs = Books.reqs
  BY DEF Since
<1>3. \A y \in Years : s.snap.bal[y] # NoBalance => Books.bal[y] # NoBalance
  BY DEF Since
<1> QED
  BY <1>1, <1>2, <1>3 DEF BalancesExist

\* What a commit keeps, and what other handlers may rely on.
LEMMA CommitKeeps ==
  ASSUME LInv, NEW s, Current(s), NEW M, CommitsAs(s, M)
  PROVE  /\ Kept(M) /\ TakesKept(M)
         /\ s.op \notin {"accrue", "purge"} => SameGranted(Books, M)
         /\ s.op = "accrue" => Since(Books, M)
<1>1. /\ Kept(Books) /\ TakesKept(Books) /\ TypedBooks(Books)
      /\ TypedBooks(s.snap) /\ Passed(s) /\ s.ready /\ InSession(s)
      /\ s.op = "accrue" => SameGranted(s.snap, Books)
      /\ s.op # "accrue" => Since(s.snap, Books)
  BY DEF LInv, Kept, Current, InSession
<1>2. CASE s.op = "create"
  <2>1. /\ s.x \in Ids /\ s.arg.need \in [Years -> Nat] /\ PlanCovered(s.snap, s.arg.plan)
        /\ PlanGives(s.arg.need, s.arg.plan)
        /\ s.snap.reqs[s.x].status = "NONE" /\ Since(s.snap, Books)
    BY <1>1, <1>2, LedgerAssumption DEF Passed
  <2>2. PlanCovered(Books, s.arg.plan)
    BY <1>1, <2>1, StillCovered
  <2>3. Books.reqs[s.x].status = "NONE"
    BY <2>1 DEF Since
  <2>4. M = Charged(Books, s.x, s.arg.need, s.arg.plan)
    BY <1>2 DEF CommitsAs
  <2>5. Kept(M) /\ TakesKept(M) /\ SameGranted(Books, M)
    BY <1>1, <2>1, <2>2, <2>3, <2>4, StalePlanKeeps
  <2> QED  BY <1>2, <2>5
<1>3. CASE s.op = "cancel"
  <2>1. s.x \in Ids /\ BalancesExist(Books, s.x) /\ Books.reqs[s.x].status \in Holding
    BY <1>1, <1>3, RequestThere
  <2>2. M = Refunded(Books, s.x, "CANCELLED") /\ "CANCELLED" \in Statuses
    BY <1>3 DEF CommitsAs, Statuses
  <2>3. RefundDone(Books, M, s.x, "CANCELLED")
    BY <1>1, <2>1, <2>2, RefundMoves
  <2>4. Steps(Books, M)
    BY <1>1, <2>1, <2>2, RefundSteps
  <2>5. SameGranted(Books, M)
    BY <1>1, <2>3, OthersGrantNothing DEF RefundDone
  <2> QED  BY <1>3, <2>4, <2>5 DEF Steps
<1>4. CASE s.op = "approve"
  <2>1. s.x \in Ids /\ BalancesExist(Books, s.x) /\ Books.reqs[s.x].status = "PENDING"
    BY <1>1, <1>4, RequestThere
  <2>2. M = Approved(Books, s.x)
    BY <1>4 DEF CommitsAs
  <2>3. ApproveDone(Books, M, s.x)
    BY <1>1, <2>1, <2>2, ApproveMoves
  <2>4. Steps(Books, M)
    BY <1>1, <2>1, <2>2, ApproveSteps
  <2>5. SameGranted(Books, M)
    BY <1>1, <2>3, OthersGrantNothing DEF ApproveDone
  <2> QED  BY <1>4, <2>4, <2>5 DEF Steps
<1>5. CASE s.op = "reject"
  <2>1. s.x \in Ids /\ BalancesExist(Books, s.x) /\ Books.reqs[s.x].status \in Holding
    BY <1>1, <1>5, RequestThere
  <2>2. M = Refunded(Books, s.x, "REJECTED") /\ "REJECTED" \in Statuses
    BY <1>5 DEF CommitsAs, Statuses
  <2>3. RefundDone(Books, M, s.x, "REJECTED")
    BY <1>1, <2>1, <2>2, RefundMoves
  <2>4. Steps(Books, M)
    BY <1>1, <2>1, <2>2, RefundSteps
  <2>5. SameGranted(Books, M)
    BY <1>1, <2>3, OthersGrantNothing DEF RefundDone
  <2> QED  BY <1>5, <2>4, <2>5 DEF Steps
<1>6. CASE s.op = "accrue"
  <2>1. s.x \in Years /\ Books.bal[s.x] # NoBalance /\ s.arg \in Nat
    BY <1>1, <1>6, LedgerAssumption DEF Passed, SameGranted
  <2>2. M = Accrued(Books, s.x, s.arg)
    BY <1>6 DEF CommitsAs
  <2>3. Kept(M) /\ Since(Books, M)
    BY <1>1, <2>1, <2>2, AccrueKeeps, AccrueSince
  <2>4. M.reqs = Books.reqs
    BY <2>2 DEF Accrued, Books
  <2>5. TakesKept(M)
    BY <1>1, <2>4 DEF TakesKept, InBooks
  <2> QED  BY <1>6, <2>3, <2>5
<1>7. CASE s.op = "setused"
  <2>1. s.x \in Years /\ s.x \in Correctable /\ s.snap.bal[s.x] # NoBalance /\ s.arg \in Nat
    BY <1>1, <1>7, LedgerAssumption DEF Passed
  <2>2. Books.bal[s.x] # NoBalance
    BY <1>1, <1>7, <2>1 DEF Since
  <2>3. M = UsedSetTo(Books, s.x, s.arg)
    BY <1>7 DEF CommitsAs
  <2>4. Kept(M) /\ SameGranted(Books, M)
    BY <1>1, <2>1, <2>2, <2>3, SetUsedKeeps, OthersGrantNothing
  <2>5. M.reqs = Books.reqs
    BY <2>3 DEF UsedSetTo, Books
  <2>6. TakesKept(M)
    BY <1>1, <2>5 DEF TakesKept, InBooks
  <2> QED  BY <1>7, <2>4, <2>6
<1>8. CASE s.op = "purge"
  <2>1. s.x \in Purgeable
    BY <1>1, <1>8 DEF Passed
  <2>2. M = Purged(Books, s.x)
    BY <1>8 DEF CommitsAs
  <2>3. Kept(M)
    BY <1>1, <2>1, <2>2, PurgeKeeps
  <2>4. M.reqs = Books.reqs
    BY <2>2 DEF Purged, Books
  <2>5. TakesKept(M)
    BY <1>1, <2>4 DEF TakesKept, InBooks
  <2> QED  BY <1>8, <2>3, <2>5
<1>9. CASE s.op = "revoke"
  <2>1. s.x \in 1 .. Len(s.snap.grants) /\ Since(s.snap, Books)
    BY <1>1, <1>9 DEF Passed
  <2>2. s.x \in 1 .. Len(Books.grants)
    <3>1. Len(s.snap.grants) \in Nat /\ Len(Books.grants) \in Nat
      BY <1>1, Typed
    <3>2. Len(s.snap.grants) <= Len(Books.grants)
      BY <2>1 DEF Since
    <3> QED  BY <2>1, <3>1, <3>2
  <2>3. M = Revoked(Books, s.x)
    BY <1>9 DEF CommitsAs
  <2>4. Kept(M) /\ SameGranted(Books, M)
    BY <1>1, <2>2, <2>3, RevokeKeeps, OthersGrantNothing
  <2>5. M.reqs = Books.reqs
    BY <2>3 DEF Revoked, Books
  <2>6. TakesKept(M)
    BY <1>1, <2>5 DEF TakesKept, InBooks
  <2> QED  BY <1>9, <2>4, <2>6
<1> QED
  BY <1>1, <1>2, <1>3, <1>4, <1>5, <1>6, <1>7, <1>8, <1>9 DEF Passed

-----------------------------------------------------------------------------
\* With nobody else in between, a commit is a step of the ledger.
LEMMA CommitIsStep ==
  ASSUME LInv, NEW s, Current(s), Since(s.snap, Books), SameGranted(s.snap, Books),
         PlanCurrent(s), NEW M, CommitsAs(s, M), Become(M)
  PROVE  LedgerNext
<1>1. /\ TypedBooks(Books) /\ TypedBooks(s.snap) /\ Passed(s) /\ s.ready /\ InSession(s)
  BY DEF LInv, Kept, Current, InSession
<1>2. CASE s.op = "create"
  <2>1. /\ s.x \in Ids /\ s.snap.reqs[s.x].status = "NONE" /\ s.arg.need \in Needs
        /\ s.arg.need \in [Years -> Nat]
        /\ CanCharge(s.snap, s.arg.need) /\ s.arg.plan = Plan(s.snap, s.arg.need)
    BY <1>1, <1>2, LedgerAssumption DEF Passed, PlanCurrent
  <2>2. PICK u \in Users : MayHandle(u)
    BY <1>1, <1>2 DEF Passed
  <2>3. CanCharge(Books, s.arg.need) /\ s.arg.plan = Plan(Books, s.arg.need)
    BY <1>1, <2>1, PlanStable
  <2>4. reqs[s.x].status = "NONE"
    BY <2>1, BooksFields DEF Since
  <2>5. M = Charged(Books, s.x, s.arg.need, Plan(Books, s.arg.need))
    BY <1>2, <2>3 DEF CommitsAs
  <2>6. Create(s.x, s.arg.need, u)
    BY <2>2, <2>3, <2>4, <2>5 DEF Create
  <2> QED  BY <2>1, <2>2, <2>6 DEF LedgerNext
<1>3. CASE s.op = "cancel"
  <2>1. s.x \in Ids /\ BalancesExist(Books, s.x) /\ reqs[s.x].status \in {"PENDING", "APPROVED"}
    BY <1>1, <1>3, RequestThere, BooksFields DEF Holding
  <2>2. PICK u \in Users : MayHandle(u)
    BY <1>1, <1>3 DEF Passed
  <2>3. M = Refunded(Books, s.x, "CANCELLED")
    BY <1>3 DEF CommitsAs
  <2>4. Cancel(s.x, u)
    BY <2>1, <2>2, <2>3 DEF Cancel
  <2> QED  BY <2>1, <2>2, <2>4 DEF LedgerNext
<1>4. CASE s.op = "approve"
  <2>1. s.x \in Ids /\ BalancesExist(Books, s.x) /\ reqs[s.x].status = "PENDING"
    BY <1>1, <1>4, RequestThere, BooksFields
  <2>2. PICK u \in Users : MayDecide(u) /\ u \notin Self
    BY <1>1, <1>4 DEF Passed
  <2>3. M = Approved(Books, s.x)
    BY <1>4 DEF CommitsAs
  <2>4. Approve(s.x, u)
    BY <2>1, <2>2, <2>3 DEF Approve
  <2> QED  BY <2>1, <2>2, <2>4 DEF LedgerNext
<1>5. CASE s.op = "reject"
  <2>1. s.x \in Ids /\ BalancesExist(Books, s.x) /\ reqs[s.x].status = "PENDING"
    BY <1>1, <1>5, RequestThere, BooksFields
  <2>2. PICK u \in Users : MayDecide(u)
    BY <1>1, <1>5 DEF Passed
  <2>3. M = Refunded(Books, s.x, "REJECTED")
    BY <1>5 DEF CommitsAs
  <2>4. Reject(s.x, u)
    BY <2>1, <2>2, <2>3 DEF Reject
  <2> QED  BY <2>1, <2>2, <2>4 DEF LedgerNext
<1>6. CASE s.op = "accrue"
  <2>1. /\ s.x \in Years /\ s.arg \in AccrualDays /\ s.snap.bal[s.x] # NoBalance
        /\ s.snap.bal[s.x].granted + s.arg <= MaxGranted
    BY <1>1, <1>6 DEF Passed
  <2>2. bal[s.x] # NoBalance /\ bal[s.x].granted = s.snap.bal[s.x].granted
    BY <2>1, BooksFields DEF SameGranted
  <2>3. M = Accrued(Books, s.x, s.arg)
    BY <1>6 DEF CommitsAs
  <2>4. Accrue(s.x, s.arg)
    BY <2>1, <2>2, <2>3 DEF Accrue
  <2> QED  BY <2>1, <2>4 DEF LedgerNext
<1>7. CASE s.op = "setused"
  <2>1. /\ s.x \in Correctable /\ s.x \in Years /\ s.arg \in UsedDays
        /\ s.snap.bal[s.x] # NoBalance /\ s.snap.bal[s.x].used # s.arg
    BY <1>1, <1>7, LedgerAssumption DEF Passed
  <2>2. bal[s.x] # NoBalance /\ bal[s.x].used = s.snap.bal[s.x].used
    BY <2>1, BooksFields DEF Since
  <2>3. M = UsedSetTo(Books, s.x, s.arg)
    BY <1>7 DEF CommitsAs
  <2>4. SetUsed(s.x, s.arg)
    BY <2>1, <2>2, <2>3 DEF SetUsed
  <2> QED  BY <2>1, <2>4 DEF LedgerNext
<1>8. CASE s.op = "purge"
  <2>1. s.x \in Purgeable /\ s.x \in Years /\ s.snap.bal[s.x] # NoBalance
    BY <1>1, <1>8, LedgerAssumption DEF Passed
  <2>2. bal[s.x] # NoBalance
    BY <2>1, BooksFields DEF Since
  <2>3. M = Purged(Books, s.x)
    BY <1>8 DEF CommitsAs
  <2>4. Purge(s.x)
    BY <2>1, <2>2, <2>3 DEF Purge
  <2> QED  BY <2>1, <2>4 DEF LedgerNext
<1>9. CASE s.op = "revoke"
  <2>1. s.x \in 1 .. Len(s.snap.grants) /\ ~ s.snap.grants[s.x].revoked
    BY <1>1, <1>9 DEF Passed
  <2>2. s.x \in DOMAIN grants /\ ~ grants[s.x].revoked
    <3>1. /\ Len(s.snap.grants) \in Nat /\ Len(Books.grants) \in Nat
          /\ DOMAIN Books.grants = 1 .. Len(Books.grants)
      BY <1>1, Typed
    <3>2. Len(s.snap.grants) <= Len(Books.grants) /\ Books.grants[s.x] = s.snap.grants[s.x]
      BY <2>1 DEF Since
    <3> QED  BY <2>1, <3>1, <3>2, BooksFields
  <2>3. M = Revoked(Books, s.x)
    BY <1>9 DEF CommitsAs
  <2>4. Revoke(s.x)
    BY <2>2, <2>3 DEF Revoke
  <2> QED  BY <2>2, <2>4 DEF LedgerNext
<1> QED
  BY <1>1, <1>2, <1>3, <1>4, <1>5, <1>6, <1>7, <1>8, <1>9 DEF Passed

\* What a commit does, seen from outside.
LEMMA CommitDoes ==
  ASSUME LInv, NEW c \in Clients, Current(client[c]), Commit(c)
  PROVE  \E M : /\ CommitsAs(client[c], M) /\ Become(M)
                /\ client' = [client EXCEPT ![c] = Idle]
<1> DEFINE s == client[c]
           N == Merge(s.snap, Outcome(s))
<1>1. TypedBooks(Books)
  BY DEF LInv, Kept
<1>2. Become(N) /\ client' = [client EXCEPT ![c] = Idle]
  BY DEF Commit
<1>3. PICK M : CommitsAs(s, M) /\ SameBooks(N, M)
  BY <1>1, CommitIs
<1> HIDE DEF s, N
<1>4. Become(M)
  BY <1>2, <1>3 DEF Become, SameBooks
<1> QED
  BY <1>2, <1>3, <1>4 DEF s

\* What holds of the books that a commit leaves holds of the books.
LEMMA BecomeSince ==
  ASSUME NEW M, Become(M), NEW K
  PROVE  /\ Since(K, M) => Since(K, Books')
         /\ SameGranted(K, M) => SameGranted(K, Books')
<1>1. Books'.bal = M.bal /\ Books'.grants = M.grants /\ Books'.reqs = M.reqs
  BY DEF Become, Books
<1> QED
  BY <1>1 DEF Since, SameGranted

\* One handler moves; the others keep what they hold.
LEMMA ClientMoves ==
  ASSUME Sessions, NEW c \in Clients, NEW t, t # Idle => InSession(t),
         client' = [client EXCEPT ![c] = t], LInv'
  PROVE  /\ Sessions' /\ client'[c] = t
         /\ \A d \in Clients \ {c} : client'[d] = client[d]
<1>1. client = [d \in Clients |-> client[d]] /\ \A d \in Clients : client[d] # Idle => InSession(client[d])
  BY DEF Sessions
<1>2. client'[c] = t /\ \A d \in Clients \ {c} : client'[d] = client[d]
  BY <1>1
<1>3. client' = [d \in Clients |-> client'[d]]
  BY <1>1
<1>4. ASSUME NEW d \in Clients, client'[d] # Idle
      PROVE  InSession(client'[d])
  <2>1. CASE d = c
    BY <1>2, <1>4, <2>1
  <2>2. CASE d # c
    <3>1. client'[d] = client[d]
      BY <1>2, <2>2
    <3> QED  BY <1>1, <1>4, <3>1
  <2> QED  BY <2>1, <2>2
<1> QED
  BY <1>2, <1>3, <1>4 DEF Sessions

\* A new balance or reward leaves everything that was read as it was.
LEMMA InsertDoes ==
  ASSUME LInv, Insert
  PROVE  /\ LedgerNext /\ LInv'
         /\ \E M : /\ Become(M) /\ TypedBooks(M)
                   /\ Since(Books, M) /\ SameGranted(Books, M)
<1>1. Kept(Books) /\ TakesKept(Books) /\ TypedBooks(Books)
  BY DEF LInv, Kept
<1>2. CASE \E y \in Years, days \in InitialDays : Initialize(y, days)
  <2>1. PICK y \in Years, days \in InitialDays : Initialize(y, days)
    BY <1>2
  <2> DEFINE M == Initialized(Books, y, days)
  <2>2. Books.bal[y] = NoBalance /\ Become(M) /\ days \in Nat
    BY <2>1, BooksFields, LedgerAssumption DEF Initialize
  <2>3. Kept(M)
    BY <1>1, <2>2, InitializeKeeps
  <2>4. Since(Books, M) /\ SameGranted(Books, M)
    BY <1>1, <2>2, InsertSince
  <2>5. LedgerNext
    BY <2>1 DEF LedgerNext
  <2>6. LInv'
    BY <2>5, NextLInv
  <2> HIDE DEF M
  <2> QED  BY <2>2, <2>3, <2>4, <2>5, <2>6 DEF Kept
<1>3. CASE \E days \in RewardDays : Reward(days)
  <2>1. PICK days \in RewardDays : Reward(days)
    BY <1>3
  <2> DEFINE M == Rewarded(Books, days)
  <2>2. Len(Books.grants) < MaxGrants /\ Become(M) /\ days \in Nat
    BY <2>1, BooksFields, LedgerAssumption DEF Reward
  <2>3. Kept(M)
    BY <1>1, <2>2, RewardKeeps
  <2>4. Since(Books, M) /\ SameGranted(Books, M)
    BY <1>1, <2>2, InsertSince
  <2>5. LedgerNext
    BY <2>1 DEF LedgerNext
  <2>6. LInv'
    BY <2>5, NextLInv
  <2> HIDE DEF M
  <2> QED  BY <2>2, <2>3, <2>4, <2>5, <2>6 DEF Kept
<1> QED
  BY <1>2, <1>3 DEF Insert

-----------------------------------------------------------------------------
\* A handler that only reads leaves the books alone.
LEMMA ReadsOnly ==
  ASSUME LInv, UNCHANGED <<bal, grants, reqs>>
  PROVE  LInv' /\ Books' = Books /\ UNCHANGED ledgerVars
<1>1. UNCHANGED ledgerVars
  BY DEF ledgerVars
<1>2. Books' = Books
  BY DEF Books
<1> QED
  BY <1>1, <1>2, StutterLInv

\* What a handler has just read is what is there.
LEMMA JustRead ==
  ASSUME NEW s, InSession(s), SameBooks(Books, s.snap)
  PROVE  Since(s.snap, Books) /\ SameGranted(s.snap, Books)
<1>1. TypedBooks(s.snap) /\ SameBooks(s.snap, Books)
  BY DEF InSession, SameBooks
<1> QED
  BY <1>1, SinceSelf

\* At first no handler runs.
LEMMA InitSessions ==
  ASSUME SessionsInit
  PROVE  Sessions /\ \A c \in Clients : client[c] = Idle
<1>1. LInv
  BY InitLInv DEF SessionsInit
<1>2. client = [c \in Clients |-> Idle]
  BY DEF SessionsInit
<1>3. client = [c \in Clients |-> client[c]] /\ \A c \in Clients : client[c] = Idle
  BY <1>2
<1> QED
  BY <1>1, <1>3 DEF Sessions

\* A step of the only handler, or an insertion, is a step of the ledger or none.
LEMMA AloneStep ==
  ASSUME NEW only, Clients = {only}, AloneInv, [SessionsNext]_sessionVars
  PROVE  AloneInv' /\ [LedgerNext]_ledgerVars
<1> DEFINE s == client[only]
<1>1. /\ Sessions /\ LInv /\ only \in Clients
      /\ client = [c \in Clients |-> client[c]]
      /\ TypedBooks(Books)
      /\ s # Idle => /\ InSession(s) /\ TypedBooks(s.snap)
                     /\ Since(s.snap, Books) /\ SameGranted(s.snap, Books) /\ PlanCurrent(s)
  BY DEF AloneInv, Sessions, LInv, Kept, InSession
<1>2. ASSUME NEW t, t # Idle => InSession(t), client' = [client EXCEPT ![only] = t], LInv',
             t # Idle => Since(t.snap, Books') /\ SameGranted(t.snap, Books') /\ PlanCurrent(t)
      PROVE  AloneInv'
  <2>1. Sessions' /\ client'[only] = t
    BY <1>1, <1>2, ClientMoves
  <2> QED  BY <1>2, <2>1 DEF AloneInv
<1>3. CASE Load(only)
  <2>1. PICK t : Fresh(t) /\ client' = [client EXCEPT ![only] = t] /\ UNCHANGED <<bal, grants, reqs>>
    BY <1>1, <1>3, LoadBegins
  <2>2. LInv' /\ Books' = Books /\ UNCHANGED ledgerVars
    BY <1>1, <2>1, ReadsOnly
  <2>3. InSession(t) /\ PlanCurrent(t) /\ Since(t.snap, Books) /\ SameGranted(t.snap, Books)
    BY <2>1, JustRead DEF Fresh
  <2> HIDE DEF s
  <2>4. AloneInv'
    BY <1>2, <2>1, <2>2, <2>3
  <2> QED  BY <2>2, <2>4
<1>4. CASE Fetch(only)
  <2>1. s # Idle
    BY <1>4 DEF Fetch
  <2>2. PICK t : /\ InSession(t) /\ SameBooks(Books, t.snap)
                 /\ SameGranted(s.snap, Books) /\ PlanCurrent(s) => PlanCurrent(t)
                 /\ client' = [client EXCEPT ![only] = t]
                 /\ UNCHANGED <<bal, grants, reqs>>
    BY <1>1, <1>4, <2>1, FetchReads
  <2>3. LInv' /\ Books' = Books /\ UNCHANGED ledgerVars
    BY <1>1, <2>2, ReadsOnly
  <2>4. PlanCurrent(t) /\ Since(t.snap, Books) /\ SameGranted(t.snap, Books)
    BY <1>1, <2>1, <2>2, JustRead
  <2> HIDE DEF s
  <2>5. AloneInv'
    BY <1>2, <2>2, <2>3, <2>4
  <2> QED  BY <2>3, <2>5
<1>5. CASE Commit(only)
  <2>1. s # Idle /\ s.ready
    BY <1>5 DEF Commit
  <2>2. Current(s)
    BY <1>1, <2>1 DEF Current
  <2>3. PICK M : CommitsAs(s, M) /\ Become(M) /\ client' = [client EXCEPT ![only] = Idle]
    BY <1>1, <1>5, <2>2, CommitDoes
  <2>4. LedgerNext
    BY <1>1, <2>1, <2>2, <2>3, CommitIsStep
  <2>5. LInv'
    BY <1>1, <2>4, NextLInv
  <2> HIDE DEF s
  <2>6. AloneInv'
    BY <1>2, <2>3, <2>5
  <2> QED  BY <2>4, <2>6
<1>6. CASE Abort(only)
  <2>1. client' = [client EXCEPT ![only] = Idle] /\ UNCHANGED <<bal, grants, reqs>>
    BY <1>6 DEF Abort
  <2>2. LInv' /\ UNCHANGED ledgerVars
    BY <1>1, <2>1, ReadsOnly
  <2> HIDE DEF s
  <2>3. AloneInv'
    BY <1>2, <2>1, <2>2
  <2> QED  BY <2>2, <2>3
<1>7. CASE Insert
  <2>1. LedgerNext /\ LInv'
    BY <1>1, <1>7, InsertDoes
  <2>2. PICK M : Become(M) /\ TypedBooks(M) /\ Since(Books, M) /\ SameGranted(Books, M)
    BY <1>1, <1>7, InsertDoes
  <2>3. ASSUME s # Idle
        PROVE  Since(s.snap, Books') /\ SameGranted(s.snap, Books')
    <3>1. Since(s.snap, M) /\ SameGranted(s.snap, M)
      BY <1>1, <2>2, <2>3, SinceThen
    <3> QED  BY <2>2, <3>1, BecomeSince
  <2>4. client' = client
    BY <1>7 DEF Insert
  <2>5. client' = [client EXCEPT ![only] = s]
    BY <1>1, <2>4
  <2> HIDE DEF s
  <2>6. AloneInv'
    BY <1>1, <1>2, <2>1, <2>3, <2>5
  <2> QED  BY <2>1, <2>6
<1>8. CASE UNCHANGED sessionVars
  <2>1. client' = client /\ UNCHANGED <<bal, grants, reqs>>
    BY <1>8 DEF sessionVars
  <2>2. LInv' /\ Books' = Books /\ UNCHANGED ledgerVars
    BY <1>1, <2>1, ReadsOnly
  <2>3. client' = [client EXCEPT ![only] = s]
    BY <1>1, <2>1
  <2> HIDE DEF s
  <2>4. AloneInv'
    BY <1>1, <1>2, <2>2, <2>3
  <2> QED  BY <2>2, <2>4
<1> QED
  BY <1>3, <1>4, <1>5, <1>6, <1>7, <1>8 DEF SessionsNext, Load

(***************************************************************************)
(* One handler at a time, two reads and a commit of columns are one step   *)
(* of LeaveLedger: nothing that is initialised or rewarded in between      *)
(* shows in what the handler writes (leaves.py:732, 1088, 1356, 1397).     *)
(***************************************************************************)
THEOREM OneHandlerImplementsLedger ==
  ASSUME NEW only, Clients = {only}
  PROVE  SessionsSpec => ImplementsLedger
<1>1. SessionsInit => AloneInv /\ LedgerInit
  BY InitSessions DEF AloneInv, SessionsInit
<1>2. AloneInv /\ [SessionsNext]_sessionVars => AloneInv' /\ [LedgerNext]_ledgerVars
  BY AloneStep
<1> QED
  BY <1>1, <1>2, PTL DEF SessionsSpec, LedgerSpec, ImplementsLedger

\* What a request handler h and an accrual a are allowed.
Apart(h, a) == /\ Clients = {h, a} /\ h # a
               /\ Allowed[h] \cap {"accrue", "purge"} = {}
               /\ Allowed[a] \subseteq {"accrue"}

\* A step of either keeps what the other relies on.
LEMMA BesideStep ==
  ASSUME NEW h, NEW a, Apart(h, a), BesideInv(h, a), [SessionsNext]_sessionVars
  PROVE  BesideInv(h, a)'
<1> DEFINE s == client[h]
           z == client[a]
<1>1. /\ Sessions /\ LInv /\ h \in Clients /\ a \in Clients /\ h # a /\ Clients = {h, a}
      /\ client = [c \in Clients |-> client[c]]
      /\ TypedBooks(Books)
  BY DEF Apart, BesideInv, Sessions, LInv, Kept
<1>2. s # Idle => /\ InSession(s) /\ TypedBooks(s.snap) /\ s.op \notin {"accrue", "purge"}
                  /\ Since(s.snap, Books)
  BY <1>1 DEF BesideInv, Sessions, InSession
<1>3. z # Idle => /\ InSession(z) /\ TypedBooks(z.snap) /\ z.op = "accrue" /\ z.ready
                  /\ SameGranted(z.snap, Books)
  <2>1. z # Idle => InSession(z) /\ z.op = "accrue" /\ SameGranted(z.snap, Books)
    BY <1>1 DEF BesideInv, Sessions
  <2> HIDE DEF z
  <2> QED  BY <2>1 DEF InSession, Passed
<1>4. ASSUME NEW t, t # Idle => InSession(t), client' = [client EXCEPT ![h] = t], LInv',
             t # Idle => t.op \notin {"accrue", "purge"} /\ Since(t.snap, Books'),
             z # Idle => SameGranted(z.snap, Books')
      PROVE  BesideInv(h, a)'
  <2>1. Sessions' /\ client'[h] = t /\ client'[a] = client[a]
    BY <1>1, <1>4, ClientMoves
  <2> QED  BY <1>3, <1>4, <2>1 DEF BesideInv
<1>5. ASSUME NEW t, t # Idle => InSession(t), client' = [client EXCEPT ![a] = t], LInv',
             t # Idle => t.op = "accrue" /\ SameGranted(t.snap, Books'),
             s # Idle => Since(s.snap, Books')
      PROVE  BesideInv(h, a)'
  <2>1. Sessions' /\ client'[a] = t /\ client'[h] = client[h]
    BY <1>1, <1>5, ClientMoves
  <2> QED  BY <1>2, <1>5, <2>1 DEF BesideInv
<1> HIDE DEF s, z
<1>6. CASE Load(h)
  <2>1. PICK t : /\ Fresh(t) /\ t.op \in Allowed[h] /\ client' = [client EXCEPT ![h] = t]
                 /\ UNCHANGED <<bal, grants, reqs>>
    BY <1>1, <1>6, LoadBegins
  <2>2. LInv' /\ Books' = Books
    BY <1>1, <2>1, ReadsOnly
  <2>3. InSession(t) /\ Since(t.snap, Books) /\ t.op \notin {"accrue", "purge"}
    BY <2>1, JustRead DEF Fresh, Apart
  <2> QED  BY <1>3, <1>4, <2>1, <2>2, <2>3
<1>7. CASE Load(a)
  <2>1. PICK t : /\ Fresh(t) /\ t.op \in Allowed[a] /\ client' = [client EXCEPT ![a] = t]
                 /\ UNCHANGED <<bal, grants, reqs>>
    BY <1>1, <1>7, LoadBegins
  <2>2. LInv' /\ Books' = Books
    BY <1>1, <2>1, ReadsOnly
  <2>3. InSession(t) /\ SameGranted(t.snap, Books) /\ t.op = "accrue"
    BY <2>1, JustRead DEF Fresh, Apart
  <2> QED  BY <1>2, <1>5, <2>1, <2>2, <2>3
<1>8. CASE Fetch(h)
  <2>1. s # Idle
    BY <1>8 DEF Fetch, s
  <2>2. PICK t : /\ InSession(t) /\ SameBooks(Books, t.snap) /\ t.op = s.op
                 /\ client' = [client EXCEPT ![h] = t]
                 /\ UNCHANGED <<bal, grants, reqs>>
    BY <1>1, <1>2, <1>8, <2>1, FetchReads DEF s
  <2>3. LInv' /\ Books' = Books
    BY <1>1, <2>2, ReadsOnly
  <2>4. Since(t.snap, Books) /\ t.op \notin {"accrue", "purge"}
    BY <1>2, <2>1, <2>2, JustRead
  <2> QED  BY <1>3, <1>4, <2>2, <2>3, <2>4
<1>9. CASE Fetch(a)
  <2>1. z # Idle /\ ~ z.ready
    BY <1>9 DEF Fetch, z
  <2> QED  BY <1>3, <2>1
<1>10. CASE Commit(h)
  <2>1. s # Idle /\ s.ready
    BY <1>10 DEF Commit, s
  <2>2. Current(s)
    BY <1>2, <2>1 DEF Current
  <2>3. PICK M : CommitsAs(s, M) /\ Become(M) /\ client' = [client EXCEPT ![h] = Idle]
    BY <1>1, <1>10, <2>2, CommitDoes DEF s
  <2>4. Kept(M) /\ TakesKept(M) /\ SameGranted(Books, M)
    BY <1>1, <1>2, <2>1, <2>2, <2>3, CommitKeeps
  <2>5. LInv'
    BY <2>3, <2>4, BecomeKeeps
  <2>6. ASSUME z # Idle
        PROVE  SameGranted(z.snap, Books')
    <3>1. SameGranted(z.snap, M)
      BY <1>1, <1>3, <2>4, <2>6, SinceThen DEF Kept
    <3> QED  BY <2>3, <3>1, BecomeSince
  <2> QED  BY <1>4, <2>3, <2>5, <2>6
<1>11. CASE Commit(a)
  <2>1. z # Idle /\ z.ready
    BY <1>11 DEF Commit, z
  <2>2. Current(z)
    BY <1>3, <2>1 DEF Current
  <2>3. PICK M : CommitsAs(z, M) /\ Become(M) /\ client' = [client EXCEPT ![a] = Idle]
    BY <1>1, <1>11, <2>2, CommitDoes DEF z
  <2>4. Kept(M) /\ TakesKept(M) /\ Since(Books, M)
    BY <1>1, <1>3, <2>1, <2>2, <2>3, CommitKeeps
  <2>5. LInv'
    BY <2>3, <2>4, BecomeKeeps
  <2>6. ASSUME s # Idle
        PROVE  Since(s.snap, Books')
    <3>1. Since(s.snap, M)
      BY <1>1, <1>2, <2>4, <2>6, SinceThen DEF Kept
    <3> QED  BY <2>3, <3>1, BecomeSince
  <2> QED  BY <1>5, <2>3, <2>5, <2>6
<1>12. CASE Abort(h)
  <2>1. client' = [client EXCEPT ![h] = Idle] /\ UNCHANGED <<bal, grants, reqs>>
    BY <1>12 DEF Abort
  <2>2. LInv' /\ Books' = Books
    BY <1>1, <2>1, ReadsOnly
  <2> QED  BY <1>3, <1>4, <2>1, <2>2
<1>13. CASE Abort(a)
  <2>1. client' = [client EXCEPT ![a] = Idle] /\ UNCHANGED <<bal, grants, reqs>>
    BY <1>13 DEF Abort
  <2>2. LInv' /\ Books' = Books
    BY <1>1, <2>1, ReadsOnly
  <2> QED  BY <1>2, <1>5, <2>1, <2>2
<1>14. client' = client => client' = [client EXCEPT ![h] = s]
  BY <1>1 DEF s
<1>15. CASE Insert
  <2>1. LInv' /\ client' = client
    BY <1>1, <1>15, InsertDoes DEF Insert
  <2>2. PICK M : Become(M) /\ TypedBooks(M) /\ Since(Books, M) /\ SameGranted(Books, M)
    BY <1>1, <1>15, InsertDoes
  <2>3. ASSUME s # Idle
        PROVE  Since(s.snap, Books')
    <3>1. Since(s.snap, M)
      BY <1>1, <1>2, <2>2, <2>3, SinceThen
    <3> QED  BY <2>2, <3>1, BecomeSince
  <2>4. ASSUME z # Idle
        PROVE  SameGranted(z.snap, Books')
    <3>1. SameGranted(z.snap, M)
      BY <1>1, <1>3, <2>2, <2>4, SinceThen
    <3> QED  BY <2>2, <3>1, BecomeSince
  <2> QED  BY <1>2, <1>4, <1>14, <2>1, <2>3, <2>4
<1>16. CASE UNCHANGED sessionVars
  <2>1. client' = client /\ UNCHANGED <<bal, grants, reqs>>
    BY <1>16 DEF sessionVars
  <2>2. LInv' /\ Books' = Books
    BY <1>1, <2>1, ReadsOnly
  <2> QED  BY <1>2, <1>3, <1>4, <1>14, <2>1, <2>2
<1>17. SessionsNext => \/ Insert
                       \/ \E c \in Clients : Load(c) \/ Fetch(c) \/ Commit(c) \/ Abort(c)
  BY DEF SessionsNext, Load
<1> QED
  BY <1>1, <1>6, <1>7, <1>8, <1>9, <1>10, <1>11, <1>12, <1>13, <1>15, <1>16, <1>17

(***************************************************************************)
(* A handler of requests, of rewards or of used days may overlap an        *)
(* accrual: the books agree, no year is overdrawn, and the requests take   *)
(* their days, although neither sees what the other has committed since it *)
(* read (leaves.py:732, 1088, 1356).                                       *)
(***************************************************************************)
THEOREM HandlersBesideAccruals ==
  ASSUME NEW h, NEW a, Apart(h, a)
  PROVE  SessionsSpec => [](BooksTyped /\ BooksAgree /\ NoOverdraft /\ TakesUncorrected)
<1>1. SessionsInit => BesideInv(h, a)
  BY InitSessions DEF BesideInv, Apart
<1>2. BesideInv(h, a) /\ [SessionsNext]_sessionVars => BesideInv(h, a)'
  BY BesideStep
<1>3. BesideInv(h, a) => BooksTyped /\ BooksAgree /\ NoOverdraft /\ TakesUncorrected
  BY LInvBooks, LInvTakes DEF BesideInv, Sessions
<1> QED
  BY <1>1, <1>2, <1>3, PTL DEF SessionsSpec

(***************************************************************************)
(* Where nobody corrects used days by hand, every request gets the days it *)
(* asks for (leaves.py:1511, models/leave.py:10).                          *)
(***************************************************************************)
THEOREM ColumnsAlwaysAgree ==
  ASSUME NEW h, NEW a, Apart(h, a), Correctable = {}
  PROVE  SessionsSpec => []ColumnsAgree
<1>1. BooksTyped /\ BooksAgree /\ NoOverdraft /\ TakesUncorrected => ColumnsAgree
  BY DEF TakesUncorrected, TakesWhatItNeeds, ColumnsAgree
<1> QED
  BY HandlersBesideAccruals, <1>1, PTL
=============================================================================
