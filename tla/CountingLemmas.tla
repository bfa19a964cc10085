--------------------------- MODULE CountingLemmas ---------------------------
(***************************************************************************)
(* What the proofs need to know of least elements and of the sum of a      *)
(* function over a finite set (SumFunctionOnSet of Functions).  The        *)
(* induction theorems of the library are stated of an operator; here each  *)
(* induction is the argument that a set of counterexamples has a least     *)
(* element, stated of the set itself.                                      *)
(***************************************************************************)
EXTENDS Functions, FiniteSetTheorems, TLAPS

-----------------------------------------------------------------------------
(* Least elements.                                                         *)

\* A nonempty set of naturals has a least element.
LEMMA LeastNat ==
  ASSUME NEW B \in SUBSET Nat, B # {}
  PROVE  \E n \in B : \A m \in B : n <= m
<1>1. IsWellFoundedOn(OpToRel(<, Nat), Nat)
  BY NatLessThanWellFounded, Zenon
<1>2. PICK n \in B : \A m \in B : <<m, n>> \notin OpToRel(<, Nat)
  <2>. DEFINE R == OpToRel(<, Nat)
  <2>1. IsWellFoundedOn(R, Nat)
    BY <1>1
  <2>. HIDE DEF R
  <2>2. \E n \in B : \A m \in B : ~ (<<m, n>> \in R)
    BY <2>1, WFMin, Zenon
  <2>. QED  BY <2>2 DEF R
<1>3. ASSUME NEW m \in B  PROVE n <= m
  <2>1. ~ (m < n)
    BY <1>2, Zenon DEF OpToRel
  <2>. QED  BY <2>1
<1>. QED  BY <1>3

\* A nonempty set of subsets of a finite set has a minimal member.
LEMMA MinimalSubset ==
  ASSUME NEW S, IsFiniteSet(S), NEW B \in SUBSET (SUBSET S), B # {}
  PROVE  \E T \in B : \A U \in B : U \subseteq T => U = T
<1>. DEFINE Sizes == {Cardinality(T) : T \in B}
<1>1. \A T \in B : IsFiniteSet(T) /\ Cardinality(T) \in Nat
  BY FS_Subset, FS_CardinalityType
<1>2. Sizes \in SUBSET Nat /\ Sizes # {}
  BY <1>1
<1>3. PICK n \in Sizes : \A m \in Sizes : n <= m
  <2>. HIDE DEF Sizes
  <2>. QED  BY <1>2, LeastNat
<1>4. PICK T \in B : Cardinality(T) = n
  BY <1>3
<1>5. ASSUME NEW U \in B, U \subseteq T, U # T  PROVE FALSE
  <2>1. Cardinality(U) < Cardinality(T)
    BY <1>1, <1>5, FS_Subset
  <2>. QED  BY <1>1, <1>3, <1>4, <2>1
<1>. QED  BY <1>5

\* A function into the naturals is greatest somewhere on a nonempty finite set.
LEMMA GreatestOf ==
  ASSUME NEW S, IsFiniteSet(S), S # {}, NEW f, \A x \in S : f[x] \in Nat
  PROVE  \E x \in S : \A y \in S : f[y] <= f[x]
<1>. DEFINE Has(T) == \E x \in T : \A y \in T : f[y] <= f[x]
            Bad == {T \in SUBSET S : T # {} /\ ~Has(T)}
<1>1. Bad = {}
  <2>. SUFFICES ASSUME Bad # {} PROVE FALSE
    OBVIOUS
  <2>1. PICK T \in Bad : \A U \in Bad : U \subseteq T => U = T
    <3>1. Bad \in SUBSET (SUBSET S)
      OBVIOUS
    <3>. HIDE DEF Bad
    <3>. QED  BY <3>1, MinimalSubset
  <2>2. PICK x \in T : x \in S /\ f[x] \in Nat
    BY <2>1
  <2>3. \A y \in T : f[y] \in Nat
    BY <2>1
  <2>4. T \ {x} # {}
    BY <2>1, <2>2
  <2>5. PICK m \in T \ {x} : \A y \in T \ {x} : f[y] <= f[m]
    <3>1. T \ {x} \notin Bad
      BY <2>1, <2>2
    <3>. QED  BY <2>1, <2>4, <3>1
  <2>6. f[m] \in Nat /\ m \in T
    BY <2>3, <2>5
  <2>7. CASE f[x] <= f[m]
    <3>1. \A y \in T : f[y] <= f[m]
      BY <2>5, <2>7
    <3>. QED  BY <2>1, <2>6, <3>1
  <2>8. CASE ~(f[x] <= f[m])
    <3>1. \A y \in T : f[y] <= f[x]
      BY <2>2, <2>3, <2>5, <2>6, <2>8
    <3>. QED  BY <2>1, <2>2, <3>1
  <2>. QED  BY <2>7, <2>8
<1>. QED  BY <1>1

-----------------------------------------------------------------------------
(* The sum as a recursive function on the subsets.                         *)

\* g adds up f over the subset s, an element at a time.
AddsUp(f, g, s) ==
  g[s] = IF s = {} THEN 0
         ELSE LET x == CHOOSE x \in s : TRUE IN f[x] + g[s \ {x}]

LEMMA SumUnfold ==
  ASSUME NEW f, NEW S, IsFiniteSet(S)
  PROVE  \E g : SumFunctionOnSet(f, S) = g[S] /\ \A s \in SUBSET S : AddsUp(f, g, s)
<1>. DEFINE Body(g, s) == IF s = {} THEN 0
                          ELSE LET x == CHOOSE x \in s : TRUE IN f[x] + g[s \ {x}]
            iter == CHOOSE g : g = [s \in SUBSET S |-> Body(g, s)]
            Upto(n) == \E g : \A s \in SUBSET S : Cardinality(s) <= n => g[s] = Body(g, s)
            Bad == {n \in Nat : ~Upto(n)}
<1>1. SumFunctionOnSet(f, S) = iter[S]
  BY DEF SumFunctionOnSet, FoldFunctionOnSet, MapThenFoldSet
<1>2. \A s \in SUBSET S : IsFiniteSet(s) /\ Cardinality(s) \in Nat
  BY FS_Subset, FS_CardinalityType
<1>3. Bad = {}
  <2>. SUFFICES ASSUME Bad # {} PROVE FALSE
    OBVIOUS
  <2>1. PICK n \in Bad : \A m \in Bad : n <= m
    BY LeastNat
  <2>2. CASE n = 0
    <3>. DEFINE h == [s \in SUBSET S |-> 0]
    <3>1. ASSUME NEW s \in SUBSET S, Cardinality(s) <= 0  PROVE h[s] = Body(h, s)
      BY <1>2, <3>1, FS_EmptySet
    <3>. QED  BY <2>1, <2>2, <3>1
  <2>3. CASE n # 0
    <3>1. n - 1 \in Nat /\ n - 1 \notin Bad
      <4>. HIDE DEF Upto
      <4>. QED  BY <2>1, <2>3
    <3>2. Upto(n - 1)
      BY <3>1, Zenon
    <3>3. PICK g : \A s \in SUBSET S : Cardinality(s) <= n - 1 => g[s] = Body(g, s)
      BY <3>2, Zenon
    <3>. DEFINE h == [s \in SUBSET S |-> Body(g, s)]
    <3>4. ASSUME NEW s \in SUBSET S, Cardinality(s) <= n  PROVE h[s] = Body(h, s)
      <4>1. CASE s = {}
        BY <4>1
      <4>2. CASE s # {}
        <5>. DEFINE x == CHOOSE x \in s : TRUE
        <5>1. x \in s /\ s \ {x} \in SUBSET S
          BY <4>2
        <5>2. Cardinality(s \ {x}) <= n - 1
          <6>1. IsFiniteSet(s) /\ Cardinality(s) \in Nat /\ n \in Nat
            BY <1>2, <2>1
          <6>2. Cardinality(s \ {x}) = Cardinality(s) - 1
            <7>. HIDE DEF x
            <7>. QED  BY <5>1, <6>1, FS_RemoveElement
          <6>. QED  BY <3>4, <6>1, <6>2
        <5>3. h[s \ {x}] = g[s \ {x}]
          BY <3>3, <5>1, <5>2
        <5>. QED  BY <4>2, <5>3
      <4>. QED  BY <4>1, <4>2
    <3>5. Upto(n)
      BY <3>4
    <3>. QED  BY <2>1, <3>5
  <2>. QED  BY <2>2, <2>3
<1>4. PICK g : \A s \in SUBSET S : Cardinality(s) <= Cardinality(S) => g[s] = Body(g, s)
  <2>1. Cardinality(S) \in Nat
    BY FS_CardinalityType
  <2>2. Upto(Cardinality(S))
    <3>. HIDE DEF Upto
    <3>. QED  BY <1>3, <2>1
  <2>. QED  BY <2>2, Zenon
<1>5. \E h : h = [s \in SUBSET S |-> Body(h, s)]
  <2>. DEFINE h == [s \in SUBSET S |-> g[s]]
  <2>1. ASSUME NEW s \in SUBSET S  PROVE h[s] = Body(h, s)
    <3>1. g[s] = Body(g, s)
      BY <1>4, FS_Subset
    <3>2. s # {} => s \ {CHOOSE x \in s : TRUE} \in SUBSET S
      OBVIOUS
    <3>. QED  BY <3>1, <3>2
  <2>2. h = [s \in SUBSET S |-> Body(h, s)]
    BY <2>1
  <2>. QED  BY <2>2
<1>6. iter = [s \in SUBSET S |-> Body(iter, s)]
  BY <1>5
<1>. HIDE DEF iter
<1>7. \A s \in SUBSET S : iter[s] = Body(iter, s)
  BY <1>6
<1>. QED  BY <1>1, <1>7 DEF AddsUp

-----------------------------------------------------------------------------
(* What a sum of naturals satisfies.                                       *)

LEMMA SumEmpty == ASSUME NEW f  PROVE SumFunctionOnSet(f, {}) = 0
<1>1. IsFiniteSet({})
  BY FS_EmptySet
<1>2. PICK g : SumFunctionOnSet(f, {}) = g[{}] /\ \A s \in SUBSET {} : AddsUp(f, g, s)
  BY <1>1, SumUnfold
<1>. QED  BY <1>2 DEF AddsUp

\* Two functions that add up the same values over the subsets agree on them.
LEMMA AddsUpUnique ==
  ASSUME NEW S, IsFiniteSet(S), NEW f, NEW e, \A x \in S : e[x] = f[x], NEW g, NEW h,
         \A s \in SUBSET S : AddsUp(f, g, s) /\ AddsUp(e, h, s)
  PROVE  \A s \in SUBSET S : g[s] = h[s]
<1>. DEFINE Bad == {s \in SUBSET S : g[s] # h[s]}
<1>. SUFFICES ASSUME Bad # {} PROVE FALSE
  OBVIOUS
<1>1. PICK T \in Bad : \A U \in Bad : U \subseteq T => U = T
  <2>1. Bad \in SUBSET (SUBSET S)
    OBVIOUS
  <2>. HIDE DEF Bad
  <2>. QED  BY <2>1, MinimalSubset
<1>2. CASE T = {}
  BY <1>1, <1>2 DEF AddsUp
<1>3. CASE T # {}
  <2>. DEFINE x == CHOOSE x \in T : TRUE
  <2>1. x \in T /\ x \in S /\ T \ {x} \in SUBSET S
    BY <1>3
  <2>2. g[T \ {x}] = h[T \ {x}]
    <3>1. T \ {x} \notin Bad
      BY <1>1, <2>1
    <3>. QED  BY <2>1, <3>1
  <2>3. g[T] = f[x] + g[T \ {x}] /\ h[T] = e[x] + h[T \ {x}]
    BY <1>3 DEF AddsUp
  <2>. QED  BY <2>1, <2>2, <2>3
<1>. QED  BY <1>2, <1>3

\* One function on the subsets gives the sums over all of them.
LEMMA SumOnSubsets ==
  ASSUME NEW S, IsFiniteSet(S), NEW f
  PROVE  \E g : \A s \in SUBSET S : SumFunctionOnSet(f, s) = g[s] /\ AddsUp(f, g, s)
<1>1. PICK g : \A s \in SUBSET S : AddsUp(f, g, s)
  BY SumUnfold
<1>2. ASSUME NEW s \in SUBSET S  PROVE SumFunctionOnSet(f, s) = g[s]
  <2>1. IsFiniteSet(s) /\ \A t \in SUBSET s : t \in SUBSET S
    BY FS_Subset
  <2>2. PICK h : SumFunctionOnSet(f, s) = h[s] /\ \A t \in SUBSET s : AddsUp(f, h, t)
    BY <2>1, SumUnfold
  <2>3. \A t \in SUBSET s : g[t] = h[t]
    <3>1. \A t \in SUBSET s : AddsUp(f, g, t) /\ AddsUp(f, h, t)
      BY <1>1, <2>1, <2>2
    <3>2. IsFiniteSet(s) /\ \A x \in s : f[x] = f[x]
      BY <2>1
    <3>. QED  BY <3>1, <3>2, AddsUpUnique
  <2>. QED  BY <2>2, <2>3
<1>. QED  BY <1>1, <1>2

\* The sum depends on the values in the set only.
LEMMA SumCongruent ==
  ASSUME NEW S, IsFiniteSet(S), NEW f, NEW e, \A x \in S : e[x] = f[x]
  PROVE  SumFunctionOnSet(f, S) = SumFunctionOnSet(e, S)
<1>1. PICK g : SumFunctionOnSet(f, S) = g[S] /\ \A s \in SUBSET S : AddsUp(f, g, s)
  BY SumUnfold
<1>2. PICK h : SumFunctionOnSet(e, S) = h[S] /\ \A s \in SUBSET S : AddsUp(e, h, s)
  BY SumUnfold
<1>3. \A s \in SUBSET S : g[s] = h[s]
  BY <1>1, <1>2, AddsUpUnique
<1>. QED  BY <1>1, <1>2, <1>3

LEMMA SumNat ==
  ASSUME NEW S, IsFiniteSet(S), NEW f, \A x \in S : f[x] \in Nat
  PROVE  SumFunctionOnSet(f, S) \in Nat
<1>1. PICK g : SumFunctionOnSet(f, S) = g[S] /\ \A s \in SUBSET S : AddsUp(f, g, s)
  BY SumUnfold
<1>. DEFINE Bad == {s \in SUBSET S : g[s] \notin Nat}
<1>. SUFFICES ASSUME Bad # {} PROVE FALSE
  BY <1>1
<1>2. PICK T \in Bad : \A U \in Bad : U \subseteq T => U = T
  <2>1. Bad \in SUBSET (SUBSET S)
    OBVIOUS
  <2>. HIDE DEF Bad
  <2>. QED  BY <2>1, MinimalSubset
<1>3. CASE T = {}
  BY <1>1, <1>2, <1>3 DEF AddsUp
<1>4. CASE T # {}
  <2>. DEFINE x == CHOOSE x \in T : TRUE
  <2>1. x \in T /\ x \in S /\ T \ {x} \in SUBSET S
    BY <1>4
  <2>2. g[T \ {x}] \in Nat
    <3>1. T \ {x} \notin Bad
      BY <1>2, <2>1
    <3>. QED  BY <2>1, <3>1
  <2>3. g[T] = f[x] + g[T \ {x}]
    BY <1>1, <1>4 DEF AddsUp
  <2>. QED  BY <2>1, <2>2, <2>3
<1>. QED  BY <1>3, <1>4

\* Any element may be taken out first.
LEMMA SumTakeOut ==
  ASSUME NEW S, IsFiniteSet(S), NEW f, \A y \in S : f[y] \in Nat, NEW x \in S
  PROVE  SumFunctionOnSet(f, S) = f[x] + SumFunctionOnSet(f, S \ {x})
<1>1. PICK g : \A s \in SUBSET S : SumFunctionOnSet(f, s) = g[s] /\ AddsUp(f, g, s)
  BY SumOnSubsets
<1>2. \A s \in SUBSET S : g[s] \in Nat
  <2>1. \A s \in SUBSET S : IsFiniteSet(s)
    BY FS_Subset
  <2>. QED  BY <1>1, <2>1, SumNat
<1>. DEFINE Bad == {s \in SUBSET S : \E y \in s : g[s] # f[y] + g[s \ {y}]}
<1>3. Bad = {}
  <2>. SUFFICES ASSUME Bad # {} PROVE FALSE
    OBVIOUS
  <2>1. PICK T \in Bad : \A U \in Bad : U \subseteq T => U = T
    <3>1. Bad \in SUBSET (SUBSET S)
      OBVIOUS
    <3>. HIDE DEF Bad
    <3>. QED  BY <3>1, MinimalSubset
  <2>2. PICK y \in T : g[T] # f[y] + g[T \ {y}]
    BY <2>1
  <2>. DEFINE z == CHOOSE z \in T : TRUE
  <2>3. z \in T /\ T \in SUBSET S
    BY <2>2
  <2>4. g[T] = f[z] + g[T \ {z}]
    BY <1>1, <2>2, <2>3 DEF AddsUp
  <2>. HIDE DEF z
  <2>5. z # y
    BY <2>2, <2>4
  <2>6. T \ {z} \notin Bad /\ T \ {y} \notin Bad
    BY <2>1, <2>2, <2>3
  <2>7. g[T \ {z}] = f[y] + g[(T \ {z}) \ {y}] /\ g[T \ {y}] = f[z] + g[(T \ {y}) \ {z}]
    BY <2>2, <2>3, <2>5, <2>6
  <2>8. (T \ {z}) \ {y} = (T \ {y}) \ {z} /\ (T \ {z}) \ {y} \in SUBSET S
    BY <2>3
  <2>9. f[y] \in Nat /\ f[z] \in Nat /\ g[(T \ {z}) \ {y}] \in Nat
    BY <1>2, <2>2, <2>3, <2>8
  <2>10. g[T] = f[z] + (f[y] + g[(T \ {z}) \ {y}])
    BY <2>4, <2>7
  <2>11. f[y] + g[T \ {y}] = f[y] + (f[z] + g[(T \ {z}) \ {y}])
    BY <2>7, <2>8
  <2>. QED  BY <2>2, <2>9, <2>10, <2>11
<1>4. g[S] = f[x] + g[S \ {x}]
  BY <1>3
<1>. QED  BY <1>1, <1>4

\* The sum over a subset is no more.
LEMMA SumSubset ==
  ASSUME NEW S, IsFiniteSet(S), NEW f, \A y \in S : f[y] \in Nat, NEW T \in SUBSET S
  PROVE  SumFunctionOnSet(f, T) <= SumFunctionOnSet(f, S)
<1>1. PICK g : \A s \in SUBSET S : SumFunctionOnSet(f, s) = g[s]
  BY SumOnSubsets
<1>2. \A s \in SUBSET S : IsFiniteSet(s) /\ g[s] \in Nat
  <2>1. \A s \in SUBSET S : IsFiniteSet(s)
    BY FS_Subset
  <2>. QED  BY <1>1, <2>1, SumNat
<1>. DEFINE Bad == {s \in SUBSET S : T \subseteq s /\ ~ (g[T] <= g[s])}
<1>3. Bad = {}
  <2>. SUFFICES ASSUME Bad # {} PROVE FALSE
    OBVIOUS
  <2>1. PICK U \in Bad : \A V \in Bad : V \subseteq U => V = U
    <3>1. Bad \in SUBSET (SUBSET S)
      OBVIOUS
    <3>. HIDE DEF Bad
    <3>. QED  BY <3>1, MinimalSubset
  <2>2. PICK x \in U : x \notin T
    <3>1. g[T] \in Nat
      BY <1>2
    <3>2. U # T
      BY <2>1, <3>1
    <3>. QED  BY <2>1, <3>2
  <2>3. U \ {x} \in SUBSET S /\ U \ {x} \notin Bad /\ T \subseteq U \ {x}
    BY <2>1, <2>2
  <2>4. g[T] <= g[U \ {x}]
    BY <2>3
  <2>5. g[U] = f[x] + g[U \ {x}]
    <3>1. IsFiniteSet(U) /\ \A y \in U : f[y] \in Nat
      BY <1>2, <2>1
    <3>2. SumFunctionOnSet(f, U) = f[x] + SumFunctionOnSet(f, U \ {x})
      BY <2>2, <3>1, SumTakeOut
    <3>. QED  BY <1>1, <2>1, <2>3, <3>2
  <2>6. f[x] \in Nat /\ g[U \ {x}] \in Nat /\ g[T] \in Nat /\ g[U] \in Nat
    BY <1>2, <2>1, <2>2, <2>3
  <2>. QED  BY <2>1, <2>4, <2>5, <2>6
<1>4. g[T] <= g[S]
  BY <1>3
<1>. QED  BY <1>1, <1>4

\* A sum of values of at most c is at most c for each of them.
LEMMA SumBound ==
  ASSUME NEW S, IsFiniteSet(S), NEW c \in Nat, NEW f, \A y \in S : f[y] \in Nat /\ f[y] <= c
  PROVE  SumFunctionOnSet(f, S) <= Cardinality(S) * c
<1>1. PICK g : \A s \in SUBSET S : SumFunctionOnSet(f, s) = g[s]
  BY SumOnSubsets
<1>2. \A s \in SUBSET S : IsFiniteSet(s) /\ Cardinality(s) \in Nat /\ g[s] \in Nat
  <2>1. \A s \in SUBSET S : IsFiniteSet(s) /\ Cardinality(s) \in Nat
    BY FS_Subset, FS_CardinalityType
  <2>. QED  BY <1>1, <2>1, SumNat
<1>. DEFINE Bad == {s \in SUBSET S : ~ (g[s] <= Cardinality(s) * c)}
<1>3. Bad = {}
  <2>. SUFFICES ASSUME Bad # {} PROVE FALSE
    OBVIOUS
  <2>1. PICK U \in Bad : \A V \in Bad : V \subseteq U => V = U
    <3>1. Bad \in SUBSET (SUBSET S)
      OBVIOUS
    <3>. HIDE DEF Bad
    <3>. QED  BY <3>1, MinimalSubset
  <2>2. CASE U = {}
    <3>1. g[U] = 0 /\ Cardinality(U) = 0
      BY <1>1, <2>1, <2>2, SumEmpty, FS_EmptySet
    <3>. QED  BY <2>1, <3>1
  <2>3. CASE U # {}
    <3>1. PICK x \in U : TRUE
      BY <2>3
    <3>. DEFINE V == U \ {x}
    <3>2. V \in SUBSET S /\ V \notin Bad
      BY <2>1, <3>1
    <3>3. g[U] = f[x] + g[V]
      <4>1. IsFiniteSet(U) /\ \A y \in U : f[y] \in Nat
        BY <1>2, <2>1
      <4>2. SumFunctionOnSet(f, U) = f[x] + SumFunctionOnSet(f, U \ {x})
        BY <3>1, <4>1, SumTakeOut
      <4>. QED  BY <1>1, <2>1, <3>2, <4>2
    <3>4. Cardinality(V) = Cardinality(U) - 1
      BY <1>2, <2>1, <3>1, FS_RemoveElement
    <3>. HIDE DEF V
    <3>5. g[V] <= Cardinality(V) * c
      BY <3>2
    <3>6. /\ g[U] \in Nat /\ g[V] \in Nat /\ f[x] \in Nat /\ f[x] <= c
          /\ Cardinality(U) \in Nat /\ Cardinality(V) \in Nat
      BY <1>2, <2>1, <3>1, <3>2
    <3>7. Cardinality(U) * c = Cardinality(V) * c + c
      BY <3>4, <3>6
    <3>. QED  BY <2>1, <3>3, <3>5, <3>6, <3>7
  <2>. QED  BY <2>2, <2>3
<1>4. g[S] <= Cardinality(S) * c
  BY <1>3
<1>. QED  BY <1>1, <1>4
=============================================================================
