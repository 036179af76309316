-------------------------------- MODULE Sums --------------------------------
(***************************************************************************)
(* Facts about least elements and finite sums, for the proofs.             *)
(***************************************************************************)
EXTENDS Integers, Functions, FiniteSetTheorems, WellFoundedInduction, TLAPS

\* A nonempty set of natural numbers has a least element: induction, with a set
\* in the place of a predicate.
LEMMA Least ==
  ASSUME NEW S \in SUBSET Nat, NEW n \in S
  PROVE  \E m \in S : \A k \in S : m <= k
<1> DEFINE R == OpToRel(<, Nat)
<1>1. IsWellFoundedOn(R, Nat)
  BY NatLessThanWellFounded
<1>2. \A k, m \in Nat : k < m => <<k, m>> \in R
  <2> SUFFICES ASSUME NEW k \in Nat, NEW m \in Nat, k < m PROVE <<k, m>> \in R
    OBVIOUS
  <2> QED BY Zenon DEF OpToRel
<1> HIDE DEF R
<1>3. PICK m \in S : \A k \in S : ~(<<k, m>> \in R)
  BY <1>1, WFMin
<1>4. ASSUME NEW k \in S PROVE m <= k
  <2>1. k \in Nat /\ m \in Nat
    OBVIOUS
  <2>2. ~(k < m)
    BY <2>1, <1>2, <1>3, Zenon
  <2> QED BY <2>1, <2>2
<1> QED BY <1>4

\* Induction over a finite set: what holds of a subset whenever it holds of all
\* smaller ones holds of all; again with a set in the place of a predicate.
LEMMA SubsetInduction ==
  ASSUME NEW S, IsFiniteSet(S), NEW G,
         \A T \in SUBSET S : (\A U \in SUBSET T : U # T => U \in G) => T \in G
  PROVE  \A T \in SUBSET S : T \in G
<1> SUFFICES ASSUME NEW V \in SUBSET S, V \notin G PROVE FALSE
  OBVIOUS
<1> DEFINE B == {n \in Nat : \E T \in SUBSET S : T \notin G /\ Cardinality(T) = n}
<1>1. ASSUME NEW T \in SUBSET S
      PROVE  IsFiniteSet(T) /\ Cardinality(T) \in Nat
  BY FS_Subset, FS_CardinalityType
<1>2. Cardinality(V) \in B /\ B \in SUBSET Nat
  BY <1>1
<1> HIDE DEF B
<1>3. PICK m \in B : \A k \in B : m <= k
  BY <1>2, Least
<1>4. PICK T \in SUBSET S : T \notin G /\ Cardinality(T) = m
  BY <1>3 DEF B
<1>5. PICK U \in SUBSET T : U # T /\ U \notin G
  BY <1>4
<1>6. U \in SUBSET S /\ Cardinality(U) \in B
  BY <1>1, <1>5 DEF B
<1>7. Cardinality(U) < Cardinality(T)
  BY <1>1, <1>5, <1>6, FS_Subset
<1>8. m <= Cardinality(U)
  BY <1>3, <1>6
<1> QED BY <1>1, <1>4, <1>6, <1>7, <1>8

\* A finite nonempty set has an element of the highest rank.
LEMMA Highest ==
  ASSUME NEW S, IsFiniteSet(S), S # {}, NEW rank, \A x \in S : rank[x] \in Int
  PROVE  \E x \in S : \A y \in S : rank[y] <= rank[x]
<1> DEFINE G == {T \in SUBSET S : T # {} => \E x \in T : \A y \in T : rank[y] <= rank[x]}
<1>1. ASSUME NEW T \in SUBSET S, \A U \in SUBSET T : U # T => U \in G PROVE T \in G
  <2> SUFFICES ASSUME NEW x \in T PROVE \E z \in T : \A y \in T : rank[y] <= rank[z]
    OBVIOUS
  <2>1. T \ {x} \in G
    BY <1>1
  <2>2. CASE T \ {x} = {}
    <3>1. \A y \in T : y = x
      BY <2>2
    <3> QED BY <3>1
  <2>3. CASE T \ {x} # {}
    <3>1. PICK z \in T \ {x} : \A y \in T \ {x} : rank[y] <= rank[z]
      BY <2>1, <2>3
    <3>2. \A y \in T : rank[y] \in Int
      OBVIOUS
    <3>3. \A y \in T : y = x \/ rank[y] <= rank[z]
      BY <3>1
    <3>4. CASE rank[x] <= rank[z]
      BY <3>1, <3>3, <3>4
    <3>5. CASE rank[z] <= rank[x]
      BY <3>1, <3>2, <3>3, <3>5
    <3> QED BY <3>1, <3>2, <3>4, <3>5
  <2> QED BY <2>2, <2>3
<1> HIDE DEF G
<1>2. S \in G
  BY <1>1, SubsetInduction
<1> QED BY <1>2 DEF G

-----------------------------------------------------------------------------
(* SumFunctionOnSet of the community modules, on a finite set. *)

\* The equation that defines the sum on all subsets of a set.
Adds(g, f, S) ==
  g = [T \in SUBSET S |->
         IF T = {} THEN 0
         ELSE LET x == CHOOSE y \in T : TRUE IN f[x] + g[T \ {x}]]

LEMMA SumChosen ==
  ASSUME NEW f, NEW S
  PROVE  SumFunctionOnSet(f, S) = (CHOOSE g : Adds(g, f, S))[S]
BY DEF SumFunctionOnSet, FoldFunctionOnSet, MapThenFoldSet, Adds

Chosen(T) == CHOOSE y \in T : TRUE

LEMMA ChosenOne ==
  ASSUME NEW T, T # {}
  PROVE  Chosen(T) \in T /\ T \ {Chosen(T)} \in SUBSET T /\ T \ {Chosen(T)} # T
<1>1. Chosen(T) \in T
  BY DEF Chosen
<1> QED BY <1>1

LEMMA AddsAt ==
  ASSUME NEW f, NEW S, NEW g, Adds(g, f, S), NEW T \in SUBSET S
  PROVE  g[T] = IF T = {} THEN 0 ELSE f[Chosen(T)] + g[T \ {Chosen(T)}]
<1> DEFINE h == [U \in SUBSET S |->
                   IF U = {} THEN 0
                   ELSE LET x == CHOOSE y \in U : TRUE IN f[x] + g[U \ {x}]]
<1>1. g = h
  BY DEF Adds
<1>2. h[T] = IF T = {} THEN 0 ELSE f[Chosen(T)] + g[T \ {Chosen(T)}]
  BY DEF Chosen
<1> HIDE DEF h
<1> QED BY <1>1, <1>2

\* The equation has one solution, whatever the set it is written for.
LEMMA AddsAgree ==
  ASSUME NEW f, NEW S, NEW g, Adds(g, f, S),
         NEW e, NEW R, NEW h, Adds(h, e, R),
         NEW V \in SUBSET S, V \in SUBSET R, IsFiniteSet(V),
         \A x \in V : f[x] = e[x]
  PROVE  g[V] = h[V]
<1> DEFINE G == {T \in SUBSET V : g[T] = h[T]}
<1>1. ASSUME NEW T \in SUBSET V, \A U \in SUBSET T : U # T => U \in G PROVE T \in G
  <2> DEFINE x == Chosen(T)
  <2>0. T \in SUBSET S /\ T \in SUBSET R
    OBVIOUS
  <2>a. g[T] = IF T = {} THEN 0 ELSE f[x] + g[T \ {x}]
    BY <2>0, AddsAt
  <2>b. h[T] = IF T = {} THEN 0 ELSE e[x] + h[T \ {x}]
    BY <2>0, AddsAt
  <2>1. CASE T = {}
    BY <2>a, <2>b, <2>1
  <2>2. CASE T # {}
    <3>1. x \in T /\ T \ {x} \in SUBSET T /\ T \ {x} # T
      BY <2>2, ChosenOne
    <3>2. g[T \ {x}] = h[T \ {x}] /\ f[x] = e[x]
      BY <1>1, <3>1
    <3> QED BY <2>a, <2>b, <2>2, <3>2
  <2> QED BY <2>1, <2>2
<1> HIDE DEF G
<1>2. \A T \in SUBSET V : T \in G
  BY <1>1, SubsetInduction
<1> QED BY <1>2 DEF G

LEMMA SumStepIf ==
  ASSUME NEW f, NEW S, IsFiniteSet(S), S # {},
         \E g : Adds(g, f, S), \E g : Adds(g, f, S \ {Chosen(S)})
  PROVE  SumFunctionOnSet(f, S) = f[Chosen(S)] + SumFunctionOnSet(f, S \ {Chosen(S)})
<1> DEFINE R == S \ {Chosen(S)}
           g == CHOOSE h : Adds(h, f, S)
           k == CHOOSE h : Adds(h, f, R)
<1>1. Adds(g, f, S) /\ Adds(k, f, R)
  OBVIOUS
<1>2. SumFunctionOnSet(f, S) = g[S] /\ SumFunctionOnSet(f, R) = k[R]
  BY SumChosen
<1> HIDE DEF g, k
<1>3. g[S] = f[Chosen(S)] + g[R]
  <2>1. S \in SUBSET S
    OBVIOUS
  <2> QED BY <1>1, <2>1, AddsAt
<1>4. R \in SUBSET S /\ R \in SUBSET R /\ IsFiniteSet(R)
  <2>1. R \in SUBSET S
    OBVIOUS
  <2> QED BY <2>1, FS_Subset
<1> HIDE DEF R
<1>5. g[R] = k[R]
  BY <1>1, <1>4, AddsAgree
<1> QED BY <1>2, <1>3, <1>5 DEF R

LEMMA SumEmpty == \A f : SumFunctionOnSet(f, {}) = 0
<1> SUFFICES ASSUME NEW f PROVE SumFunctionOnSet(f, {}) = 0
  OBVIOUS
<1>1. Adds([T \in SUBSET {} |-> 0], f, {})
  BY DEF Adds
<1>2. PICK g : g = (CHOOSE h : Adds(h, f, {})) /\ Adds(g, f, {})
  BY <1>1
<1>3. g[{}] = 0
  BY <1>2, AddsAt
<1> QED BY <1>2, <1>3, SumChosen

LEMMA SumExists ==
  ASSUME NEW f, NEW S, IsFiniteSet(S)
  PROVE  \E g : Adds(g, f, S)
<1> DEFINE G == {T \in SUBSET S : \E g : Adds(g, f, T)}
<1>1. ASSUME NEW T \in SUBSET S, \A U \in SUBSET T : U # T => U \in G PROVE T \in G
  <2> DEFINE c(U) == Chosen(U)
             value(U) == IF U = {} THEN 0 ELSE f[c(U)] + SumFunctionOnSet(f, U \ {c(U)})
             g == [U \in SUBSET T |-> value(U)]
  <2>1. ASSUME NEW U \in SUBSET T, U # T PROVE SumFunctionOnSet(f, U) = value(U)
    <3>1. CASE U = {}
      BY <3>1, SumEmpty
    <3>2. CASE U # {}
      <4>1. U \ {c(U)} \in SUBSET T /\ U \ {c(U)} # T
        BY <2>1, <3>2, ChosenOne
      <4>2. (\E h : Adds(h, f, U)) /\ (\E h : Adds(h, f, U \ {c(U)}))
        BY <1>1, <2>1, <4>1
      <4>3. IsFiniteSet(U)
        BY FS_Subset
      <4> QED BY <3>2, <4>2, <4>3, SumStepIf
    <3> QED BY <3>1, <3>2
  <2>2. ASSUME NEW U \in SUBSET T
        PROVE  value(U) = IF U = {} THEN 0 ELSE f[c(U)] + g[U \ {c(U)}]
    <3>1. CASE U = {}
      BY <3>1
    <3>2. CASE U # {}
      <4>1. c(U) \in U /\ U \ {c(U)} \in SUBSET T /\ U \ {c(U)} # T
        BY <3>2, ChosenOne
      <4>2. g[U \ {c(U)}] = value(U \ {c(U)})
        BY <4>1
      <4>3. g[U \ {c(U)}] = SumFunctionOnSet(f, U \ {c(U)})
        BY <2>1, <4>1, <4>2
      <4> QED BY <3>2, <4>3
    <3> QED BY <3>1, <3>2
  <2>3. Adds(g, f, T)
    BY <2>2 DEF Adds, Chosen
  <2> QED BY <2>3
<1> HIDE DEF G
<1>2. \A T \in SUBSET S : T \in G
  BY <1>1, SubsetInduction
<1> QED BY <1>2 DEF G

\* One element split off, the chosen one.
LEMMA SumStep ==
  ASSUME NEW f, NEW S, IsFiniteSet(S), S # {}
  PROVE  SumFunctionOnSet(f, S) = f[Chosen(S)] + SumFunctionOnSet(f, S \ {Chosen(S)})
<1>1. IsFiniteSet(S \ {Chosen(S)})
  BY FS_RemoveElement
<1>2. (\E g : Adds(g, f, S)) /\ (\E g : Adds(g, f, S \ {Chosen(S)}))
  BY <1>1, SumExists
<1> QED BY <1>2, SumStepIf

\* The sum depends on the values in the set only.
LEMMA SumSame ==
  ASSUME NEW f, NEW e, NEW S, IsFiniteSet(S), \A x \in S : f[x] = e[x]
  PROVE  SumFunctionOnSet(f, S) = SumFunctionOnSet(e, S)
<1> DEFINE g == CHOOSE h : Adds(h, f, S)
           k == CHOOSE h : Adds(h, e, S)
<1>1. Adds(g, f, S) /\ Adds(k, e, S)
  BY SumExists
<1>2. SumFunctionOnSet(f, S) = g[S] /\ SumFunctionOnSet(e, S) = k[S]
  BY SumChosen
<1> HIDE DEF g, k
<1>3. g[S] = k[S]
  <2>1. S \in SUBSET S
    OBVIOUS
  <2> QED BY <1>1, <2>1, AddsAgree
<1> QED BY <1>2, <1>3

LEMMA SumType ==
  ASSUME NEW f, NEW S, IsFiniteSet(S), \A x \in S : f[x] \in Int
  PROVE  SumFunctionOnSet(f, S) \in Int
<1> DEFINE G == {T \in SUBSET S : SumFunctionOnSet(f, T) \in Int}
<1>1. ASSUME NEW T \in SUBSET S, \A U \in SUBSET T : U # T => U \in G PROVE T \in G
  <2>1. CASE T = {}
    BY <2>1, SumEmpty
  <2>2. CASE T # {}
    <3>1. Chosen(T) \in T /\ T \ {Chosen(T)} \in G
      BY <1>1, <2>2, ChosenOne
    <3>2. IsFiniteSet(T)
      BY FS_Subset
    <3>3. SumFunctionOnSet(f, T) = f[Chosen(T)] + SumFunctionOnSet(f, T \ {Chosen(T)})
      BY <2>2, <3>2, SumStep
    <3> QED BY <3>1, <3>3
  <2> QED BY <2>1, <2>2
<1> HIDE DEF G
<1>2. \A T \in SUBSET S : T \in G
  BY <1>1, SubsetInduction
<1> QED BY <1>2 DEF G

\* One element split off, whichever.
LEMMA SumSplit ==
  ASSUME NEW f, NEW S, IsFiniteSet(S), \A x \in S : f[x] \in Int, NEW a \in S
  PROVE  SumFunctionOnSet(f, S) = f[a] + SumFunctionOnSet(f, S \ {a})
<1> DEFINE Total(T) == SumFunctionOnSet(f, T)
           G == {T \in SUBSET S : \A x \in T : Total(T) = f[x] + Total(T \ {x})}
<1> HIDE DEF Total
<1>0. ASSUME NEW T \in SUBSET S PROVE IsFiniteSet(T) /\ Total(T) \in Int
  <2>1. IsFiniteSet(T)
    BY FS_Subset
  <2> QED BY <2>1, SumType DEF Total
<1>1. ASSUME NEW T \in SUBSET S, \A U \in SUBSET T : U # T => U \in G PROVE T \in G
  <2> SUFFICES ASSUME NEW x \in T PROVE Total(T) = f[x] + Total(T \ {x})
    OBVIOUS
  <2> DEFINE c == Chosen(T)
  <2>1. c \in T /\ T \ {c} \in SUBSET T /\ T \ {c} # T
    BY ChosenOne
  <2>2. Total(T) = f[c] + Total(T \ {c})
    BY <1>0, SumStep DEF Total
  <2>3. CASE x = c
    BY <2>2, <2>3
  <2>4. CASE x # c
    <3>1. T \ {c} \in G /\ T \ {x} \in G
      BY <1>1, <2>1
    <3>2. x \in T \ {c} /\ c \in T \ {x} /\ (T \ {c}) \ {x} = (T \ {x}) \ {c}
      BY <2>1, <2>4
    <3>3. Total(T \ {c}) = f[x] + Total((T \ {c}) \ {x})
      BY <3>1, <3>2
    <3>4. Total(T \ {x}) = f[c] + Total((T \ {x}) \ {c})
      BY <3>1, <3>2
    <3>5. f[x] \in Int /\ f[c] \in Int /\ Total((T \ {c}) \ {x}) \in Int
      BY <1>0, <2>1
    <3>6. Total((T \ {c}) \ {x}) = Total((T \ {x}) \ {c})
      BY <3>2
    <3>7. \A i, j, k \in Int : i + (j + k) = j + (i + k)
      OBVIOUS
    <3> HIDE DEF c
    <3> QED BY <2>2, <3>3, <3>4, <3>5, <3>6, <3>7
  <2> QED BY <2>3, <2>4
<1> HIDE DEF G
<1>2. \A T \in SUBSET S : T \in G
  BY <1>1, SubsetInduction
<1> QED BY <1>2 DEF G, Total

\* Values that are c on a part of the set and nothing elsewhere.
LEMMA SumCount ==
  ASSUME NEW f, NEW S, IsFiniteSet(S), NEW P \in SUBSET S, NEW c \in Int,
         \A x \in S : f[x] = IF x \in P THEN c ELSE 0
  PROVE  SumFunctionOnSet(f, S) = c * Cardinality(P)
<1> DEFINE G == {T \in SUBSET S : SumFunctionOnSet(f, T) = c * Cardinality(T \cap P)}
<1>1. ASSUME NEW T \in SUBSET S, \A U \in SUBSET T : U # T => U \in G PROVE T \in G
  <2>1. CASE T = {}
    <3>1. T \cap P = {}
      BY <2>1
    <3> QED BY <2>1, <3>1, SumEmpty, FS_EmptySet
  <2>2. CASE T # {}
    <3> DEFINE x == Chosen(T)
               R == T \ {x}
    <3>1. x \in T /\ R \in G
      BY <1>1, <2>2, ChosenOne
    <3>2. IsFiniteSet(T) /\ IsFiniteSet(R \cap P)
      BY FS_Subset
    <3>3. SumFunctionOnSet(f, T) = f[x] + SumFunctionOnSet(f, R)
      BY <2>2, <3>2, SumStep
    <3>4. SumFunctionOnSet(f, R) = c * Cardinality(R \cap P)
          /\ Cardinality(R \cap P) \in Nat
      BY <3>1, <3>2, FS_CardinalityType
    <3>5. CASE x \in P
      <4>1. T \cap P = (R \cap P) \cup {x} /\ x \notin R \cap P
        BY <3>1, <3>5
      <4>2. Cardinality(T \cap P) = Cardinality(R \cap P) + 1
        BY <3>2, <4>1, FS_AddElement
      <4>3. \A n \in Nat : c + c * n = c * (n + 1)
        OBVIOUS
      <4> QED BY <3>1, <3>3, <3>4, <3>5, <4>2, <4>3
    <3>6. CASE x \notin P
      <4>1. T \cap P = R \cap P
        BY <3>6
      <4>2. \A n \in Nat : 0 + c * n = c * n
        OBVIOUS
      <4>3. f[x] = 0
        BY <3>1, <3>6
      <4> QED BY <3>3, <3>4, <4>1, <4>2, <4>3
    <3> QED BY <3>5, <3>6
  <2> QED BY <2>1, <2>2
<1> HIDE DEF G
<1>2. \A T \in SUBSET S : T \in G
  BY <1>1, SubsetInduction
<1>3. S \cap P = P
  OBVIOUS
<1> QED BY <1>2, <1>3 DEF G

LEMMA SumZero ==
  ASSUME NEW f, NEW S, IsFiniteSet(S), \A x \in S : f[x] = 0
  PROVE  SumFunctionOnSet(f, S) = 0
<1>1. SumFunctionOnSet(f, S) = 0 * Cardinality({})
  BY SumCount
<1> QED BY <1>1, FS_EmptySet

\* A running total ends at the sum.
LEMMA RunningTotal ==
  ASSUME NEW n \in Nat, NEW f, NEW b,
         \A i \in 1..n : f[i] \in Int, \A i \in 1..n : b[i] \in Int,
         n # 0 => b[1] = f[1],
         \A i \in 1..n : i # 1 => b[i] = f[i] + b[i - 1]
  PROVE  SumFunctionOnSet(f, 1..n) = IF n = 0 THEN 0 ELSE b[n]
<1> DEFINE B == {k \in 0..n : SumFunctionOnSet(f, 1..k) # IF k = 0 THEN 0 ELSE b[k]}
<1> SUFFICES ASSUME NEW l \in B PROVE FALSE
  OBVIOUS
<1>1. PICK k \in B : \A i \in B : k <= i
  <2>1. B \in SUBSET Nat
    OBVIOUS
  <2> HIDE DEF B
  <2> QED BY <2>1, Least
<1>2. CASE k = 0
  <2>1. 1..k = {}
    BY <1>2
  <2> QED BY <1>2, <2>1, SumEmpty
<1>3. CASE k # 0
  <2>1. k \in 1..n /\ k - 1 \in 0..n /\ k - 1 \notin B /\ k \in Nat
    BY <1>1, <1>3
  <2>2. SumFunctionOnSet(f, 1..(k - 1)) = IF k - 1 = 0 THEN 0 ELSE b[k - 1]
    BY <2>1
  <2>3. IsFiniteSet(1..k) /\ k \in 1..k /\ (1..k) \ {k} = 1..(k - 1)
    <3>1. IsFiniteSet(1..k)
      BY <2>1, FS_Interval
    <3> QED BY <2>1, <3>1
  <2>4. \A x \in 1..k : f[x] \in Int
    BY <2>1
  <2>5. SumFunctionOnSet(f, 1..k) = f[k] + SumFunctionOnSet(f, 1..(k - 1))
    <3> DEFINE S == 1..k
    <3>1. IsFiniteSet(S) /\ k \in S /\ S \ {k} = 1..(k - 1) /\ \A x \in S : f[x] \in Int
      BY <2>3, <2>4
    <3> HIDE DEF S
    <3>2. SumFunctionOnSet(f, S) = f[k] + SumFunctionOnSet(f, S \ {k})
      BY <3>1, SumSplit
    <3>3. SumFunctionOnSet(f, S) = f[k] + SumFunctionOnSet(f, 1..(k - 1))
      BY <3>1, <3>2
    <3> QED BY <3>3 DEF S
  <2>6. SumFunctionOnSet(f, 1..k) = b[k]
    <3>1. k - 1 = 0 <=> k = 1
      BY <2>1
    <3> QED BY <2>1, <2>2, <2>5, <3>1
  <2>7. SumFunctionOnSet(f, 1..k) # b[k]
    BY <1>3
  <2> QED BY <2>6, <2>7
<1> QED BY <1>2, <1>3

\* What one element loses and another gains leaves the sum as it is.
LEMMA SumMove ==
  ASSUME NEW f, NEW e, NEW S, IsFiniteSet(S), NEW a \in S, NEW b \in S, a # b,
         NEW m \in Int, \A x \in S : f[x] \in Int,
         e[a] = f[a] - m, e[b] = f[b] + m,
         \A x \in S : x # a /\ x # b => e[x] = f[x]
  PROVE  SumFunctionOnSet(e, S) = SumFunctionOnSet(f, S)
<1> DEFINE A == S \ {a}
           R == A \ {b}
<1>1. IsFiniteSet(A) /\ IsFiniteSet(R) /\ b \in A
  BY FS_RemoveElement
<1>2. \A x \in S : e[x] \in Int
  OBVIOUS
<1>3. \A x \in A : f[x] \in Int /\ e[x] \in Int
  BY <1>2
<1>4. \A x \in R : e[x] = f[x] /\ f[x] \in Int
  OBVIOUS
<1>5. SumFunctionOnSet(f, S) = f[a] + SumFunctionOnSet(f, A)
      /\ SumFunctionOnSet(e, S) = e[a] + SumFunctionOnSet(e, A)
  BY <1>2, SumSplit
<1> HIDE DEF A
<1>6. SumFunctionOnSet(f, A) = f[b] + SumFunctionOnSet(f, R)
      /\ SumFunctionOnSet(e, A) = e[b] + SumFunctionOnSet(e, R)
  BY <1>1, <1>3, SumSplit
<1> HIDE DEF R
<1>7. SumFunctionOnSet(e, R) = SumFunctionOnSet(f, R) /\ SumFunctionOnSet(f, R) \in Int
  BY <1>1, <1>4, SumSame, SumType
<1>8. f[a] \in Int /\ f[b] \in Int
  OBVIOUS
<1> QED BY <1>5, <1>6, <1>7, <1>8

\* A set on which all but two values are zero.
LEMMA SumOfTwo ==
  ASSUME NEW f, NEW S, IsFiniteSet(S), NEW a \in S, NEW b \in S, a # b,
         \A x \in S : f[x] \in Int,
         \A x \in S : x # a /\ x # b => f[x] = 0
  PROVE  SumFunctionOnSet(f, S) = f[a] + f[b]
<1>1. IsFiniteSet(S \ {a}) /\ IsFiniteSet((S \ {a}) \ {b})
  BY FS_RemoveElement
<1>2. SumFunctionOnSet(f, S) = f[a] + SumFunctionOnSet(f, S \ {a})
  BY SumSplit
<1>3. SumFunctionOnSet(f, S \ {a}) = f[b] + SumFunctionOnSet(f, (S \ {a}) \ {b})
  <2>1. b \in S \ {a} /\ \A x \in S \ {a} : f[x] \in Int
    OBVIOUS
  <2> QED BY <1>1, <2>1, SumSplit
<1>4. SumFunctionOnSet(f, (S \ {a}) \ {b}) = 0
  BY <1>1, SumZero
<1> QED BY <1>2, <1>3, <1>4

LEMMA SumNat ==
  ASSUME NEW f, NEW S, IsFiniteSet(S), \A x \in S : f[x] \in Nat
  PROVE  SumFunctionOnSet(f, S) \in Nat
<1> DEFINE G == {T \in SUBSET S : SumFunctionOnSet(f, T) \in Nat}
<1>1. ASSUME NEW T \in SUBSET S, \A U \in SUBSET T : U # T => U \in G PROVE T \in G
  <2>1. CASE T = {}
    BY <2>1, SumEmpty
  <2>2. CASE T # {}
    <3>1. Chosen(T) \in T /\ T \ {Chosen(T)} \in G
      BY <1>1, <2>2, ChosenOne
    <3>2. IsFiniteSet(T)
      BY FS_Subset
    <3>3. SumFunctionOnSet(f, T) = f[Chosen(T)] + SumFunctionOnSet(f, T \ {Chosen(T)})
      BY <2>2, <3>2, SumStep
    <3> QED BY <3>1, <3>3
  <2> QED BY <2>1, <2>2
<1> HIDE DEF G
<1>2. \A T \in SUBSET S : T \in G
  BY <1>1, SubsetInduction
<1> QED BY <1>2 DEF G

\* Of amounts that are not negative, two are together at most the sum.
LEMMA SumOverTwo ==
  ASSUME NEW f, NEW S, IsFiniteSet(S), NEW a \in S, NEW b \in S, a # b,
         \A x \in S : f[x] \in Nat
  PROVE  f[a] + f[b] <= SumFunctionOnSet(f, S)
<1>1. IsFiniteSet(S \ {a}) /\ IsFiniteSet((S \ {a}) \ {b})
  BY FS_RemoveElement
<1>2. SumFunctionOnSet(f, S) = f[a] + SumFunctionOnSet(f, S \ {a})
  BY SumSplit
<1>3. SumFunctionOnSet(f, S \ {a}) = f[b] + SumFunctionOnSet(f, (S \ {a}) \ {b})
  <2>1. b \in S \ {a} /\ \A x \in S \ {a} : f[x] \in Int
    OBVIOUS
  <2> QED BY <1>1, <2>1, SumSplit
<1>4. SumFunctionOnSet(f, (S \ {a}) \ {b}) \in Nat
  BY <1>1, SumNat
<1>5. f[a] \in Nat /\ f[b] \in Nat
  OBVIOUS
<1> QED BY <1>2, <1>3, <1>4, <1>5

=============================================================================
