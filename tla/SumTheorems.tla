---------------------------- MODULE SumTheorems ----------------------------
(***************************************************************************)
(* Facts about sums over finite sets, SumFunctionOnSet of the module       *)
(* Functions, for the invariants that add up amounts.                      *)
(*                                                                         *)
(* The sum is a fold along a recursive function that takes out one chosen  *)
(* element after the other.  Each fact is proved by a smallest             *)
(* counterexample: the finite subsets of a set are well-founded by strict  *)
(* inclusion (FS_StrictSubsetOrderingWellFounded), so a non-empty set of   *)
(* counterexamples has a minimal member (WFMin).                           *)
(***************************************************************************)
EXTENDS FiniteSetsExt, FiniteSetTheorems, TLAPS

Pick(s) == CHOOSE x \in s : TRUE

\* g is the function along which the sum of f over S is folded.
IsFold(g, f, S) ==
    g = [s \in SUBSET S |-> IF s = {} THEN 0 ELSE f[Pick(s)] + g[s \ {Pick(s)}]]

\* A non-empty set of subsets of a finite set has a member none of whose
\* strict subsets belongs to it.
LEMMA MinimalSubset ==
    ASSUME NEW S, IsFiniteSet(S), NEW Bad \in SUBSET (SUBSET S), Bad # {}
    PROVE  \E T \in Bad : \A U \in SUBSET T : U # T => U \notin Bad
<1>1. IsWellFoundedOn(StrictSubsetOrdering(S), FiniteSubsetsOf(S))
  BY FS_StrictSubsetOrderingWellFounded
<1>2. FiniteSubsetsOf(S) = SUBSET S
  BY FS_FiniteSubsetsOfFinite
<1>3. PICK T \in Bad : \A U \in Bad : ~ (<<U, T>> \in StrictSubsetOrdering(S))
  BY <1>1, <1>2, WFMin
<1>4. QED
  BY <1>3 DEF StrictSubsetOrdering

\* The greatest of finitely many numbers is one of them.
LEMMA MaxIsMember ==
    ASSUME NEW S, IsFiniteSet(S), S # {}, S \subseteq Int
    PROVE  Max(S) \in S
<1> DEFINE Bad == {T \in SUBSET S : T # {} /\ ~ \E x \in T : \A y \in T : x >= y}
<1>1. ASSUME Bad # {} PROVE FALSE
  <2>1. PICK T \in Bad : \A U \in SUBSET T : U # T => U \notin Bad
    <3>1. Bad \in SUBSET (SUBSET S)
      OBVIOUS
    <3> HIDE DEF Bad
    <3>2. QED
      BY <1>1, <3>1, MinimalSubset
  <2>2. PICK x \in T : TRUE
    OBVIOUS
  <2>3. T \ {x} \notin Bad /\ T \subseteq Int
    BY <2>1
  <2>4. CASE T \ {x} = {}
    BY <2>1, <2>2, <2>3, <2>4
  <2>5. CASE T \ {x} # {}
    <3>1. PICK z \in T \ {x} : \A y \in T \ {x} : z >= y
      BY <2>3, <2>5
    <3>2. CASE x >= z
      BY <2>1, <2>2, <2>3, <3>1, <3>2
    <3>3. CASE z >= x
      BY <2>1, <2>2, <2>3, <3>1, <3>3
    <3>4. QED
      BY <2>2, <2>3, <3>1, <3>2, <3>3
  <2>6. QED
    BY <2>4, <2>5
<1>2. \E x \in S : \A y \in S : x >= y
  BY <1>1
<1>3. QED
  BY <1>2 DEF Max

LEMMA PickIn == ASSUME NEW s, s # {} PROVE Pick(s) \in s
  BY DEF Pick

\* There is at most one such function.
LEMMA FoldUnique ==
    ASSUME NEW S, IsFiniteSet(S), NEW f, NEW g, NEW h, IsFold(g, f, S), IsFold(h, f, S)
    PROVE  g = h
<1> DEFINE Bad == {s \in SUBSET S : g[s] # h[s]}
<1>1. ASSUME Bad # {} PROVE FALSE
  <2>1. PICK T \in Bad : \A U \in SUBSET T : U # T => U \notin Bad
    <3>1. Bad \in SUBSET (SUBSET S)
      OBVIOUS
    <3> HIDE DEF Bad
    <3>2. QED
      BY <1>1, <3>1, MinimalSubset
  <2>2. /\ g[T] = IF T = {} THEN 0 ELSE f[Pick(T)] + g[T \ {Pick(T)}]
        /\ h[T] = IF T = {} THEN 0 ELSE f[Pick(T)] + h[T \ {Pick(T)}]
    BY DEF IsFold
  <2>3. CASE T = {}
    BY <2>2, <2>3
  <2>4. CASE T # {}
    <3>1. g[T \ {Pick(T)}] = h[T \ {Pick(T)}]
      BY <2>1, <2>4, PickIn
    <3>2. QED
      BY <2>2, <2>4, <3>1
  <2>5. QED
    BY <2>3, <2>4
<1>2. QED
  BY <1>1 DEF IsFold

LEMMA SumIsFold ==
    ASSUME NEW f, NEW S, NEW g, IsFiniteSet(S), IsFold(g, f, S)
    PROVE  SumFunctionOnSet(f, S) = g[S]
<1>1. SumFunctionOnSet(f, S) = (CHOOSE h : IsFold(h, f, S))[S]
  BY DEF SumFunctionOnSet, FoldFunctionOnSet, MapThenFoldSet, IsFold, Pick
<1>2. QED
  BY <1>1, FoldUnique

\* Such a function cut down to the subsets of a subset is one of that subset.
LEMMA FoldRestricts ==
    ASSUME NEW S, IsFiniteSet(S), NEW f, NEW g, IsFold(g, f, S), NEW T \in SUBSET S
    PROVE  SumFunctionOnSet(f, T) = g[T]
<1> DEFINE h == [s \in SUBSET T |-> g[s]]
<1>1. \A s \in SUBSET T : h[s] = IF s = {} THEN 0 ELSE f[Pick(s)] + h[s \ {Pick(s)}]
  BY DEF IsFold
<1>2. IsFold(h, f, T)
  BY <1>1 DEF IsFold
<1>3. IsFiniteSet(T)
  BY FS_Subset
<1>4. SumFunctionOnSet(f, T) = h[T]
  <2> HIDE DEF h
  <2>1. QED
    BY <1>2, <1>3, SumIsFold
<1>5. QED
  BY <1>4

\* The recursive function of the fold exists.
LEMMA FoldExists ==
    ASSUME NEW S, IsFiniteSet(S), NEW f
    PROVE  \E g : IsFold(g, f, S)
<1> DEFINE Bad == {T \in SUBSET S : ~ \E g : IsFold(g, f, T)}
<1>1. ASSUME Bad # {} PROVE FALSE
  <2>1. PICK T \in Bad : \A U \in SUBSET T : U # T => U \notin Bad
    <3>1. Bad \in SUBSET (SUBSET S)
      OBVIOUS
    <3> HIDE DEF Bad
    <3>2. QED
      BY <1>1, <3>1, MinimalSubset
  <2>2. \A U \in SUBSET T : U # T => \E g : IsFold(g, f, U)
    BY <2>1
  <2> DEFINE Sum(s) == SumFunctionOnSet(f, s)
             At(s) == IF s = {} THEN 0 ELSE f[Pick(s)] + Sum(s \ {Pick(s)})
             h == [s \in SUBSET T |-> At(s)]
  <2>3. ASSUME NEW U \in SUBSET T, U # T
        PROVE  Sum(U) = At(U)
    <3>1. PICK g : IsFold(g, f, U)
      BY <2>2, <2>3
    <3>2. IsFiniteSet(U)
      BY FS_Subset
    <3>3. Sum(U) = g[U] /\ Sum(U \ {Pick(U)}) = g[U \ {Pick(U)}]
      BY <3>1, <3>2, FoldRestricts
    <3>4. g[U] = IF U = {} THEN 0 ELSE f[Pick(U)] + g[U \ {Pick(U)}]
      BY <3>1 DEF IsFold
    <3>5. QED
      BY <3>3, <3>4
  <2>4. \A s \in SUBSET T : s # {} => h[s \ {Pick(s)}] = Sum(s \ {Pick(s)})
    <3> HIDE DEF At, Sum
    <3>1. QED
      BY <2>3, PickIn
  <2>5. \A s \in SUBSET T : h[s] = IF s = {} THEN 0 ELSE f[Pick(s)] + h[s \ {Pick(s)}]
    BY <2>4
  <2>6. IsFold(h, f, T)
    BY <2>5 DEF IsFold
  <2>7. QED
    BY <2>1, <2>6
<1>2. QED
  BY <1>1

\* The sum over no element is zero, and an element can be taken out of the sum:
\* here the one that the fold takes out.
LEMMA SumUnfolds ==
    ASSUME NEW S, IsFiniteSet(S), NEW f
    PROVE  SumFunctionOnSet(f, S) =
             IF S = {} THEN 0 ELSE f[Pick(S)] + SumFunctionOnSet(f, S \ {Pick(S)})
<1>1. PICK g : IsFold(g, f, S)
  BY FoldExists
<1>2. SumFunctionOnSet(f, S) = g[S] /\ SumFunctionOnSet(f, S \ {Pick(S)}) = g[S \ {Pick(S)}]
  BY <1>1, FoldRestricts
<1>3. g[S] = IF S = {} THEN 0 ELSE f[Pick(S)] + g[S \ {Pick(S)}]
  BY <1>1 DEF IsFold
<1>4. QED
  BY <1>2, <1>3

LEMMA SumEmpty == ASSUME NEW f PROVE SumFunctionOnSet(f, {}) = 0
  BY SumUnfolds, FS_EmptySet

\* The sum of integers is an integer.
LEMMA SumInt ==
    ASSUME NEW S, IsFiniteSet(S), NEW f, \A x \in S : f[x] \in Int
    PROVE  SumFunctionOnSet(f, S) \in Int
<1> DEFINE Bad == {T \in SUBSET S : SumFunctionOnSet(f, T) \notin Int}
<1>1. ASSUME Bad # {} PROVE FALSE
  <2>1. PICK T \in Bad : \A U \in SUBSET T : U # T => U \notin Bad
    <3>1. Bad \in SUBSET (SUBSET S)
      OBVIOUS
    <3> HIDE DEF Bad
    <3>2. QED
      BY <1>1, <3>1, MinimalSubset
  <2>2. IsFiniteSet(T)
    BY FS_Subset
  <2>3. SumFunctionOnSet(f, T) =
          IF T = {} THEN 0 ELSE f[Pick(T)] + SumFunctionOnSet(f, T \ {Pick(T)})
    BY <2>2, SumUnfolds
  <2>4. ASSUME T # {}
        PROVE  f[Pick(T)] \in Int /\ SumFunctionOnSet(f, T \ {Pick(T)}) \in Int
    BY <2>1, <2>4, PickIn
  <2>5. QED
    BY <2>1, <2>3, <2>4
<1>2. QED
  BY <1>1

\* Any element can be taken out of the sum: the order does not matter.
LEMMA SumRemove ==
    ASSUME NEW S, IsFiniteSet(S), NEW f, \A x \in S : f[x] \in Int, NEW e \in S
    PROVE  SumFunctionOnSet(f, S) = f[e] + SumFunctionOnSet(f, S \ {e})
<1> DEFINE Sum(s) == SumFunctionOnSet(f, s)
           Bad == {T \in SUBSET S : \E x \in T : Sum(T) # f[x] + Sum(T \ {x})}
<1>0. \A T \in SUBSET S : IsFiniteSet(T) /\ Sum(T) \in Int
  BY FS_Subset, SumInt
<1>1. ASSUME Bad # {} PROVE FALSE
  <2>1. PICK T \in Bad : \A U \in SUBSET T : U # T => U \notin Bad
    <3>1. Bad \in SUBSET (SUBSET S)
      OBVIOUS
    <3> HIDE DEF Bad
    <3>2. QED
      BY <1>1, <3>1, MinimalSubset
  <2>2. PICK x \in T : Sum(T) # f[x] + Sum(T \ {x})
    BY <2>1
  <2> DEFINE p == Pick(T)
             R == (T \ {p}) \ {x}
  <2>3. p \in T
    BY PickIn
  <2>4. Sum(T) = f[p] + Sum(T \ {p})
    BY <1>0, SumUnfolds
  <2>5. x # p
    BY <2>2, <2>4
  <2>6. Sum(T \ {p}) = f[x] + Sum(R)
    <3>1. T \ {p} \notin Bad /\ x \in T \ {p} /\ T \ {p} \in SUBSET S
      BY <2>1, <2>3, <2>5
    <3>2. QED
      BY <3>1
  <2>7. Sum(T \ {x}) = f[p] + Sum(R)
    <3>1. T \ {x} \notin Bad /\ p \in T \ {x} /\ T \ {x} \in SUBSET S
      BY <2>1, <2>3, <2>5
    <3>2. R = (T \ {x}) \ {p}
      OBVIOUS
    <3>3. QED
      BY <3>1, <3>2
  <2>8. f[x] \in Int /\ f[p] \in Int /\ Sum(R) \in Int
    BY <1>0, <2>3
  <2> HIDE DEF Sum, R, p
  <2>9. QED
    BY <2>2, <2>4, <2>6, <2>7, <2>8
<1>2. QED
  BY <1>1

\* The sum of values that are no smaller is no smaller.
LEMMA SumMonotone ==
    ASSUME NEW S, IsFiniteSet(S), NEW f, NEW g,
           \A x \in S : f[x] \in Int /\ g[x] \in Int /\ f[x] <= g[x]
    PROVE  SumFunctionOnSet(f, S) <= SumFunctionOnSet(g, S)
<1> DEFINE F(s) == SumFunctionOnSet(f, s)
           G(s) == SumFunctionOnSet(g, s)
           Bad == {T \in SUBSET S : ~ (F(T) <= G(T))}
<1>0. \A T \in SUBSET S : IsFiniteSet(T) /\ F(T) \in Int /\ G(T) \in Int
  BY FS_Subset, SumInt
<1>1. ASSUME Bad # {} PROVE FALSE
  <2>1. PICK T \in Bad : \A U \in SUBSET T : U # T => U \notin Bad
    <3>1. Bad \in SUBSET (SUBSET S)
      OBVIOUS
    <3> HIDE DEF Bad
    <3>2. QED
      BY <1>1, <3>1, MinimalSubset
  <2>2. /\ F(T) = IF T = {} THEN 0 ELSE f[Pick(T)] + F(T \ {Pick(T)})
        /\ G(T) = IF T = {} THEN 0 ELSE g[Pick(T)] + G(T \ {Pick(T)})
    BY <1>0, SumUnfolds
  <2>3. ASSUME T # {}
        PROVE  /\ Pick(T) \in S
               /\ F(T \ {Pick(T)}) <= G(T \ {Pick(T)})
               /\ F(T \ {Pick(T)}) \in Int /\ G(T \ {Pick(T)}) \in Int
    BY <1>0, <2>1, <2>3, PickIn
  <2>4. ~ (F(T) <= G(T))
    BY <2>1
  <2> HIDE DEF F, G
  <2>5. QED
    BY <2>2, <2>3, <2>4
<1>2. QED
  BY <1>0, <1>1

\* The sum of values that are no larger than two others together.
LEMMA SumTogether ==
    ASSUME NEW S, IsFiniteSet(S), NEW f, NEW g, NEW h,
           \A x \in S : f[x] \in Int /\ g[x] \in Int /\ h[x] \in Int /\ h[x] <= f[x] + g[x]
    PROVE  SumFunctionOnSet(h, S) <= SumFunctionOnSet(f, S) + SumFunctionOnSet(g, S)
<1> DEFINE F(s) == SumFunctionOnSet(f, s)
           G(s) == SumFunctionOnSet(g, s)
           H(s) == SumFunctionOnSet(h, s)
           Bad == {T \in SUBSET S : ~ (H(T) <= F(T) + G(T))}
<1>0. \A T \in SUBSET S : IsFiniteSet(T) /\ F(T) \in Int /\ G(T) \in Int /\ H(T) \in Int
  BY FS_Subset, SumInt
<1>1. ASSUME Bad # {} PROVE FALSE
  <2>1. PICK T \in Bad : \A U \in SUBSET T : U # T => U \notin Bad
    <3>1. Bad \in SUBSET (SUBSET S)
      OBVIOUS
    <3> HIDE DEF Bad
    <3>2. QED
      BY <1>1, <3>1, MinimalSubset
  <2>2. /\ F(T) = IF T = {} THEN 0 ELSE f[Pick(T)] + F(T \ {Pick(T)})
        /\ G(T) = IF T = {} THEN 0 ELSE g[Pick(T)] + G(T \ {Pick(T)})
        /\ H(T) = IF T = {} THEN 0 ELSE h[Pick(T)] + H(T \ {Pick(T)})
    BY <1>0, SumUnfolds
  <2>3. ASSUME T # {}
        PROVE  /\ Pick(T) \in S
               /\ H(T \ {Pick(T)}) <= F(T \ {Pick(T)}) + G(T \ {Pick(T)})
               /\ F(T \ {Pick(T)}) \in Int /\ G(T \ {Pick(T)}) \in Int
               /\ H(T \ {Pick(T)}) \in Int
    BY <1>0, <2>1, <2>3, PickIn
  <2>4. ~ (H(T) <= F(T) + G(T))
    BY <2>1
  <2> HIDE DEF F, G, H
  <2>5. QED
    BY <2>2, <2>3, <2>4
<1>2. QED
  BY <1>0, <1>1

\* The sum depends on the values on the set only.
LEMMA SumSame ==
    ASSUME NEW S, IsFiniteSet(S), NEW f, NEW g,
           \A x \in S : f[x] \in Int /\ g[x] = f[x]
    PROVE  SumFunctionOnSet(g, S) = SumFunctionOnSet(f, S)
<1>1. SumFunctionOnSet(f, S) <= SumFunctionOnSet(g, S)
  BY SumMonotone
<1>2. SumFunctionOnSet(g, S) <= SumFunctionOnSet(f, S)
  BY SumMonotone
<1>3. SumFunctionOnSet(f, S) \in Int /\ SumFunctionOnSet(g, S) \in Int
  BY SumInt
<1>4. QED
  BY <1>1, <1>2, <1>3

\* When one value changes, the sum changes by the difference.
LEMMA SumChange ==
    ASSUME NEW S, IsFiniteSet(S), NEW f, NEW g, NEW e \in S,
           \A x \in S : f[x] \in Int /\ g[x] \in Int /\ (x # e => g[x] = f[x])
    PROVE  SumFunctionOnSet(g, S) = SumFunctionOnSet(f, S) + (g[e] - f[e])
<1>1. /\ SumFunctionOnSet(f, S) = f[e] + SumFunctionOnSet(f, S \ {e})
      /\ SumFunctionOnSet(g, S) = g[e] + SumFunctionOnSet(g, S \ {e})
  BY SumRemove
<1>2. IsFiniteSet(S \ {e})
  BY FS_RemoveElement
<1>3. SumFunctionOnSet(g, S \ {e}) = SumFunctionOnSet(f, S \ {e})
  BY <1>2, SumSame
<1>4. SumFunctionOnSet(f, S \ {e}) \in Int
  BY <1>2, SumInt
<1>5. QED
  BY <1>1, <1>3, <1>4

\* A new element adds its value.
LEMMA SumAdd ==
    ASSUME NEW S, IsFiniteSet(S), NEW e, e \notin S, NEW f,
           \A x \in S \cup {e} : f[x] \in Int
    PROVE  SumFunctionOnSet(f, S \cup {e}) = SumFunctionOnSet(f, S) + f[e]
<1>1. IsFiniteSet(S \cup {e}) /\ (S \cup {e}) \ {e} = S
  BY FS_AddElement
<1>2. SumFunctionOnSet(f, S \cup {e}) = f[e] + SumFunctionOnSet(f, S)
  BY <1>1, SumRemove
<1>3. SumFunctionOnSet(f, S) \in Int
  BY SumInt
<1>4. QED
  BY <1>2, <1>3

\* Values below zero left out, a part adds up to no more than the whole.
LEMMA SumPart ==
    ASSUME NEW S, IsFiniteSet(S), NEW f, \A x \in S : f[x] \in Nat, NEW T \in SUBSET S
    PROVE  /\ SumFunctionOnSet(f, T) \in Nat
           /\ SumFunctionOnSet(f, T) <= SumFunctionOnSet(f, S)
<1> DEFINE Sum(s) == SumFunctionOnSet(f, s)
           Bad == {U \in SUBSET S : ~ (Sum(U) >= 0 /\ Sum(U \cap T) <= Sum(U) /\ Sum(U \cap T) >= 0)}
<1>0. \A U \in SUBSET S : IsFiniteSet(U) /\ Sum(U) \in Int
  BY FS_Subset, SumInt
<1>1. ASSUME Bad # {} PROVE FALSE
  <2>1. PICK U \in Bad : \A V \in SUBSET U : V # U => V \notin Bad
    <3>1. Bad \in SUBSET (SUBSET S)
      OBVIOUS
    <3> HIDE DEF Bad
    <3>2. QED
      BY <1>1, <3>1, MinimalSubset
  <2>2. CASE U = {}
    <3>1. U \cap T = {} /\ Sum({}) = 0
      BY <2>2, SumEmpty
    <3>2. QED
      BY <2>1, <2>2, <3>1
  <2>3. CASE U # {}
    <3> DEFINE p == Pick(U)
               R == U \ {p}
    <3>1. p \in U /\ f[p] \in Nat
      BY <2>3, PickIn
    <3>2. Sum(U) = f[p] + Sum(R)
      BY <1>0, <2>3, SumUnfolds
    <3>3. Sum(R) >= 0 /\ Sum(R \cap T) <= Sum(R) /\ Sum(R \cap T) >= 0
      BY <2>1, <3>1
    <3>4. Sum(U \cap T) = IF p \in T THEN f[p] + Sum(R \cap T) ELSE Sum(R \cap T)
      <4>1. CASE p \in T
        <5>1. (U \cap T) \ {p} = R \cap T /\ p \in U \cap T /\ IsFiniteSet(U \cap T)
          BY <1>0, <3>1, <4>1
        <5>2. \A x \in U \cap T : f[x] \in Int
          OBVIOUS
        <5>3. QED
          BY <4>1, <5>1, <5>2, SumRemove
      <4>2. CASE p \notin T
        <5>1. U \cap T = R \cap T
          BY <4>2
        <5>2. QED
          BY <4>2, <5>1
      <4>3. QED
        BY <4>1, <4>2
    <3>5. Sum(R) \in Int /\ Sum(R \cap T) \in Int
      BY <1>0
    <3>6. ~ (Sum(U) >= 0 /\ Sum(U \cap T) <= Sum(U) /\ Sum(U \cap T) >= 0)
      BY <2>1
    <3> HIDE DEF Sum, R, p
    <3>7. QED
      BY <3>1, <3>2, <3>3, <3>4, <3>5, <3>6
  <2>4. QED
    BY <2>2, <2>3
<1>2. S \cap T = T /\ S \notin Bad
  BY <1>1
<1>3. QED
  BY <1>0, <1>2
\* Elements whose value is zero can be left out.
LEMMA SumSupport ==
    ASSUME NEW S, IsFiniteSet(S), NEW f, \A x \in S : f[x] \in Int,
           NEW T \in SUBSET S, \A x \in S : x \notin T => f[x] = 0
    PROVE  SumFunctionOnSet(f, S) = SumFunctionOnSet(f, T)
<1> DEFINE Sum(s) == SumFunctionOnSet(f, s)
           Bad == {U \in SUBSET S : T \subseteq U /\ Sum(U) # Sum(T)}
<1>0. \A U \in SUBSET S : IsFiniteSet(U) /\ Sum(U) \in Int
  BY FS_Subset, SumInt
<1>1. ASSUME Bad # {} PROVE FALSE
  <2>1. PICK U \in Bad : \A V \in SUBSET U : V # U => V \notin Bad
    <3>1. Bad \in SUBSET (SUBSET S)
      OBVIOUS
    <3> HIDE DEF Bad
    <3>2. QED
      BY <1>1, <3>1, MinimalSubset
  <2>2. PICK x \in U : x \notin T
    BY <2>1
  <2>3. Sum(U) = f[x] + Sum(U \ {x})
    BY <1>0, SumRemove
  <2>4. Sum(U \ {x}) = Sum(T)
    BY <2>1, <2>2
  <2>5. f[x] = 0 /\ Sum(T) \in Int /\ Sum(U) # Sum(T)
    BY <1>0, <2>1, <2>2
  <2> HIDE DEF Sum
  <2>6. QED
    BY <2>3, <2>4, <2>5
<1>2. QED
  BY <1>1
============================================================================
