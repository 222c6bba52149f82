-------------------------------- MODULE Sums --------------------------------
(***************************************************************************)
(* Sums over finite sets, as MapThenSumSet computes them, and the greatest *)
(* number of a finite set: the facts that the proofs about limits, debits  *)
(* and closings rest on. A sum is computed element by element in whatever  *)
(* order CHOOSE picks them; what it amounts to does not depend on it.      *)
(*                                                                         *)
(* Induction is by a least counterexample: a non-empty set of finite sets  *)
(* has an element with no proper subset among them (WFMin).                *)
(***************************************************************************)
EXTENDS Integers, FiniteSetsExt, FiniteSetTheorems, WellFoundedInduction, TLAPS

SumOver(f, S) == MapThenSumSet(LAMBDA x : f[x], S)

AnyOf(s) == CHOOSE x \in s : TRUE

\* g is the recursive function by which a sum over S is computed.
IsSum(g, f, S) ==
  g = [s \in SUBSET S |-> IF s = {} THEN 0 ELSE f[AnyOf(s)] + g[s \ {AnyOf(s)}]]

-----------------------------------------------------------------------------
(* Induction over the subsets of a finite set *)

\* What holds of a set whenever it holds of its proper subsets holds of all.
LEMMA SubsetInduction ==
  ASSUME NEW S, IsFiniteSet(S), NEW C,
         \A T \in SUBSET S : (\A U \in SUBSET T : U # T => U \in C) => T \in C
  PROVE  \A T \in SUBSET S : T \in C
<1> DEFINE Bad == {T \in SUBSET S : T \notin C}
<1> SUFFICES ASSUME Bad # {}
             PROVE  FALSE
  OBVIOUS
<1>1. Bad \subseteq FiniteSubsetsOf(S)
  BY FS_FiniteSubsetsOfFinite
<1>2. IsWellFoundedOn(StrictSubsetOrdering(S), FiniteSubsetsOf(S))
  BY FS_StrictSubsetOrderingWellFounded
<1> HIDE DEF Bad
<1>3. PICK T \in Bad : \A U \in Bad : ~(<<U, T>> \in StrictSubsetOrdering(S))
  BY <1>1, <1>2, WFMin
<1>4. \A U \in SUBSET T : U # T => U \in C
  BY <1>3 DEF Bad, StrictSubsetOrdering
<1> QED
  BY <1>3, <1>4 DEF Bad

\* The form in which a set grows by one element.
LEMMA GrowthInduction ==
  ASSUME NEW S, IsFiniteSet(S), NEW C, {} \in C,
         \A T \in SUBSET S : \A x \in S \ T : T \in C => T \cup {x} \in C
  PROVE  S \in C
<1>1. ASSUME NEW T \in SUBSET S, \A U \in SUBSET T : U # T => U \in C
      PROVE  T \in C
  <2>1. CASE T = {}
    BY <2>1
  <2>2. CASE T # {}
    <3>1. PICK x : x \in T
      BY <2>2
    <3>2. T \ {x} \in C /\ T = (T \ {x}) \cup {x} /\ x \in S \ (T \ {x}) /\ T \ {x} \in SUBSET S
      BY <1>1, <3>1
    <3> QED
      BY <3>2
  <2> QED
    BY <2>1, <2>2
<1> QED
  BY <1>1, SubsetInduction

-----------------------------------------------------------------------------
(* A sum is well defined *)

\* One step of the computation of a sum.
LEMMA SumStep ==
  ASSUME NEW g, NEW f, NEW S, IsSum(g, f, S), NEW T \in SUBSET S, T # {}
  PROVE  AnyOf(T) \in T /\ g[T] = f[AnyOf(T)] + g[T \ {AnyOf(T)}]
<1>1. AnyOf(T) \in T
  BY DEF AnyOf
<1>2. g[T] = IF T = {} THEN 0 ELSE f[AnyOf(T)] + g[T \ {AnyOf(T)}]
  BY DEF IsSum
<1> QED
  BY <1>1, <1>2

\* Functions that compute sums of the same values agree where both are defined.
LEMMA SumUnique ==
  ASSUME NEW g, NEW h, NEW f, NEW e, NEW S, NEW T, IsFiniteSet(S),
         IsSum(g, f, S), IsSum(h, e, T), NEW V, V \subseteq S, V \subseteq T,
         \A x \in V : f[x] = e[x]
  PROVE  g[V] = h[V]
<1> DEFINE C == {U \in SUBSET V : g[U] = h[U]}
<1>1. IsFiniteSet(V)
  BY FS_Subset
<1>2. ASSUME NEW U \in SUBSET V, \A W \in SUBSET U : W # U => W \in C
      PROVE  U \in C
  <2>1. CASE U = {}
    <3>1. g[{}] = 0 /\ h[{}] = 0
      BY DEF IsSum
    <3> QED
      BY <2>1, <3>1
  <2>2. CASE U # {}
    <3>1. /\ AnyOf(U) \in U /\ g[U] = f[AnyOf(U)] + g[U \ {AnyOf(U)}]
          /\ h[U] = e[AnyOf(U)] + h[U \ {AnyOf(U)}]
      BY <2>2, SumStep
    <3>2. U \ {AnyOf(U)} \in C
      BY <1>2, <3>1
    <3>3. f[AnyOf(U)] = e[AnyOf(U)]
      BY <3>1
    <3> QED
      BY <3>1, <3>2, <3>3
  <2> QED
    BY <2>1, <2>2
<1> HIDE DEF C
<1>3. V \in C
  BY <1>1, <1>2, SubsetInduction
<1> QED
  BY <1>3 DEF C

\* There is such a function for every finite set.
LEMMA SumExists ==
  ASSUME NEW S, IsFiniteSet(S), NEW f
  PROVE  \E g : IsSum(g, f, S)
<1> DEFINE C == {T \in SUBSET S : \E g : IsSum(g, f, T)}
           G(T) == CHOOSE g : IsSum(g, f, T)
<1>1. ASSUME NEW T \in SUBSET S, \A U \in SUBSET T : U # T => U \in C
      PROVE  T \in C
  <2> DEFINE Value(s) == IF s = {} THEN 0
                         ELSE f[AnyOf(s)] + G(s \ {AnyOf(s)})[s \ {AnyOf(s)}]
             g == [s \in SUBSET T |-> Value(s)]
  <2>1. ASSUME NEW U \in SUBSET T, U # T
        PROVE  IsSum(G(U), f, U) /\ IsFiniteSet(U)
    <3>1. \E h : IsSum(h, f, U)
      BY <1>1, <2>1
    <3>2. IsFiniteSet(U)
      BY FS_Subset
    <3> QED
      BY <3>1, <3>2
  <2> HIDE DEF G
  <2>2. ASSUME NEW U \in SUBSET T, U # T
        PROVE  G(U)[U] = Value(U)
    <3>1. CASE U = {}
      BY <2>1, <2>2, <3>1 DEF IsSum
    <3>2. CASE U # {}
      <4> DEFINE W == U \ {AnyOf(U)}
      <4>1. IsSum(G(U), f, U) /\ IsFiniteSet(U)
        BY <2>1, <2>2
      <4>2. AnyOf(U) \in U /\ G(U)[U] = f[AnyOf(U)] + G(U)[W]
        BY <3>2, <4>1, SumStep
      <4>3. W \in SUBSET T /\ W # T /\ W \subseteq U
        BY <2>2, <4>2
      <4>4. IsSum(G(W), f, W)
        BY <2>1, <4>3
      <4> HIDE DEF W
      <4>5. G(U)[W] = G(W)[W]
        BY <4>1, <4>3, <4>4, SumUnique
      <4> QED
        BY <3>2, <4>2, <4>5 DEF W
    <3> QED
      BY <3>1, <3>2
  <2>3. ASSUME NEW s \in SUBSET T
        PROVE  Value(s) = IF s = {} THEN 0 ELSE f[AnyOf(s)] + g[s \ {AnyOf(s)}]
    <3>1. CASE s # {}
      <4> DEFINE W == s \ {AnyOf(s)}
      <4>1. AnyOf(s) \in s
        BY <3>1 DEF AnyOf
      <4>2. W \in SUBSET T /\ W # T
        BY <4>1
      <4>3. G(W)[W] = Value(W)
        BY <2>2, <4>2
      <4>4. g[W] = Value(W)
        BY <4>2
      <4>5. Value(s) = f[AnyOf(s)] + G(W)[W]
        BY <3>1
      <4> HIDE DEF g, Value, W
      <4>6. Value(s) = f[AnyOf(s)] + g[W]
        BY <4>3, <4>4, <4>5
      <4> QED
        BY <3>1, <4>6 DEF W
    <3>2. CASE s = {}
      BY <3>2
    <3> QED
      BY <3>1, <3>2
  <2> HIDE DEF Value
  <2>4. IsSum(g, f, T)
    BY <2>3 DEF IsSum
  <2> QED
    BY <2>4
<1> HIDE DEF C
<1>2. S \in C
  BY <1>1, SubsetInduction
<1> QED
  BY <1>2 DEF C

\* SumOver is what any such function gives.
LEMMA SumComputed ==
  ASSUME NEW S, IsFiniteSet(S), NEW f, NEW g, IsSum(g, f, S)
  PROVE  SumOver(f, S) = g[S]
<1> DEFINE h == CHOOSE h : IsSum(h, f, S)
<1>1. IsSum(h, f, S)
  OBVIOUS
<1>2. SumOver(f, S) = h[S]
  BY Zenon DEF SumOver, MapThenSumSet, MapThenFoldSet, IsSum, AnyOf
<1> HIDE DEF h
<1>3. g[S] = h[S]
  BY <1>1, SumUnique
<1> QED
  BY <1>2, <1>3

\* One function gives the sums over all subsets.
LEMMA SumOfSubset ==
  ASSUME NEW S, IsFiniteSet(S), NEW f, NEW g, IsSum(g, f, S), NEW T \in SUBSET S
  PROVE  SumOver(f, T) = g[T]
<1>1. IsFiniteSet(T)
  BY FS_Subset
<1>2. PICK h : IsSum(h, f, T)
  BY <1>1, SumExists
<1>3. SumOver(f, T) = h[T]
  BY <1>1, <1>2, SumComputed
<1>4. h[T] = g[T]
  BY <1>1, <1>2, SumUnique
<1> QED
  BY <1>3, <1>4

\* A sum depends on the values in the set only.
LEMMA SumSame ==
  ASSUME NEW S, IsFiniteSet(S), NEW f, NEW e, \A x \in S : f[x] = e[x]
  PROVE  SumOver(f, S) = SumOver(e, S)
<1>1. PICK g : IsSum(g, f, S)
  BY SumExists
<1>2. PICK h : IsSum(h, e, S)
  BY SumExists
<1>3. g[S] = h[S]
  BY <1>1, <1>2, SumUnique
<1> QED
  BY <1>1, <1>2, <1>3, SumComputed

\* The empty sum.
LEMMA SumEmpty ==
  ASSUME NEW f
  PROVE  SumOver(f, {}) = 0
<1>1. IsFiniteSet({})
  BY FS_EmptySet
<1>2. PICK g : IsSum(g, f, {})
  BY <1>1, SumExists
<1>3. g[{}] = 0
  BY <1>2 DEF IsSum
<1> QED
  BY <1>1, <1>2, <1>3, SumComputed

-----------------------------------------------------------------------------
(* A sum of integers does not depend on the order *)

\* A sum of integers is one.
LEMMA SumInt ==
  ASSUME NEW S, IsFiniteSet(S), NEW f, \A x \in S : f[x] \in Int
  PROVE  SumOver(f, S) \in Int
<1>1. PICK g : IsSum(g, f, S)
  BY SumExists
<1> DEFINE C == {T \in SUBSET S : g[T] \in Int}
<1>2. ASSUME NEW T \in SUBSET S, \A U \in SUBSET T : U # T => U \in C
      PROVE  T \in C
  <2>1. CASE T = {}
    <3>1. g[{}] = 0
      BY <1>1 DEF IsSum
    <3> QED
      BY <2>1, <3>1
  <2>2. CASE T # {}
    <3>1. AnyOf(T) \in T /\ g[T] = f[AnyOf(T)] + g[T \ {AnyOf(T)}]
      BY <1>1, <2>2, SumStep
    <3>2. T \ {AnyOf(T)} \in C
      BY <1>2, <3>1
    <3> QED
      BY <3>1, <3>2
  <2> QED
    BY <2>1, <2>2
<1> HIDE DEF C
<1>3. S \in C
  BY <1>2, SubsetInduction
<1> QED
  BY <1>1, <1>3, SumComputed DEF C

\* Any element may be taken out first.
LEMMA SumRemove ==
  ASSUME NEW S, IsFiniteSet(S), NEW f, \A y \in S : f[y] \in Int, NEW x \in S
  PROVE  SumOver(f, S) = f[x] + SumOver(f, S \ {x})
<1>1. PICK g : IsSum(g, f, S)
  BY SumExists
<1>2. \A T \in SUBSET S : SumOver(f, T) = g[T]
  BY <1>1, SumOfSubset
<1>3. \A T \in SUBSET S : g[T] \in Int
  <2> TAKE T \in SUBSET S
  <2>1. IsFiniteSet(T)
    BY FS_Subset
  <2> QED
    BY <1>2, <2>1, SumInt
<1> DEFINE C == {T \in SUBSET S : \A y \in T : g[T] = f[y] + g[T \ {y}]}
<1>4. ASSUME NEW T \in SUBSET S, \A U \in SUBSET T : U # T => U \in C
      PROVE  T \in C
  <2> SUFFICES ASSUME NEW y \in T
               PROVE  g[T] = f[y] + g[T \ {y}]
    OBVIOUS
  <2> DEFINE z == AnyOf(T)
             W == (T \ {z}) \ {y}
  <2>1. z \in T /\ g[T] = f[z] + g[T \ {z}]
    BY <1>1, SumStep
  <2> HIDE DEF z
  <2>2. CASE y # z
    <3>1. T \ {z} \in C /\ T \ {y} \in C
      BY <1>4, <2>1
    <3>2. y \in T \ {z} /\ z \in T \ {y} /\ W = (T \ {y}) \ {z}
      BY <2>1, <2>2
    <3>3. g[T \ {z}] = f[y] + g[W]
      BY <3>1, <3>2
    <3>4. g[T \ {y}] = f[z] + g[W]
      BY <3>1, <3>2
    <3>5. f[y] \in Int /\ f[z] \in Int /\ W \in SUBSET S
      BY <2>1
    <3>6. g[W] \in Int
      BY <1>3, <3>5
    <3> HIDE DEF W, C
    <3> QED
      BY <2>1, <3>3, <3>4, <3>5, <3>6
  <2> QED
    BY <2>1, <2>2
<1> HIDE DEF C
<1>5. S \in C
  BY <1>4, SubsetInduction
<1>6. g[S] = f[x] + g[S \ {x}]
  BY <1>5 DEF C
<1>7. S \ {x} \in SUBSET S
  OBVIOUS
<1> QED
  BY <1>2, <1>6, <1>7

\* A set grown by one element.
LEMMA SumAdd ==
  ASSUME NEW S, IsFiniteSet(S), NEW x, x \notin S, NEW f, \A y \in S \cup {x} : f[y] \in Int
  PROVE  SumOver(f, S \cup {x}) = SumOver(f, S) + f[x]
<1>1. IsFiniteSet(S \cup {x}) /\ (S \cup {x}) \ {x} = S
  BY FS_AddElement
<1>2. SumOver(f, S \cup {x}) = f[x] + SumOver(f, S)
  BY <1>1, SumRemove
<1>3. SumOver(f, S) \in Int
  BY SumInt
<1> QED
  BY <1>2, <1>3

\* A set split in two.
LEMMA SumUnion ==
  ASSUME NEW S, NEW T, IsFiniteSet(S), IsFiniteSet(T), S \cap T = {},
         NEW f, \A x \in S \cup T : f[x] \in Int
  PROVE  SumOver(f, S \cup T) = SumOver(f, S) + SumOver(f, T)
<1> DEFINE C == {U \in SUBSET T : SumOver(f, S \cup U) = SumOver(f, S) + SumOver(f, U)}
<1>1. \A U \in SUBSET T : /\ IsFiniteSet(U) /\ IsFiniteSet(S \cup U)
                          /\ SumOver(f, U) \in Int
  BY FS_Subset, FS_Union, SumInt
<1>2. SumOver(f, S) \in Int
  BY SumInt
<1>3. {} \in C
  <2>1. SumOver(f, {}) = 0 /\ S \cup {} = S
    BY SumEmpty
  <2> QED
    BY <1>2, <2>1
<1>4. ASSUME NEW U \in SUBSET T, NEW x \in T \ U, U \in C
      PROVE  U \cup {x} \in C
  <2>1. SumOver(f, U \cup {x}) = SumOver(f, U) + f[x]
    BY <1>1, SumAdd
  <2>2. S \cup (U \cup {x}) = (S \cup U) \cup {x} /\ x \notin S \cup U
    OBVIOUS
  <2>3. SumOver(f, (S \cup U) \cup {x}) = SumOver(f, S \cup U) + f[x]
    BY <1>1, <2>2, SumAdd
  <2>4. SumOver(f, S \cup U) = SumOver(f, S) + SumOver(f, U) /\ f[x] \in Int
    BY <1>4
  <2>5. SumOver(f, U) \in Int /\ f[x] \in Int
    BY <1>1
  <2>6. SumOver(f, S \cup (U \cup {x})) = SumOver(f, S) + SumOver(f, U \cup {x})
    <3>1. SumOver(f, (S \cup U) \cup {x}) = (SumOver(f, S) + SumOver(f, U)) + f[x]
      BY <2>3, <2>4
    <3>2. SumOver(f, S \cup (U \cup {x})) = SumOver(f, (S \cup U) \cup {x})
      BY <2>2
    <3> QED
      BY <1>2, <2>1, <2>5, <3>1, <3>2
  <2> QED
    BY <2>6
<1> HIDE DEF C
<1>5. T \in C
  BY <1>3, <1>4, GrowthInduction
<1> QED
  BY <1>5 DEF C

-----------------------------------------------------------------------------
(* Sums of natural numbers *)

\* A sum of natural numbers is one.
LEMMA SumNat ==
  ASSUME NEW S, IsFiniteSet(S), NEW f, \A x \in S : f[x] \in Nat
  PROVE  SumOver(f, S) \in Nat
<1> DEFINE C == {T \in SUBSET S : SumOver(f, T) \in Nat}
<1>1. {} \in C
  BY SumEmpty
<1>2. ASSUME NEW T \in SUBSET S, NEW x \in S \ T, T \in C
      PROVE  T \cup {x} \in C
  <2>1. IsFiniteSet(T) /\ x \notin T /\ \A y \in T \cup {x} : f[y] \in Int
    BY FS_Subset
  <2>2. SumOver(f, T \cup {x}) = SumOver(f, T) + f[x]
    BY <2>1, SumAdd
  <2> QED
    BY <1>2, <2>2
<1> HIDE DEF C
<1>3. S \in C
  BY <1>1, <1>2, GrowthInduction
<1> QED
  BY <1>3 DEF C

\* A part of them sums to no more than the whole.
LEMMA SumWithin ==
  ASSUME NEW S, IsFiniteSet(S), NEW f, \A x \in S : f[x] \in Nat, NEW T \in SUBSET S
  PROVE  SumOver(f, T) \in Nat /\ SumOver(f, T) <= SumOver(f, S)
<1>1. /\ IsFiniteSet(T) /\ IsFiniteSet(S \ T) /\ T \cup (S \ T) = S /\ T \cap (S \ T) = {}
  BY FS_Subset, FS_Difference
<1>2. SumOver(f, T) \in Nat /\ SumOver(f, S \ T) \in Nat
  BY <1>1, SumNat
<1>3. SumOver(f, S) = SumOver(f, T) + SumOver(f, S \ T)
  BY <1>1, SumUnion
<1> QED
  BY <1>2, <1>3

\* A sum of numbers that are at most n.
LEMMA SumBound ==
  ASSUME NEW S, IsFiniteSet(S), NEW n \in Nat, NEW f, \A x \in S : f[x] \in 0..n
  PROVE  SumOver(f, S) \in Nat /\ SumOver(f, S) <= Cardinality(S) * n
<1> DEFINE C == {T \in SUBSET S : SumOver(f, T) <= Cardinality(T) * n}
<1>1. {} \in C
  BY SumEmpty, FS_EmptySet
<1>2. ASSUME NEW T \in SUBSET S, NEW x \in S \ T, T \in C
      PROVE  T \cup {x} \in C
  <2>1. IsFiniteSet(T) /\ x \notin T /\ \A y \in T \cup {x} : f[y] \in Int
    BY FS_Subset
  <2>2. SumOver(f, T \cup {x}) = SumOver(f, T) + f[x] /\ SumOver(f, T) \in Int
    BY <2>1, SumAdd, SumInt
  <2>3. Cardinality(T \cup {x}) = Cardinality(T) + 1 /\ Cardinality(T) \in Nat
    BY <2>1, FS_AddElement, FS_CardinalityType
  <2>4. ASSUME NEW k \in Nat
        PROVE  (k + 1) * n = k * n + n /\ k * n \in Nat
    OBVIOUS
  <2>5. SumOver(f, T) <= Cardinality(T) * n /\ f[x] \in 0..n
    BY <1>2
  <2> QED
    BY <2>2, <2>3, <2>4, <2>5
<1> HIDE DEF C
<1>3. S \in C
  BY <1>1, <1>2, GrowthInduction
<1>4. SumOver(f, S) \in Nat
  BY SumNat
<1> QED
  BY <1>3, <1>4 DEF C

\* A sum split into one element of H and the others, which are one less.
LEMMA SumOthers ==
  ASSUME NEW H, IsFiniteSet(H), NEW S \in SUBSET H, NEW x \in H,
         NEW n \in Nat, NEW f, \A y \in S : f[y] \in 0..n
  PROVE  /\ SumOver(f, S \ {x}) \in Nat
         /\ SumOver(f, S \ {x}) <= (Cardinality(H) - 1) * n
         /\ x \in S => SumOver(f, S) = SumOver(f, S \ {x}) + f[x]
         /\ x \notin S => SumOver(f, S) = SumOver(f, S \ {x})
<1>1. IsFiniteSet(S) /\ IsFiniteSet(S \ {x}) /\ IsFiniteSet(H \ {x}) /\ S \ {x} \subseteq H \ {x}
  BY FS_Subset
<1>2. SumOver(f, S \ {x}) \in Nat /\ SumOver(f, S \ {x}) <= Cardinality(S \ {x}) * n
  BY <1>1, SumBound
<1>3. /\ Cardinality(H \ {x}) = Cardinality(H) - 1
      /\ Cardinality(H) \in Nat /\ Cardinality(H \ {x}) \in Nat /\ Cardinality(S \ {x}) \in Nat
      /\ Cardinality(S \ {x}) <= Cardinality(H \ {x})
  <2>1. Cardinality(H \ {x}) = Cardinality(H) - 1
    BY FS_RemoveElement
  <2>2. Cardinality(S \ {x}) <= Cardinality(H \ {x})
    BY <1>1, FS_Subset
  <2> QED
    BY <1>1, <2>1, <2>2, FS_CardinalityType
<1>4. ASSUME NEW a \in Nat, NEW b \in Nat, a <= b
      PROVE  a * n \in Nat /\ b * n \in Nat /\ a * n <= b * n
  BY <1>4
<1>5. SumOver(f, S \ {x}) <= (Cardinality(H) - 1) * n
  BY <1>2, <1>3, <1>4
<1>6. CASE x \in S
  <2>1. \A y \in S : f[y] \in Int
    OBVIOUS
  <2>2. SumOver(f, S) = f[x] + SumOver(f, S \ {x}) /\ f[x] \in Int
    BY <1>1, <1>6, <2>1, SumRemove
  <2> QED
    BY <1>2, <1>5, <1>6, <2>2
<1>7. CASE x \notin S
  <2>1. S \ {x} = S
    BY <1>7
  <2> QED
    BY <1>2, <1>5, <1>7, <2>1
<1> QED
  BY <1>6, <1>7

-----------------------------------------------------------------------------
(* The sum of a field, as MapThenSumSet computes it *)

\* A sum of the amounts of rows is that of a function.
LEMMA AmountsComputed ==
  ASSUME NEW rows, NEW S, IsFiniteSet(S)
  PROVE  MapThenSumSet(LAMBDA i : rows[i].amount, S) = SumOver([i \in S |-> rows[i].amount], S)
<1> DEFINE f == [i \in S |-> rows[i].amount]
           Q(g) == g = [s \in SUBSET S |-> IF s = {} THEN 0
                                           ELSE rows[AnyOf(s)].amount + g[s \ {AnyOf(s)}]]
           h == CHOOSE g : Q(g)
<1>1. ASSUME NEW g
      PROVE  Q(g) <=> IsSum(g, f, S)
  <2>1. ASSUME NEW s \in SUBSET S, s # {}
        PROVE  f[AnyOf(s)] = rows[AnyOf(s)].amount
    BY <2>1 DEF AnyOf
  <2>2. [s \in SUBSET S |-> IF s = {} THEN 0 ELSE rows[AnyOf(s)].amount + g[s \ {AnyOf(s)}]]
          = [s \in SUBSET S |-> IF s = {} THEN 0 ELSE f[AnyOf(s)] + g[s \ {AnyOf(s)}]]
    BY <2>1
  <2> QED
    BY <2>2 DEF IsSum
<1>2. MapThenSumSet(LAMBDA i : rows[i].amount, S) = h[S]
  BY Zenon DEF MapThenSumSet, MapThenFoldSet, AnyOf
<1> HIDE DEF Q, f
<1>3. PICK g : IsSum(g, f, S)
  BY SumExists
<1>4. Q(h)
  BY <1>1, <1>3
<1> HIDE DEF h
<1>5. SumOver(f, S) = h[S]
  BY <1>1, <1>4, SumComputed
<1> QED
  BY <1>2, <1>5 DEF f

-----------------------------------------------------------------------------
(* The greatest number of a finite set *)

\* A finite set of integers has a greatest one, and Max is it.
LEMMA MaxOfFinite ==
  ASSUME NEW S, IsFiniteSet(S), S \subseteq Int, S # {}
  PROVE  Max(S) \in S /\ \A x \in S : x <= Max(S)
<1> DEFINE C == {T \in SUBSET S : T = {} \/ \E m \in T : \A x \in T : x <= m}
<1>1. ASSUME NEW T \in SUBSET S, NEW y \in S \ T, T \in C
      PROVE  T \cup {y} \in C
  <2>1. CASE T = {}
    BY <2>1
  <2>2. CASE T # {}
    <3>1. PICK m \in T : \A x \in T : x <= m
      BY <1>1, <2>2
    <3>2. CASE y <= m
      BY <3>1, <3>2
    <3>3. CASE m <= y
      <4>1. \A x \in T \cup {y} : x <= y
        BY <3>1, <3>3
      <4> QED
        BY <4>1
    <3> QED
      BY <3>2, <3>3
  <2> QED
    BY <2>1, <2>2
<1>2. {} \in C
  OBVIOUS
<1> HIDE DEF C
<1>3. S \in C
  BY <1>1, <1>2, GrowthInduction
<1>4. \E m \in S : \A x \in S : x <= m
  BY <1>3 DEF C
<1>5. \E m \in S : \A x \in S : m >= x
  BY <1>4
<1>6. Max(S) \in S /\ \A x \in S : Max(S) >= x
  BY <1>5 DEF Max
<1> QED
  BY <1>6
=============================================================================
