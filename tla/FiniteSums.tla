----------------------------- MODULE FiniteSums -----------------------------
(***************************************************************************)
(* Facts about naturals, finite sets and SumFunctionOnSet of the community *)
(* modules that the proofs of several components rest on: induction in the *)
(* form of sets, the recursion equation of a sum and what follows from it, *)
(* and that a finite order has a maximal element.                          *)
(***************************************************************************)
EXTENDS Functions, FiniteSetTheorems, WellFoundedInduction, TLAPS

\* The leaves are proved by Zenon but for those that cite another prover.
USE Zenon

\* A non-empty set of naturals has a least element.
LEMMA LeastNatural ==
    ASSUME NEW T, T \subseteq Nat, T # {}
    PROVE  \E x \in T : \A y \in T : x <= y
  <1> DEFINE R == OpToRel(<, Nat)
  <1>1. IsWellFoundedOn(R, Nat)
    BY NatLessThanWellFounded
  <1>2. \A y \in Nat, x \in Nat : <<y, x>> \in R <=> y < x
    BY DEF OpToRel
  <1> HIDE DEF R
  <1>3. PICK x \in T : \A y \in T : ~(<<y, x>> \in R)
    BY <1>1, WFMin
  <1>4. \A y \in T : ~(y < x)
    BY <1>2, <1>3
  <1> QED BY SMT, <1>4

\* Induction over the naturals, stated of a set: the library's form takes an
\* operator, which the provers cannot instantiate.
LEMMA NatSetInduction ==
    ASSUME NEW F, 0 \in F, \A n \in Nat : n \in F => n + 1 \in F
    PROVE  Nat \subseteq F
  <1> DEFINE T == {n \in Nat : n \notin F}
  <1> SUFFICES ASSUME T # {} PROVE FALSE
    OBVIOUS
  <1>1. PICK m \in T : \A y \in T : m <= y
    <2>1. T \subseteq Nat
      OBVIOUS
    <2> HIDE DEF T
    <2> QED BY <2>1, LeastNatural
  <1>2. m # 0 /\ m \in Nat
    OBVIOUS
  <1>3. m - 1 \in Nat /\ m - 1 \in F
    BY SMT, <1>1, <1>2
  <1> QED BY SMT, <1>1, <1>2, <1>3

\* Induction over the subsets of a finite set: what holds of a set once it holds
\* of the set without any one element holds of every subset.
LEMMA ShrinkInduction ==
    ASSUME NEW S, IsFiniteSet(S), NEW F,
           \A T \in SUBSET S : (\A x \in T : T \ {x} \in F) => T \in F
    PROVE  SUBSET S \subseteq F
  <1> DEFINE N == {n \in Nat : \A T \in SUBSET S : Cardinality(T) = n => T \in F}
  <1>1. 0 \in N
    <2> SUFFICES ASSUME NEW T \in SUBSET S, Cardinality(T) = 0 PROVE T \in F
      OBVIOUS
    <2>1. IsFiniteSet(T)
      BY FS_Subset
    <2> QED BY <2>1, FS_EmptySet
  <1>2. ASSUME NEW n \in Nat, n \in N PROVE n + 1 \in N
    <2> SUFFICES ASSUME NEW T \in SUBSET S, Cardinality(T) = n + 1, NEW x \in T
                 PROVE  T \ {x} \in F
      BY SMT
    <2>1. IsFiniteSet(T)
      BY FS_Subset
    <2>2. Cardinality(T \ {x}) = Cardinality(T) - 1
      BY <2>1, FS_RemoveElement
    <2>3. Cardinality(T \ {x}) = n
      BY SMT, <2>2
    <2> QED BY <1>2, <2>3
  <1>3. Nat \subseteq N
    <2> HIDE DEF N
    <2> QED BY <1>1, <1>2, NatSetInduction
  <1> SUFFICES ASSUME NEW T \in SUBSET S PROVE T \in F
    OBVIOUS
  <1>4. Cardinality(T) \in Nat
    BY FS_Subset, FS_CardinalityType
  <1> QED BY <1>3, <1>4

\* The element SumFunctionOnSet takes out of a set.
Taken(s) == CHOOSE x \in s : TRUE

\* One unfolding of SumFunctionOnSet's iteration.
SumStep(f, g, s) == IF s = {} THEN 0 ELSE f[Taken(s)] + g[s \ {Taken(s)}]

\* SumFunctionOnSet is the function on subsets that its iteration chooses.
LEMMA SumDefinition ==
    ASSUME NEW f, NEW S
    PROVE  SumFunctionOnSet(f, S) = (CHOOSE g : g = [s \in SUBSET S |-> SumStep(f, g, s)])[S]
  BY DEF SumFunctionOnSet, FoldFunctionOnSet, MapThenFoldSet, SumStep, Taken

\* Taking out the chosen element leaves a finite set with one element less.
LEMMA TakenSmaller ==
    ASSUME NEW S, IsFiniteSet(S), NEW s \in SUBSET S, s # {}
    PROVE  /\ Taken(s) \in s
           /\ IsFiniteSet(s) /\ IsFiniteSet(s \ {Taken(s)})
           /\ Cardinality(s) \in Nat /\ Cardinality(s \ {Taken(s)}) \in Nat
           /\ Cardinality(s \ {Taken(s)}) = Cardinality(s) - 1
  <1>1. Taken(s) \in s
    BY DEF Taken
  <1>2. IsFiniteSet(s)
    BY FS_Subset
  <1>3. IsFiniteSet(s \ {Taken(s)}) /\ Cardinality(s \ {Taken(s)}) = Cardinality(s) - 1
    BY <1>1, <1>2, FS_RemoveElement
  <1>4. Cardinality(s) \in Nat /\ Cardinality(s \ {Taken(s)}) \in Nat
    BY <1>2, <1>3, FS_CardinalityType
  <1> QED BY <1>1, <1>2, <1>3, <1>4

\* The recursion of SumFunctionOnSet has a solution on a finite set.
LEMMA SumExists ==
    ASSUME NEW S, IsFiniteSet(S), NEW f
    PROVE  \E g : g = [s \in SUBSET S |-> SumStep(f, g, s)]
  <1> DEFINE D(n) == {s \in SUBSET S : Cardinality(s) <= n}
             N == {n \in Nat : \E g : g = [s \in D(n) |-> SumStep(f, g, s)]}
  <1>1. 0 \in N
    <2>1. \A s \in D(0) : s = {}
      <3> TAKE s \in D(0)
      <3>1. IsFiniteSet(s) /\ Cardinality(s) <= 0
        BY FS_Subset
      <3>2. Cardinality(s) \in Nat
        BY <3>1, FS_CardinalityType
      <3> QED BY SMT, <3>1, <3>2, FS_EmptySet
    <2>2. \A g : [s \in D(0) |-> 0] = [s \in D(0) |-> SumStep(f, g, s)]
      BY <2>1 DEF SumStep
    <2> QED BY <2>2
  <1>2. ASSUME NEW n \in Nat, n \in N PROVE n + 1 \in N
    <2>1. PICK g : g = [s \in D(n) |-> SumStep(f, g, s)]
      BY <1>2
    <2> DEFINE h == [s \in D(n + 1) |-> SumStep(f, g, s)]
    <2>2. ASSUME NEW s \in D(n + 1) PROVE SumStep(f, h, s) = SumStep(f, g, s)
      <3>1. CASE s = {}
        BY <3>1 DEF SumStep
      <3>2. CASE s # {}
        <4> DEFINE t == s \ {Taken(s)}
        <4>1. Cardinality(t) \in Nat /\ Cardinality(t) = Cardinality(s) - 1 /\ Cardinality(s) \in Nat
          BY <3>2, TakenSmaller
        <4>2. t \in D(n) /\ t \in D(n + 1)
          BY SMT, <4>1
        <4>3. g[t] = h[t]
          BY <2>1, <4>2
        <4> QED BY SMT, <3>2, <4>3 DEF SumStep
      <3> QED BY <3>1, <3>2
    <2>3. h = [s \in D(n + 1) |-> SumStep(f, h, s)]
      BY <2>2
    <2>4. \E k : k = [s \in D(n + 1) |-> SumStep(f, k, s)]
      BY <2>3
    <2>5. n + 1 \in Nat
      BY SMT
    <2> HIDE DEF D
    <2> QED BY <2>4, <2>5
  <1>3. Nat \subseteq N
    <2> HIDE DEF N
    <2> QED BY <1>1, <1>2, NatSetInduction
  <1>4. Cardinality(S) \in Nat
    BY FS_CardinalityType
  <1>5. D(Cardinality(S)) = SUBSET S
    BY FS_Subset
  <1> QED BY <1>3, <1>4, <1>5

\* The solution on a set gives the sums of its subsets.
LEMMA SumPart ==
    ASSUME NEW S, IsFiniteSet(S), NEW f, NEW T \in SUBSET S
    PROVE  LET g == CHOOSE g : g = [s \in SUBSET S |-> SumStep(f, g, s)]
           IN  g[T] = SumFunctionOnSet(f, T)
  <1> DEFINE g == CHOOSE g : g = [s \in SUBSET S |-> SumStep(f, g, s)]
             h == CHOOSE h : h = [s \in SUBSET T |-> SumStep(f, h, s)]
  <1>1. IsFiniteSet(T)
    BY FS_Subset
  <1>2. g = [s \in SUBSET S |-> SumStep(f, g, s)]
    BY SMT, SumExists
  <1>3. h = [s \in SUBSET T |-> SumStep(f, h, s)]
    BY SMT, <1>1, SumExists
  <1> HIDE DEF g, h
  <1> DEFINE F == {s \in SUBSET T : g[s] = h[s]}
  <1>4. ASSUME NEW s \in SUBSET T, \A x \in s : s \ {x} \in F PROVE s \in F
    <2>1. g[s] = SumStep(f, g, s) /\ h[s] = SumStep(f, h, s)
      BY <1>2, <1>3
    <2>2. s # {} => g[s \ {Taken(s)}] = h[s \ {Taken(s)}]
      BY <1>4, <1>1, TakenSmaller
    <2> QED BY <2>1, <2>2 DEF SumStep
  <1>5. SUBSET T \subseteq F
    <2> HIDE DEF F
    <2> QED BY <1>1, <1>4, ShrinkInduction
  <1>8. g[T] = h[T]
    BY <1>5
  <1> QED BY <1>8, SumDefinition DEF g, h

\* The recursion equation of SumFunctionOnSet.
LEMMA SumEquation ==
    ASSUME NEW S, IsFiniteSet(S), NEW f
    PROVE  SumFunctionOnSet(f, S) =
              IF S = {} THEN 0 ELSE f[Taken(S)] + SumFunctionOnSet(f, S \ {Taken(S)})
  <1> DEFINE g == CHOOSE g : g = [s \in SUBSET S |-> SumStep(f, g, s)]
  <1>1. g = [s \in SUBSET S |-> SumStep(f, g, s)]
    BY SMT, SumExists
  <1>2. \A T \in SUBSET S : g[T] = SumFunctionOnSet(f, T)
    BY SumPart
  <1> HIDE DEF g
  <1>3. g[S] = SumStep(f, g, S)
    BY <1>1
  <1> QED BY <1>2, <1>3 DEF SumStep

\* The empty sum.
LEMMA SumEmpty == \A f : SumFunctionOnSet(f, {}) = 0
  BY SumEquation, FS_EmptySet

\* A sum of naturals is a natural.
LEMMA SumType ==
    ASSUME NEW S, IsFiniteSet(S), NEW f, \A x \in S : f[x] \in Nat
    PROVE  SumFunctionOnSet(f, S) \in Nat
  <1> DEFINE F == {T \in SUBSET S : SumFunctionOnSet(f, T) \in Nat}
  <1>1. ASSUME NEW T \in SUBSET S, \A x \in T : T \ {x} \in F PROVE T \in F
    <2>1. IsFiniteSet(T)
      BY FS_Subset
    <2>2. T # {} => Taken(T) \in T
      BY DEF Taken
    <2>3. T # {} => SumFunctionOnSet(f, T \ {Taken(T)}) \in Nat
      BY <1>1, <2>2
    <2>4. T # {} => f[Taken(T)] \in Nat
      BY <2>2
    <2> QED BY SMT, <2>1, <2>3, <2>4, SumEquation
  <1>2. SUBSET S \subseteq F
    <2> HIDE DEF F
    <2> QED BY <1>1, ShrinkInduction
  <1> QED BY <1>2

\* Any element may be taken out of a sum, not only the chosen one.
LEMMA SumRemove ==
    ASSUME NEW S, IsFiniteSet(S), NEW f, \A x \in S : f[x] \in Nat, NEW y \in S
    PROVE  SumFunctionOnSet(f, S) = f[y] + SumFunctionOnSet(f, S \ {y})
  <1> DEFINE F == {T \in SUBSET S :
                     \A x \in T : SumFunctionOnSet(f, T) = f[x] + SumFunctionOnSet(f, T \ {x})}
  <1>1. ASSUME NEW T \in SUBSET S, \A x \in T : T \ {x} \in F PROVE T \in F
    <2> SUFFICES ASSUME NEW x \in T
                 PROVE  SumFunctionOnSet(f, T) = f[x] + SumFunctionOnSet(f, T \ {x})
      OBVIOUS
    <2> DEFINE c == Taken(T)
    <2>1. IsFiniteSet(T) /\ T # {}
      BY FS_Subset
    <2>2. c \in T
      BY DEF Taken
    <2>3. SumFunctionOnSet(f, T) = f[c] + SumFunctionOnSet(f, T \ {c})
      BY <2>1, SumEquation
    <2> HIDE DEF c
    <2>4. CASE x = c
      BY <2>3, <2>4
    <2>5. CASE x # c
      <3>2. SumFunctionOnSet(f, T \ {c}) = f[x] + SumFunctionOnSet(f, (T \ {c}) \ {x})
        BY <1>1, <2>2, <2>5
      <3>3. SumFunctionOnSet(f, T \ {x}) = f[c] + SumFunctionOnSet(f, (T \ {x}) \ {c})
        BY <1>1, <2>2, <2>5
      <3>4. (T \ {c}) \ {x} = (T \ {x}) \ {c}
        OBVIOUS
      <3>5. SumFunctionOnSet(f, (T \ {c}) \ {x}) \in Nat
        <4>1. IsFiniteSet((T \ {c}) \ {x})
          BY FS_Subset
        <4> QED BY <4>1, SumType
      <3>6. f[x] \in Nat /\ f[c] \in Nat
        BY <2>2
      <3> QED BY SMT, <2>3, <3>2, <3>3, <3>4, <3>5, <3>6
    <2> QED BY <2>4, <2>5
  <1>2. SUBSET S \subseteq F
    <2> HIDE DEF F
    <2> QED BY <1>1, ShrinkInduction
  <1> QED BY <1>2

\* Functions that agree on a set have the same sum over it.
LEMMA SumAgree ==
    ASSUME NEW S, IsFiniteSet(S), NEW f, NEW g, \A x \in S : f[x] = g[x]
    PROVE  SumFunctionOnSet(f, S) = SumFunctionOnSet(g, S)
  <1> DEFINE F == {T \in SUBSET S : SumFunctionOnSet(f, T) = SumFunctionOnSet(g, T)}
  <1>1. ASSUME NEW T \in SUBSET S, \A x \in T : T \ {x} \in F PROVE T \in F
    <2>1. IsFiniteSet(T)
      BY FS_Subset
    <2>2. T # {} => Taken(T) \in T
      BY DEF Taken
    <2>3. T # {} => SumFunctionOnSet(f, T \ {Taken(T)}) = SumFunctionOnSet(g, T \ {Taken(T)})
      BY <1>1, <2>2
    <2> QED BY <2>1, <2>2, <2>3, SumEquation
  <1>2. SUBSET S \subseteq F
    <2> HIDE DEF F
    <2> QED BY <1>1, ShrinkInduction
  <1> QED BY <1>2

\* What one update of a function of naturals does to a sum of it.
LEMMA SumUpdate ==
    ASSUME NEW S, IsFiniteSet(S), NEW f, NEW g, NEW y,
           \A x \in S : f[x] \in Nat /\ g[x] \in Nat /\ (x # y => g[x] = f[x])
    PROVE  SumFunctionOnSet(g, S) =
              IF y \in S THEN SumFunctionOnSet(f, S) - f[y] + g[y] ELSE SumFunctionOnSet(f, S)
  <1>1. CASE y \notin S
    BY <1>1, SumAgree
  <1>2. CASE y \in S
    <2>1. IsFiniteSet(S \ {y})
      BY FS_Subset
    <2>2. SumFunctionOnSet(f, S \ {y}) = SumFunctionOnSet(g, S \ {y})
      BY <2>1, SumAgree
    <2>3. SumFunctionOnSet(f, S \ {y}) \in Nat
      BY <2>1, SumType
    <2>4. SumFunctionOnSet(f, S) = f[y] + SumFunctionOnSet(f, S \ {y})
      BY <1>2, SumRemove
    <2>5. SumFunctionOnSet(g, S) = g[y] + SumFunctionOnSet(g, S \ {y})
      BY <1>2, SumRemove
    <2> QED BY SMT, <1>2, <2>2, <2>3, <2>4, <2>5
  <1> QED BY <1>1, <1>2

\* A sum of naturals is zero only if every term is.
LEMMA SumZero ==
    ASSUME NEW S, IsFiniteSet(S), NEW f, \A x \in S : f[x] \in Nat
    PROVE  /\ \A x \in S : f[x] <= SumFunctionOnSet(f, S)
           /\ (\A x \in S : f[x] = 0) => SumFunctionOnSet(f, S) = 0
  <1>1. ASSUME NEW x \in S PROVE f[x] <= SumFunctionOnSet(f, S)
    <2>1. IsFiniteSet(S \ {x})
      BY FS_Subset
    <2>2. SumFunctionOnSet(f, S \ {x}) \in Nat
      BY <2>1, SumType
    <2> QED BY SMT, <2>2, SumRemove
  <1>2. ASSUME \A x \in S : f[x] = 0 PROVE SumFunctionOnSet(f, S) = 0
    <2> DEFINE F == {T \in SUBSET S : SumFunctionOnSet(f, T) = 0}
    <2>1. ASSUME NEW T \in SUBSET S, \A x \in T : T \ {x} \in F PROVE T \in F
      <3>1. IsFiniteSet(T)
        BY FS_Subset
      <3>2. T # {} => Taken(T) \in T /\ f[Taken(T)] = 0
        BY <1>2 DEF Taken
      <3>3. T # {} => SumFunctionOnSet(f, T \ {Taken(T)}) = 0
        BY <2>1, <3>2
      <3>4. SumFunctionOnSet(f, T) = 0
        <4>1. SumFunctionOnSet(f, T) =
                 IF T = {} THEN 0 ELSE f[Taken(T)] + SumFunctionOnSet(f, T \ {Taken(T)})
          BY <3>1, SumEquation
        <4> QED BY SMT, <3>2, <3>3, <4>1
      <3> QED BY <3>4
    <2>2. SUBSET S \subseteq F
      <3> HIDE DEF F
      <3> QED BY <2>1, ShrinkInduction
    <2> QED BY <2>2
  <1> QED BY <1>1, <1>2

\* Every strict order on a finite set has a maximal element.
LEMMA MaximalExists ==
    ASSUME NEW S, IsFiniteSet(S), S # {}, NEW R,
           \A a \in S : <<a, a>> \notin R,
           \A a, b, c \in S : <<a, b>> \in R /\ <<b, c>> \in R => <<a, c>> \in R
    PROVE  \E m \in S : \A o \in S : <<m, o>> \notin R
  <1> DEFINE F == {T \in SUBSET S : T # {} => \E m \in T : \A o \in T : <<m, o>> \notin R}
  <1>1. ASSUME NEW T \in SUBSET S, \A x \in T : T \ {x} \in F PROVE T \in F
    <2> SUFFICES ASSUME NEW x \in T PROVE \E m \in T : \A o \in T : <<m, o>> \notin R
      OBVIOUS
    <2>1. CASE T = {x}
      BY <2>1
    <2>2. CASE T # {x}
      <3>1. PICK m \in T \ {x} : \A o \in T \ {x} : <<m, o>> \notin R
        BY SMT, <1>1, <2>2
      <3>2. CASE <<m, x>> \in R
        <4>1. \A o \in T : <<x, o>> \notin R
          BY <3>1, <3>2
        <4> QED BY <4>1
      <3>3. CASE <<m, x>> \notin R
        BY <3>1, <3>3
      <3> QED BY <3>2, <3>3
    <2> QED BY <2>1, <2>2
  <1>2. SUBSET S \subseteq F
    <2> HIDE DEF F
    <2> QED BY <1>1, ShrinkInduction
  <1> QED BY <1>2

\* A bounded, non-empty set of naturals has a greatest element.
LEMMA GreatestNatural ==
    ASSUME NEW T, T \subseteq Nat, T # {}, NEW bound \in Nat, \A x \in T : x <= bound
    PROVE  \E x \in T : \A y \in T : x >= y
  <1> DEFINE D == {bound - x : x \in T}
  <1>1. D \subseteq Nat /\ D # {}
    <2>1. \A x \in T : bound - x \in Nat
      BY SMT
    <2> QED BY <2>1
  <1>2. PICK d \in D : \A e \in D : d <= e
    <2> HIDE DEF D
    <2> QED BY <1>1, LeastNatural
  <1>3. PICK x \in T : d = bound - x
    OBVIOUS
  <1>4. ASSUME NEW y \in T PROVE x >= y
    <2>1. bound - x <= bound - y
      BY <1>2, <1>3
    <2> QED BY SMT, <2>1
  <1> QED BY <1>4
=============================================================================
