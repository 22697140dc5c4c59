---------------------------- MODULE DataTheorems ----------------------------
(***************************************************************************)
(* What the models compute over finite sets: sums, least and greatest         *)
(* numbers.  Each fact about every set is proved from a smallest set (or      *)
(* number) for which it would fail.                                         *)
(***************************************************************************)
EXTENDS Integers, FiniteSetsExt, FiniteSetTheorems, TLAPS

-----------------------------------------------------------------------------
(* Smallest counterexamples.                                                *)

LEMMA LessPairs == \A x, y \in Nat : x < y => <<x, y>> \in OpToRel(<, Nat)
BY DEF OpToRel

\* A non-empty set of natural numbers has a least one.
LEMMA MinNat ==
  ASSUME NEW S, S \subseteq Nat, S # {}
  PROVE  Min(S) \in S /\ \A y \in S : Min(S) <= y
<1>1. PICK x \in S : \A y \in S : <<y, x>> \notin OpToRel(<, Nat)
  BY NatLessThanWellFounded, WFMin
<1>2. ASSUME NEW y \in S
      PROVE  ~(y < x)
  BY <1>1, LessPairs
<1>3. \A y \in S : x <= y
  BY <1>2
<1> QED
  BY <1>3 DEF Min

\* A non-empty set of numbers up to n has a greatest one.
LEMMA MaxBounded ==
  ASSUME NEW n \in Nat, NEW S, S \subseteq 0..n, S # {}
  PROVE  Max(S) \in S /\ \A y \in S : Max(S) >= y
<1> DEFINE T == {n - x : x \in S}
<1>1. T \subseteq Nat /\ T # {}
  <2>1. \A x \in S : x \in 0..n /\ n - x \in Nat
    OBVIOUS
  <2> QED
    BY <2>1
<1>2. Min(T) \in T /\ \A y \in T : Min(T) <= y
  BY <1>1, MinNat
<1>3. PICK x \in S : Min(T) = n - x
  BY <1>2
<1>4. \A y \in S : x >= y
  <2> SUFFICES ASSUME NEW y \in S
               PROVE  x >= y
    OBVIOUS
  <2>1. n - x <= n - y
    BY <1>2, <1>3
  <2> QED
    BY <2>1
<1> QED
  BY <1>4 DEF Max

\* The least and the greatest of two numbers.
LEMMA MinPair ==
  ASSUME NEW a \in Nat, NEW b \in Nat
  PROVE  /\ Min({a, b}) \in {a, b}
         /\ Min({a, b}) <= a /\ Min({a, b}) <= b
<1>1. {a, b} \subseteq Nat /\ {a, b} # {}
  OBVIOUS
<1> QED
  BY <1>1, MinNat

LEMMA MaxPair ==
  ASSUME NEW a \in Nat, NEW b \in Nat
  PROVE  /\ Max({a, b}) \in {a, b}
         /\ Max({a, b}) >= a /\ Max({a, b}) >= b
<1> DEFINE n == IF a >= b THEN a ELSE b
<1>1. n \in Nat /\ {a, b} \subseteq 0..n /\ {a, b} # {}
  OBVIOUS
<1> HIDE DEF n
<1> QED
  BY <1>1, MaxBounded

\* A non-empty collection of subsets of a finite set has one without a smaller one.
LEMMA SmallestSet ==
  ASSUME NEW S, IsFiniteSet(S), NEW C, C \subseteq SUBSET S, C # {}
  PROVE  \E T \in C : \A U \in C : U \subseteq T => U = T
<1>1. IsWellFoundedOn(StrictSubsetOrdering(S), SUBSET S)
  BY FS_StrictSubsetOrderingWellFounded, FS_FiniteSubsetsOfFinite
<1>2. PICK T \in C : \A U \in C : <<U, T>> \notin StrictSubsetOrdering(S)
  BY <1>1, WFMin
<1>3. \A U \in C : U \subseteq T => U = T
  BY <1>2 DEF StrictSubsetOrdering
<1> QED
  BY <1>3

\* One of finitely many things has the greatest value: one above which there are
\* as few as possible.
LEMMA MaxValue ==
  ASSUME NEW f, NEW S, IsFiniteSet(S), \A x \in S : f[x] \in Nat, S # {}
  PROVE  \E x \in S : \A y \in S : f[x] >= f[y]
<1> DEFINE Above(x) == {y \in S : f[y] > f[x]}
           C == {Above(x) : x \in S}
<1>1. PICK T \in C : \A U \in C : U \subseteq T => U = T
  <2>1. C \subseteq SUBSET S /\ C # {}
    OBVIOUS
  <2> HIDE DEF C
  <2> QED
    BY ONLY <2>1, IsFiniteSet(S), SmallestSet
<1>2. PICK x \in S : T = Above(x)
  OBVIOUS
<1>3. ASSUME NEW y \in S, f[y] > f[x]
      PROVE  FALSE
  <2>1. Above(y) \subseteq T
    <3>1. ASSUME NEW z \in Above(y)
          PROVE  z \in Above(x)
      <4>1. /\ f[x] \in Nat /\ f[y] \in Nat /\ f[z] \in Nat
            /\ f[z] > f[y] /\ z \in S
        BY <1>3, <3>1
      <4> QED
        BY <1>3, <4>1
    <3> QED
      BY <1>2, <3>1
  <2>2. y \in T /\ y \notin Above(y)
    BY <1>2, <1>3
  <2>3. Above(y) \in C
    OBVIOUS
  <2> QED
    BY <1>1, <2>1, <2>2, <2>3
<1>4. \A y \in S : f[x] >= f[y]
  BY <1>3
<1> QED
  BY <1>4

-----------------------------------------------------------------------------
(* Sums.  SumFunctionOnSet takes the elements in the order of a CHOOSE; the    *)
(* lemmas show that the order makes no difference.                          *)

First(s) == CHOOSE x \in s : TRUE

\* What iter says of one set, with the sums of the smaller ones in g.
SumStep(f, g, s) == IF s = {} THEN 0 ELSE f[First(s)] + g[s \ {First(s)}]

IsSum(f, S, g) == g = [s \in SUBSET S |-> SumStep(f, g, s)]

LEMMA FirstIsElement == ASSUME NEW s, s # {} PROVE First(s) \in s
BY DEF First

LEMMA SumUnfolds ==
  ASSUME NEW f, NEW S
  PROVE  SumFunctionOnSet(f, S) = (CHOOSE g : IsSum(f, S, g))[S]
BY DEF SumFunctionOnSet, FoldFunctionOnSet, MapThenFoldSet, IsSum, SumStep, First

\* The sums of all subsets of a finite set exist: level by level of their sizes.
LEMMA SumExists ==
  ASSUME NEW f, NEW S, IsFiniteSet(S)
  PROVE  \E g : IsSum(f, S, g)
<1> DEFINE Upto(n, g) ==
      \A s \in SUBSET S : Cardinality(s) <= n => g[s] = SumStep(f, g, s)
           Bad == {n \in Nat : ~ \E g : Upto(n, g)}
<1>1. \A s \in SUBSET S :
        /\ IsFiniteSet(s) /\ Cardinality(s) \in Nat /\ Cardinality(s) <= Cardinality(S)
        /\ s # {} => /\ s \ {First(s)} \in SUBSET S
                     /\ Cardinality(s \ {First(s)}) = Cardinality(s) - 1
  <2> SUFFICES ASSUME NEW s \in SUBSET S
               PROVE  /\ IsFiniteSet(s) /\ Cardinality(s) \in Nat
                      /\ Cardinality(s) <= Cardinality(S)
                      /\ s # {} => /\ s \ {First(s)} \in SUBSET S
                                   /\ Cardinality(s \ {First(s)}) = Cardinality(s) - 1
    OBVIOUS
  <2>1. IsFiniteSet(s) /\ Cardinality(s) <= Cardinality(S)
    BY FS_Subset
  <2> QED
    BY <2>1, FS_CardinalityType, FS_RemoveElement, FirstIsElement
<1>2. \A s \in SUBSET S : Cardinality(s) = 0 => s = {}
  BY <1>1, FS_EmptySet
<1>3. ASSUME Bad # {} PROVE FALSE
  <2>1. PICK n \in Bad : \A m \in Bad : n <= m
    BY <1>3, MinNat
  <2>2. n # 0
    <3> DEFINE g == [s \in SUBSET S |-> 0]
    <3>1. Upto(0, g)
      <4> SUFFICES ASSUME NEW s \in SUBSET S, Cardinality(s) <= 0
                   PROVE  g[s] = SumStep(f, g, s)
        OBVIOUS
      <4>0. Cardinality(s) \in Nat
        BY <1>1
      <4>1. s = {}
        BY ONLY <4>0, Cardinality(s) <= 0, s \in SUBSET S, <1>2
      <4> QED
        BY <4>1 DEF SumStep
    <3> QED
      BY <2>1, <3>1
  <2>3. n - 1 \in Nat /\ n - 1 \notin Bad
    BY <2>1, <2>2
  <2>4. PICK h : Upto(n - 1, h)
    BY <2>3
  <2> DEFINE g == [s \in SUBSET S |->
                     IF Cardinality(s) < n THEN h[s] ELSE SumStep(f, h, s)]
  <2>5. Upto(n, g)
    <3> SUFFICES ASSUME NEW s \in SUBSET S, Cardinality(s) <= n
                 PROVE  g[s] = SumStep(f, g, s)
      OBVIOUS
    <3>1. SumStep(f, g, s) = SumStep(f, h, s)
      <4>1. CASE s = {}
        BY <4>1 DEF SumStep
      <4>2. CASE s # {}
        <5>1. /\ s \ {First(s)} \in SUBSET S
              /\ Cardinality(s \ {First(s)}) < n
          BY <1>1, <2>3, <4>2
        <5>2. g[s \ {First(s)}] = h[s \ {First(s)}]
          BY <5>1
        <5> QED
          BY <4>2, <5>2 DEF SumStep
      <4> QED
        BY <4>1, <4>2
    <3>2. CASE Cardinality(s) < n
      <4>0. Cardinality(s) \in Nat /\ n \in Nat
        BY <1>1
      <4>1. Cardinality(s) <= n - 1
        BY ONLY <3>2, <4>0
      <4> QED
        BY <2>4, <3>1, <3>2, <4>1
    <3>3. CASE ~(Cardinality(s) < n)
      BY <3>1, <3>3
    <3> QED
      BY <3>2, <3>3
  <2> HIDE DEF g
  <2> QED
    BY <2>1, <2>5
<1>4. Cardinality(S) \in Nat
  BY FS_CardinalityType
<1>5. PICK g : Upto(Cardinality(S), g)
  BY <1>3, <1>4
<1> DEFINE k == [s \in SUBSET S |-> g[s]]
<1>6. \A s \in SUBSET S : k[s] = SumStep(f, k, s)
  <2> SUFFICES ASSUME NEW s \in SUBSET S
               PROVE  k[s] = SumStep(f, k, s)
    OBVIOUS
  <2>1. k[s] = SumStep(f, g, s)
    BY <1>1, <1>5
  <2>2. SumStep(f, g, s) = SumStep(f, k, s)
    BY <1>1 DEF SumStep
  <2> QED
    BY <2>1, <2>2
<1>7. k = [s \in SUBSET S |-> SumStep(f, k, s)]
  <2> DEFINE m == [s \in SUBSET S |-> SumStep(f, k, s)]
  <2>1. DOMAIN k = SUBSET S /\ DOMAIN m = SUBSET S
    OBVIOUS
  <2>2. \A s \in SUBSET S : k[s] = m[s]
    BY <1>6
  <2>3. k = [s \in SUBSET S |-> k[s]] /\ m = [s \in SUBSET S |-> m[s]]
    OBVIOUS
  <2> HIDE DEF k, m
  <2>4. k = m
    BY <2>2, <2>3
  <2> QED
    BY <2>4 DEF m
<1> QED
  BY <1>7 DEF IsSum

\* They agree on what they have in common.
LEMMA SumsAgree ==
  ASSUME NEW f, NEW S, IsFiniteSet(S), NEW T \in SUBSET S,
         NEW g, IsSum(f, S, g), NEW h, IsSum(f, T, h)
  PROVE  h[T] = g[T]
<1> DEFINE Bad == {s \in SUBSET T : h[s] # g[s]}
<1>1. \A s \in SUBSET T : h[s] = SumStep(f, h, s) /\ g[s] = SumStep(f, g, s)
  BY DEF IsSum
<1>2. ASSUME Bad # {} PROVE FALSE
  <2>1. PICK s \in Bad : \A u \in Bad : u \subseteq s => u = s
    <3>1. Bad \subseteq SUBSET S /\ Bad # {}
      BY <1>2
    <3> HIDE DEF Bad
    <3> QED
      BY <3>1, SmallestSet
  <2>2. CASE s = {}
    BY <1>1, <2>1, <2>2 DEF SumStep
  <2>3. CASE s # {}
    <3>1. /\ s \ {First(s)} \in SUBSET T
          /\ s \ {First(s)} # s
      BY <2>3, FirstIsElement
    <3>2. h[s \ {First(s)}] = g[s \ {First(s)}]
      BY <2>1, <3>1
    <3> QED
      BY <1>1, <2>1, <2>3, <3>2 DEF SumStep
  <2> QED
    BY <2>2, <2>3
<1> QED
  BY <1>2

LEMMA SumFirst ==
  ASSUME NEW f, NEW S, IsFiniteSet(S), S # {}
  PROVE  SumFunctionOnSet(f, S) = f[First(S)] + SumFunctionOnSet(f, S \ {First(S)})
<1> DEFINE T == S \ {First(S)}
           g == CHOOSE k : IsSum(f, S, k)
           h == CHOOSE k : IsSum(f, T, k)
<1>1. T \in SUBSET S /\ IsFiniteSet(T)
  BY FS_Subset
<1>2. IsSum(f, S, g) /\ IsSum(f, T, h)
  BY <1>1, SumExists
<1>3. SumFunctionOnSet(f, S) = g[S] /\ SumFunctionOnSet(f, T) = h[T]
  BY SumUnfolds
<1> HIDE DEF g, h
<1>4. h[T] = g[T]
  BY <1>1, <1>2, SumsAgree
<1>5. g[S] = f[First(S)] + g[T]
  BY <1>2 DEF IsSum, SumStep
<1> QED
  BY <1>3, <1>4, <1>5

LEMMA SumEmpty == ASSUME NEW f PROVE SumFunctionOnSet(f, {}) = 0
<1>1. PICK g : IsSum(f, {}, g)
  BY SumExists, FS_EmptySet
<1>2. IsSum(f, {}, CHOOSE k : IsSum(f, {}, k))
  BY <1>1
<1> DEFINE h == CHOOSE k : IsSum(f, {}, k)
<1>3. h[{}] = 0
  <2>1. IsSum(f, {}, h)
    BY <1>2
  <2> HIDE DEF h
  <2> QED
    BY <2>1 DEF IsSum, SumStep
<1> QED
  BY <1>3, SumUnfolds

\* A sum of natural numbers is one.
LEMMA SumNat ==
  ASSUME NEW f, NEW S, IsFiniteSet(S), \A x \in S : f[x] \in Nat
  PROVE  SumFunctionOnSet(f, S) \in Nat
<1> DEFINE Bad == {T \in SUBSET S : SumFunctionOnSet(f, T) \notin Nat}
<1>1. ASSUME Bad # {} PROVE FALSE
  <2>1. PICK T \in Bad : \A U \in Bad : U \subseteq T => U = T
    <3>1. Bad \subseteq SUBSET S /\ Bad # {}
      BY <1>1
    <3> HIDE DEF Bad
    <3> QED
      BY <3>1, SmallestSet
  <2>2. T # {}
    <3>1. SumFunctionOnSet(f, T) \notin Nat
      BY <2>1
    <3> QED
      BY <3>1, SumEmpty
  <2>3. First(T) \in T /\ T \in SUBSET S
    BY <2>1, <2>2, FirstIsElement
  <2>4. SumFunctionOnSet(f, T \ {First(T)}) \in Nat
    BY <2>1, <2>3
  <2>5. SumFunctionOnSet(f, T) = f[First(T)] + SumFunctionOnSet(f, T \ {First(T)})
    BY <2>2, <2>3, FS_Subset, SumFirst
  <2>6. f[First(T)] \in Nat
    BY <2>3
  <2>7. SumFunctionOnSet(f, T) \in Nat
    BY <2>4, <2>5, <2>6
  <2> QED
    BY <2>1, <2>7
<1> QED
  BY <1>1

\* Any element may be taken out first.
LEMMA SumRemove ==
  ASSUME NEW f, NEW S, IsFiniteSet(S), \A x \in S : f[x] \in Nat, NEW x \in S
  PROVE  SumFunctionOnSet(f, S) = f[x] + SumFunctionOnSet(f, S \ {x})
<1> DEFINE Sum(T) == SumFunctionOnSet(f, T)
           Bad == {T \in SUBSET S : \E y \in T : Sum(T) # f[y] + Sum(T \ {y})}
<1>0. \A T \in SUBSET S :
        /\ IsFiniteSet(T) /\ Sum(T) \in Nat
        /\ T # {} => /\ First(T) \in T
                     /\ Sum(T) = f[First(T)] + Sum(T \ {First(T)})
  <2> SUFFICES ASSUME NEW T \in SUBSET S
               PROVE  /\ IsFiniteSet(T) /\ Sum(T) \in Nat
                      /\ T # {} => /\ First(T) \in T
                                   /\ Sum(T) = f[First(T)] + Sum(T \ {First(T)})
    OBVIOUS
  <2>1. IsFiniteSet(T)
    BY FS_Subset
  <2>2. \A y \in T : f[y] \in Nat
    OBVIOUS
  <2>3. Sum(T) \in Nat
    BY <2>1, <2>2, SumNat
  <2>4. T # {} => /\ First(T) \in T
                  /\ Sum(T) = f[First(T)] + Sum(T \ {First(T)})
    BY <2>1, FirstIsElement, SumFirst
  <2> QED
    BY <2>1, <2>3, <2>4
<1> HIDE DEF Sum
<1>1. ASSUME Bad # {} PROVE FALSE
  <2>1. PICK T \in Bad : \A U \in Bad : U \subseteq T => U = T
    <3>1. Bad \subseteq SUBSET S /\ Bad # {}
      BY <1>1
    <3> HIDE DEF Bad
    <3> QED
      BY <3>1, SmallestSet
  <2>2. PICK y \in T : Sum(T) # f[y] + Sum(T \ {y})
    BY <2>1
  <2> DEFINE c == First(T)
  <2>3. T \in SUBSET S /\ c \in T /\ Sum(T) = f[c] + Sum(T \ {c})
    BY <1>0, <2>1, <2>2
  <2> HIDE DEF c
  <2>4. CASE y = c
    BY <2>2, <2>3, <2>4
  <2>5. CASE y # c
    <3>1. T \ {c} \in SUBSET S /\ y \in T \ {c} /\ T \ {c} # T
      BY <2>2, <2>3, <2>5
    <3>2. T \ {y} \in SUBSET S /\ c \in T \ {y} /\ T \ {y} # T
      BY <2>2, <2>3, <2>5
    <3>3. Sum(T \ {c}) = f[y] + Sum((T \ {c}) \ {y})
      <4>1. T \ {c} \notin Bad
        BY <2>1, <3>1
      <4> QED
        BY <3>1, <4>1
    <3>4. Sum(T \ {y}) = f[c] + Sum((T \ {y}) \ {c})
      <4>1. T \ {y} \notin Bad
        BY <2>1, <3>2
      <4> QED
        BY <3>2, <4>1
    <3>5. (T \ {y}) \ {c} = (T \ {c}) \ {y}
      OBVIOUS
    <3>6. /\ f[y] \in Nat /\ f[c] \in Nat
          /\ Sum((T \ {c}) \ {y}) \in Nat
      BY <1>0, <2>2, <2>3
    <3>7. Sum((T \ {y}) \ {c}) = Sum((T \ {c}) \ {y})
      BY <3>5
    <3>8. Sum(T) = f[y] + Sum(T \ {y})
      <4> DEFINE r == Sum((T \ {c}) \ {y})
      <4>1. /\ Sum(T) = f[c] + (f[y] + r) /\ Sum(T \ {y}) = f[c] + r
            /\ r \in Nat
        BY <2>3, <3>3, <3>4, <3>6, <3>7
      <4> HIDE DEF r
      <4> QED
        BY ONLY <4>1, <3>6
    <3> QED
      BY <2>2, <3>8
  <2> QED
    BY <2>4, <2>5
<1>2. S \notin Bad
  BY <1>1
<1> QED
  BY <1>2 DEF Sum

\* A sum falls apart into the sums of two parts.
LEMMA SumSplit ==
  ASSUME NEW f, NEW S, IsFiniteSet(S), \A x \in S : f[x] \in Nat, NEW T \in SUBSET S
  PROVE  SumFunctionOnSet(f, S) = SumFunctionOnSet(f, T) + SumFunctionOnSet(f, S \ T)
<1> DEFINE Sum(U) == SumFunctionOnSet(f, U)
           Bad == {U \in SUBSET T : Sum(U \union (S \ T)) # Sum(U) + Sum(S \ T)}
<1>0. \A U \in SUBSET S :
        /\ Sum(U) \in Nat
        /\ \A x \in U : f[x] \in Nat /\ Sum(U) = f[x] + Sum(U \ {x})
  <2> SUFFICES ASSUME NEW U \in SUBSET S
               PROVE  /\ Sum(U) \in Nat
                      /\ \A x \in U : f[x] \in Nat /\ Sum(U) = f[x] + Sum(U \ {x})
    OBVIOUS
  <2>1. IsFiniteSet(U) /\ \A x \in U : f[x] \in Nat
    BY FS_Subset
  <2> QED
    BY <2>1, SumNat, SumRemove
<1>00. Sum({}) = 0
  BY SumEmpty
<1> HIDE DEF Sum
<1>1. ASSUME Bad # {} PROVE FALSE
  <2>1. PICK U \in Bad : \A V \in Bad : V \subseteq U => V = U
    <3>1. Bad \subseteq SUBSET T /\ Bad # {} /\ IsFiniteSet(T)
      BY <1>1, FS_Subset
    <3> HIDE DEF Bad
    <3> QED
      BY <3>1, SmallestSet
  <2>2. CASE U = {}
    <3>1. U \union (S \ T) = S \ T /\ Sum(S \ T) \in Nat
      BY <1>0, <2>2
    <3> QED
      BY <1>00, <2>1, <2>2, <3>1
  <2>3. CASE U # {}
    <3>1. PICK x \in U : TRUE
      BY <2>3
    <3>2. /\ U \ {x} \in SUBSET T /\ U \ {x} # U
          /\ (U \union (S \ T)) \ {x} = (U \ {x}) \union (S \ T)
          /\ x \in U \union (S \ T) /\ U \union (S \ T) \in SUBSET S
          /\ U \in SUBSET S /\ U \ {x} \in SUBSET S /\ S \ T \in SUBSET S
      BY <2>1, <3>1
    <3>3. Sum((U \ {x}) \union (S \ T)) = Sum(U \ {x}) + Sum(S \ T)
      BY <2>1, <3>2
    <3>4. Sum(U \union (S \ T)) = f[x] + Sum((U \ {x}) \union (S \ T))
      BY <1>0, <3>2
    <3>5. Sum(U) = f[x] + Sum(U \ {x})
      BY <1>0, <3>1, <3>2
    <3>6. {f[x], Sum(U \ {x}), Sum(S \ T)} \subseteq Nat
      BY <1>0, <3>1, <3>2
    <3>7. Sum(U \union (S \ T)) = Sum(U) + Sum(S \ T)
      BY ONLY <3>3, <3>4, <3>5, <3>6
    <3> QED
      BY <2>1, <3>7
  <2> QED
    BY <2>2, <2>3
<1>2. T \notin Bad /\ T \union (S \ T) = S
  BY <1>1
<1> QED
  BY <1>2 DEF Sum

\* Nor is a part more than the whole; with positive numbers only the whole is as much.
LEMMA SumMonotone ==
  ASSUME NEW f, NEW S, IsFiniteSet(S), \A x \in S : f[x] \in Nat, NEW T \in SUBSET S
  PROVE  /\ SumFunctionOnSet(f, T) \in Nat
         /\ SumFunctionOnSet(f, T) <= SumFunctionOnSet(f, S)
<1>1. /\ IsFiniteSet(T) /\ \A x \in T : f[x] \in Nat
      /\ IsFiniteSet(S \ T) /\ \A x \in S \ T : f[x] \in Nat
  BY FS_Subset
<1>2. SumFunctionOnSet(f, T) \in Nat /\ SumFunctionOnSet(f, S \ T) \in Nat
  BY <1>1, SumNat
<1> QED
  BY <1>2, SumSplit

LEMMA SumPositive ==
  ASSUME NEW f, NEW S, IsFiniteSet(S), \A x \in S : f[x] \in Nat \ {0}, S # {}
  PROVE  SumFunctionOnSet(f, S) \in Nat /\ SumFunctionOnSet(f, S) > 0
<1>1. PICK x \in S : TRUE
  OBVIOUS
<1>2. \A y \in S : f[y] \in Nat
  OBVIOUS
<1>3. IsFiniteSet(S \ {x})
  BY FS_RemoveElement
<1>4. SumFunctionOnSet(f, S \ {x}) \in Nat
  BY <1>2, <1>3, SumNat
<1>5. SumFunctionOnSet(f, S) = f[x] + SumFunctionOnSet(f, S \ {x})
  BY <1>1, <1>2, SumRemove
<1>6. f[x] \in Nat /\ f[x] > 0
  BY <1>1
<1> QED
  BY <1>4, <1>5, <1>6

LEMMA SumWhole ==
  ASSUME NEW f, NEW S, IsFiniteSet(S), \A x \in S : f[x] \in Nat \ {0},
         NEW T \in SUBSET S, SumFunctionOnSet(f, T) = SumFunctionOnSet(f, S)
  PROVE  T = S
<1> SUFFICES ASSUME S \ T # {}
             PROVE  FALSE
  OBVIOUS
<1>1. /\ IsFiniteSet(T) /\ IsFiniteSet(S \ T)
      /\ \A x \in S : f[x] \in Nat
  BY FS_Subset
<1>2. SumFunctionOnSet(f, S \ T) \in Nat /\ SumFunctionOnSet(f, S \ T) > 0
  BY <1>1, SumPositive
<1>3. SumFunctionOnSet(f, T) \in Nat
  BY <1>1, SumNat
<1>4. SumFunctionOnSet(f, S) = SumFunctionOnSet(f, T) + SumFunctionOnSet(f, S \ T)
  BY <1>1, SumSplit
<1> QED
  BY <1>2, <1>3, <1>4

=============================================================================
