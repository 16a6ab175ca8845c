-------------------------- MODULE CollectionProofs --------------------------
(***************************************************************************)
(* Sums over finite sets and selections from sequences, for any set, any   *)
(* function and any sequence.  Both need induction; it is done here with   *)
(* sets of counterexamples: inclusion is well-founded on finite sets, so   *)
(* that a non-empty set of finite sets has a smallest member, and what is  *)
(* wrong nowhere below is wrong nowhere.                                   *)
(***************************************************************************)
EXTENDS Selections, Functions, FiniteSetTheorems, SequenceTheorems,
        WellFoundedInduction, TLAPS

\* A non-empty set of natural numbers has a least one.
LEMMA LeastNatural ==
    ASSUME NEW T \in SUBSET Nat, T # {}
    PROVE  \E n \in T : \A m \in T : n <= m
<1> DEFINE F == { 0..n : n \in T }
<1>1. F \subseteq FiniteSubsetsOf(Nat)
  <2> SUFFICES ASSUME NEW n \in T PROVE 0..n \in FiniteSubsetsOf(Nat)
    OBVIOUS
  <2>1. IsFiniteSet(0..n)
    BY FS_Interval
  <2> QED BY <2>1 DEF FiniteSubsetsOf
<1>2. F # {}
  OBVIOUS
<1>3. IsWellFoundedOn(StrictSubsetOrdering(Nat), FiniteSubsetsOf(Nat))
  BY FS_StrictSubsetOrderingWellFounded
<1> HIDE DEF F
<1>4. PICK x \in F : \A y \in F : ~ (<<y, x>> \in StrictSubsetOrdering(Nat))
  BY <1>1, <1>2, <1>3, WFMin
<1>5. PICK n \in T : x = 0..n
  BY DEF F
<1>6. ASSUME NEW m \in T, m < n
      PROVE  FALSE
  <2>1. 0..m \in F
    BY DEF F
  <2>2. 0..m \subseteq 0..n /\ 0..m # 0..n
    BY <1>6
  <2>3. <<0..m, 0..n>> \in StrictSubsetOrdering(Nat)
    BY <2>2 DEF StrictSubsetOrdering
  <2> QED BY <1>4, <1>5, <2>1, <2>3
<1> QED BY <1>6

\* A non-empty set of subsets of a finite set has a smallest one.
LEMMA SmallestSubset ==
    ASSUME NEW S, IsFiniteSet(S), NEW B \in SUBSET (SUBSET S), B # {}
    PROVE  \E s \in B : \A t \in SUBSET s : t # s => t \notin B
<1>1. IsWellFoundedOn(StrictSubsetOrdering(S), FiniteSubsetsOf(S))
  BY FS_StrictSubsetOrderingWellFounded
<1>2. B \subseteq FiniteSubsetsOf(S)
  BY FS_FiniteSubsetsOfFinite
<1>3. PICK s \in B : \A t \in B : ~ (<<t, s>> \in StrictSubsetOrdering(S))
  BY <1>1, <1>2, WFMin
<1>4. ASSUME NEW t \in SUBSET s, t # s, t \in B
      PROVE  FALSE
  <2>1. <<t, s>> \in StrictSubsetOrdering(S)
    BY <1>4 DEF StrictSubsetOrdering
  <2> QED BY <1>3, <1>4, <2>1
<1> QED BY <1>4

-----------------------------------------------------------------------------
\* The function by which SumFunctionOnSet computes.
SumStep(f, g, s) ==
    IF s = {} THEN 0
    ELSE f[CHOOSE x \in s : TRUE] + g[s \ {CHOOSE x \in s : TRUE}]

\* That function for every part of S.
IsPartialSum(f, S, g) == g = [s \in SUBSET S |-> SumStep(f, g, s)]

\* There is such a function, found set by set in the order of their size.
LEMMA PartialSumExists ==
    ASSUME NEW S, IsFiniteSet(S), NEW f
    PROVE  \E g : IsPartialSum(f, S, g)
<1> DEFINE Good(n) == \E g : \A s \in SUBSET S : Cardinality(s) <= n => g[s] = SumStep(f, g, s)
           Bad == { n \in Nat : ~ Good(n) }
<1>1. \A s \in SUBSET S : IsFiniteSet(s) /\ Cardinality(s) \in Nat
  BY FS_Subset, FS_CardinalityType
<1>2. Good(0)
  <2> DEFINE g == [s \in SUBSET S |-> 0]
  <2>1. ASSUME NEW s \in SUBSET S, Cardinality(s) <= 0
        PROVE  g[s] = SumStep(f, g, s)
    <3>1. s = {}
      BY <1>1, <2>1, FS_EmptySet
    <3> QED BY <3>1 DEF SumStep
  <2> QED BY <2>1
<1>3. ASSUME NEW n \in Nat, Good(n)
      PROVE  Good(n + 1)
  <2>1. PICK g : \A s \in SUBSET S : Cardinality(s) <= n => g[s] = SumStep(f, g, s)
    BY <1>3
  <2> DEFINE h == [s \in SUBSET S |-> IF Cardinality(s) <= n THEN g[s] ELSE SumStep(f, g, s)]
  <2>2. ASSUME NEW s \in SUBSET S, s # {}
        PROVE  /\ s \ {CHOOSE x \in s : TRUE} \in SUBSET S
               /\ Cardinality(s \ {CHOOSE x \in s : TRUE}) = Cardinality(s) - 1
    BY <1>1, <2>2, FS_RemoveElement
  <2>3. ASSUME NEW s \in SUBSET S, Cardinality(s) <= n + 1
        PROVE  h[s] = SumStep(f, h, s)
    <3>1. h[s] = SumStep(f, g, s)
      BY <2>1
    <3>2. CASE s = {}
      BY <3>1, <3>2 DEF SumStep
    <3>3. CASE s # {}
      <4> DEFINE t == s \ {CHOOSE x \in s : TRUE}
      <4>1. t \in SUBSET S /\ Cardinality(t) <= n
        BY <1>1, <2>2, <2>3, <3>3
      <4>2. h[t] = g[t]
        BY <4>1
      <4> QED BY <3>1, <3>3, <4>2 DEF SumStep
    <3> QED BY <3>2, <3>3
  <2> HIDE DEF h
  <2> QED BY <2>3
<1>4. Bad = {}
  <2> SUFFICES ASSUME Bad # {} PROVE FALSE
    OBVIOUS
  <2> HIDE DEF Good
  <2>1. PICK n \in Bad : \A m \in Bad : n <= m
    BY LeastNatural
  <2>2. n # 0
    BY <1>2
  <2>3. n - 1 \in Nat /\ n - 1 \notin Bad
    BY <2>1, <2>2
  <2>4. Good(n - 1) => Good((n - 1) + 1)
    BY <1>3, <2>3
  <2> QED BY <2>1, <2>3, <2>4
<1>5. PICK g : \A s \in SUBSET S : Cardinality(s) <= Cardinality(S) => g[s] = SumStep(f, g, s)
  <2>1. Cardinality(S) \in Nat
    BY FS_CardinalityType
  <2> QED BY <1>4, <2>1
<1> DEFINE h == [s \in SUBSET S |-> g[s]]
<1>6. \A s \in SUBSET S : h[s] = SumStep(f, g, s)
  BY <1>5, FS_Subset
<1>7. \A s \in SUBSET S : SumStep(f, g, s) = SumStep(f, h, s)
  BY DEF SumStep
<1>8. IsPartialSum(f, S, h)
  BY <1>6, <1>7 DEF IsPartialSum
<1> QED BY <1>8

\* Whatever set it was started from, the function gives a set one value.
LEMMA PartialSumUnique ==
    ASSUME NEW S, IsFiniteSet(S), NEW T \in SUBSET S, NEW f, NEW g, NEW h,
           IsPartialSum(f, S, g), IsPartialSum(f, T, h)
    PROVE  g[T] = h[T]
<1> DEFINE Bad == { n \in Nat : \E s \in SUBSET T : Cardinality(s) = n /\ g[s] # h[s] }
<1>1. \A s \in SUBSET S : IsFiniteSet(s) /\ Cardinality(s) \in Nat
  BY FS_Subset, FS_CardinalityType
<1>2. Bad = {}
  <2> SUFFICES ASSUME Bad # {} PROVE FALSE
    OBVIOUS
  <2>1. PICK n \in Bad : \A m \in Bad : n <= m
    BY LeastNatural
  <2>2. PICK s \in SUBSET T : Cardinality(s) = n /\ g[s] # h[s]
    BY <2>1
  <2> DEFINE t == s \ {CHOOSE x \in s : TRUE}
  <2>3. g[s] = SumStep(f, g, s) /\ h[s] = SumStep(f, h, s)
    BY DEF IsPartialSum
  <2>4. s # {}
    BY <2>2, <2>3 DEF SumStep
  <2>5. t \in SUBSET T /\ Cardinality(t) = n - 1 /\ n - 1 \in Nat
    <3>1. Cardinality(t) = Cardinality(s) - 1
      BY <1>1, <2>4, FS_RemoveElement
    <3>2. t \in SUBSET S
      OBVIOUS
    <3> QED BY <1>1, <2>2, <3>1, <3>2
  <2>6. n - 1 \notin Bad
    BY <2>1, <2>5
  <2>7. g[t] = h[t]
    BY <2>5, <2>6
  <2> QED BY <2>2, <2>3, <2>4, <2>7 DEF SumStep
<1> QED BY <1>1, <1>2

\* SumFunctionOnSet is the value of such a function.
LEMMA SumIsPartialSum ==
    ASSUME NEW S, IsFiniteSet(S), NEW f
    PROVE  \E g : IsPartialSum(f, S, g) /\ SumFunctionOnSet(f, S) = g[S]
<1> DEFINE g == CHOOSE h : IsPartialSum(f, S, h)
<1>1. IsPartialSum(f, S, g)
  BY PartialSumExists
<1>2. SumFunctionOnSet(f, S) = g[S]
  BY DEF SumFunctionOnSet, FoldFunctionOnSet, MapThenFoldSet, IsPartialSum, SumStep
<1> QED BY <1>1, <1>2

\* The empty sum, and a sum by the element that is taken first.
LEMMA SumOfNothing ==
    ASSUME NEW f
    PROVE  SumFunctionOnSet(f, {}) = 0
<1>1. IsFiniteSet({})
  BY FS_EmptySet
<1>2. PICK g : IsPartialSum(f, {}, g) /\ SumFunctionOnSet(f, {}) = g[{}]
  BY <1>1, SumIsPartialSum
<1> QED BY <1>2 DEF IsPartialSum, SumStep

\* A sum is one of its values and the rest: the value the function chooses.
LEMMA SumOfChosen ==
    ASSUME NEW S, IsFiniteSet(S), S # {}, NEW f
    PROVE  LET x == CHOOSE y \in S : TRUE
           IN  SumFunctionOnSet(f, S) = f[x] + SumFunctionOnSet(f, S \ {x})
<1> DEFINE x == CHOOSE y \in S : TRUE
           T == S \ {x}
<1>1. PICK g : IsPartialSum(f, S, g) /\ SumFunctionOnSet(f, S) = g[S]
  BY SumIsPartialSum
<1>2. IsFiniteSet(T)
  BY FS_Subset
<1>3. PICK h : IsPartialSum(f, T, h) /\ SumFunctionOnSet(f, T) = h[T]
  BY <1>2, SumIsPartialSum
<1>4. g[T] = h[T]
  BY <1>1, <1>3, PartialSumUnique
<1>5. g[S] = f[x] + g[T]
  BY <1>1 DEF IsPartialSum, SumStep
<1> QED BY <1>1, <1>3, <1>4, <1>5

\* A sum of integers is an integer.
LEMMA SumIsInt ==
    ASSUME NEW S, IsFiniteSet(S), NEW f, \A x \in S : f[x] \in Int
    PROVE  SumFunctionOnSet(f, S) \in Int
<1> DEFINE B == { s \in SUBSET S : SumFunctionOnSet(f, s) \notin Int }
<1>1. B = {}
  <2> SUFFICES ASSUME B # {} PROVE FALSE
    OBVIOUS
  <2>1. PICK s \in B : \A t \in SUBSET s : t # s => t \notin B
    <3>1. B \in SUBSET (SUBSET S)
      OBVIOUS
    <3> HIDE DEF B
    <3> QED BY <3>1, SmallestSubset
  <2> DEFINE x == CHOOSE y \in s : TRUE
  <2>2. s # {}
    BY SumOfNothing
  <2>3. s \ {x} \in SUBSET s /\ s \ {x} # s /\ x \in S
    BY <2>2
  <2>4. SumFunctionOnSet(f, s \ {x}) \in Int
    BY <2>1, <2>3
  <2>5. SumFunctionOnSet(f, s) = f[x] + SumFunctionOnSet(f, s \ {x})
    BY <2>2, FS_Subset, SumOfChosen
  <2> QED BY <2>3, <2>4, <2>5
<1> QED BY <1>1

\* The order in which the elements are taken does not matter.
LEMMA SumRemoves ==
    ASSUME NEW S, IsFiniteSet(S), NEW f, \A x \in S : f[x] \in Int, NEW a \in S
    PROVE  SumFunctionOnSet(f, S) = f[a] + SumFunctionOnSet(f, S \ {a})
<1> DEFINE Adds(s, b) == SumFunctionOnSet(f, s) = f[b] + SumFunctionOnSet(f, s \ {b})
           B == { s \in SUBSET S : \E b \in s : ~ Adds(s, b) }
<1>1. \A s \in SUBSET S : IsFiniteSet(s) /\ SumFunctionOnSet(f, s) \in Int
  BY FS_Subset, SumIsInt
<1>2. B = {}
  <2> SUFFICES ASSUME B # {} PROVE FALSE
    OBVIOUS
  <2>1. PICK s \in B : \A t \in SUBSET s : t # s => t \notin B
    <3>1. B \in SUBSET (SUBSET S)
      OBVIOUS
    <3> HIDE DEF B
    <3> QED BY <3>1, SmallestSubset
  <2>2. PICK b \in s : ~ Adds(s, b)
    OBVIOUS
  <2> DEFINE x == CHOOSE y \in s : TRUE
  <2>3. x \in s /\ Adds(s, x)
    BY <1>1, <2>2, SumOfChosen
  <2>4. x # b
    BY <2>2, <2>3
  <2>5. Adds(s \ {x}, b)
    BY <2>1, <2>3, <2>4
  <2>6. Adds(s \ {b}, x)
    BY <2>1, <2>2, <2>3, <2>4
  <2>7. (s \ {x}) \ {b} = (s \ {b}) \ {x}
    OBVIOUS
  <2>8. f[x] \in Int /\ f[b] \in Int /\ SumFunctionOnSet(f, (s \ {b}) \ {x}) \in Int
    BY <1>1, <2>2, <2>3
  <2> DEFINE rest == SumFunctionOnSet(f, (s \ {b}) \ {x})
  <2>9. /\ SumFunctionOnSet(f, s) = f[x] + (f[b] + rest)
        /\ f[b] + SumFunctionOnSet(f, s \ {b}) = f[b] + (f[x] + rest)
    BY <2>3, <2>5, <2>6, <2>7, Zenon
  <2> HIDE DEF rest
  <2>10. f[x] + (f[b] + rest) = f[b] + (f[x] + rest)
    BY <2>8 DEF rest
  <2> QED BY <2>2, <2>9, <2>10, Zenon
<1>3. S \notin B
  BY <1>2
<1> QED BY <1>3

\* One element more adds its value.
LEMMA SumAdds ==
    ASSUME NEW S, IsFiniteSet(S), NEW a, a \notin S, NEW f, f[a] \in Int,
           \A x \in S : f[x] \in Int
    PROVE  SumFunctionOnSet(f, S \cup {a}) = SumFunctionOnSet(f, S) + f[a]
<1>1. IsFiniteSet(S \cup {a}) /\ (S \cup {a}) \ {a} = S
  BY FS_AddElement
<1>2. SumFunctionOnSet(f, S) \in Int
  BY SumIsInt
<1> QED BY <1>1, <1>2, SumRemoves

\* A sum depends on the values it adds up alone.
LEMMA SumSame ==
    ASSUME NEW S, IsFiniteSet(S), NEW f, NEW g, \A x \in S : f[x] = g[x]
    PROVE  SumFunctionOnSet(f, S) = SumFunctionOnSet(g, S)
<1> DEFINE B == { s \in SUBSET S : SumFunctionOnSet(f, s) # SumFunctionOnSet(g, s) }
<1>1. B = {}
  <2> SUFFICES ASSUME B # {} PROVE FALSE
    OBVIOUS
  <2>1. PICK s \in B : \A t \in SUBSET s : t # s => t \notin B
    <3>1. B \in SUBSET (SUBSET S)
      OBVIOUS
    <3> HIDE DEF B
    <3> QED BY <3>1, SmallestSubset
  <2> DEFINE x == CHOOSE y \in s : TRUE
  <2>2. s # {} /\ IsFiniteSet(s)
    BY FS_Subset, SumOfNothing
  <2>3. /\ SumFunctionOnSet(f, s) = f[x] + SumFunctionOnSet(f, s \ {x})
        /\ SumFunctionOnSet(g, s) = g[x] + SumFunctionOnSet(g, s \ {x})
    BY <2>2, SumOfChosen
  <2>4. x \in s /\ s \ {x} \notin B
    BY <2>1, <2>2
  <2> QED BY <2>3, <2>4
<1> QED BY <1>1

\* A sum of larger values is larger.
LEMMA SumIsMonotone ==
    ASSUME NEW S, IsFiniteSet(S), NEW f, NEW g,
           \A x \in S : f[x] \in Int /\ g[x] \in Int /\ f[x] <= g[x]
    PROVE  SumFunctionOnSet(f, S) <= SumFunctionOnSet(g, S)
<1> DEFINE B == { s \in SUBSET S : ~ (SumFunctionOnSet(f, s) <= SumFunctionOnSet(g, s)) }
<1>1. \A s \in SUBSET S : /\ IsFiniteSet(s) /\ SumFunctionOnSet(f, s) \in Int
                          /\ SumFunctionOnSet(g, s) \in Int
  BY FS_Subset, SumIsInt
<1>2. B = {}
  <2> SUFFICES ASSUME B # {} PROVE FALSE
    OBVIOUS
  <2>1. PICK s \in B : \A t \in SUBSET s : t # s => t \notin B
    <3>1. B \in SUBSET (SUBSET S)
      OBVIOUS
    <3> HIDE DEF B
    <3> QED BY <3>1, SmallestSubset
  <2> DEFINE x == CHOOSE y \in s : TRUE
  <2>2. s # {}
    BY SumOfNothing
  <2>3. /\ SumFunctionOnSet(f, s) = f[x] + SumFunctionOnSet(f, s \ {x})
        /\ SumFunctionOnSet(g, s) = g[x] + SumFunctionOnSet(g, s \ {x})
    BY <1>1, <2>2, SumOfChosen
  <2>4. x \in s /\ s \ {x} \notin B /\ s \ {x} \in SUBSET S
    BY <2>1, <2>2
  <2> QED BY <1>1, <2>3, <2>4
<1> QED BY <1>2

\* Two sums over the same indices can be added term by term.
LEMMA SumOfSums ==
    ASSUME NEW S, IsFiniteSet(S), NEW f, NEW g, NEW h,
           \A x \in S : f[x] \in Int /\ g[x] \in Int /\ h[x] = f[x] + g[x]
    PROVE  SumFunctionOnSet(h, S) = SumFunctionOnSet(f, S) + SumFunctionOnSet(g, S)
<1> DEFINE B == { s \in SUBSET S :
                    SumFunctionOnSet(h, s) # SumFunctionOnSet(f, s) + SumFunctionOnSet(g, s) }
<1>1. \A s \in SUBSET S : /\ IsFiniteSet(s) /\ SumFunctionOnSet(f, s) \in Int
                          /\ SumFunctionOnSet(g, s) \in Int
  BY FS_Subset, SumIsInt
<1>2. B = {}
  <2> SUFFICES ASSUME B # {} PROVE FALSE
    OBVIOUS
  <2>1. PICK s \in B : \A t \in SUBSET s : t # s => t \notin B
    <3>1. B \in SUBSET (SUBSET S)
      OBVIOUS
    <3> HIDE DEF B
    <3> QED BY <3>1, SmallestSubset
  <2> DEFINE x == CHOOSE y \in s : TRUE
             first == SumFunctionOnSet(f, s \ {x})
             second == SumFunctionOnSet(g, s \ {x})
  <2>2. s # {}
    <3>1. 0 + 0 = 0
      OBVIOUS
    <3> QED BY <3>1, SumOfNothing
  <2>3. /\ SumFunctionOnSet(f, s) = f[x] + first
        /\ SumFunctionOnSet(g, s) = g[x] + second
        /\ SumFunctionOnSet(h, s) = h[x] + SumFunctionOnSet(h, s \ {x})
    BY <1>1, <2>2, SumOfChosen
  <2>4. x \in s /\ s \ {x} \notin B /\ s \ {x} \in SUBSET S
    BY <2>1, <2>2
  <2>5. SumFunctionOnSet(h, s \ {x}) = first + second /\ h[x] = f[x] + g[x]
    BY <2>4
  <2>6. first \in Int /\ second \in Int /\ f[x] \in Int /\ g[x] \in Int
    BY <1>1, <2>4
  <2>7. (f[x] + g[x]) + (first + second) = (f[x] + first) + (g[x] + second)
    BY <2>6
  <2> QED BY <2>3, <2>5, <2>7
<1> QED BY <1>2

\* A common factor can be taken out of a sum.
LEMMA SumOfScaled ==
    ASSUME NEW S, IsFiniteSet(S), NEW f, NEW c \in Int, \A x \in S : f[x] \in Int
    PROVE  SumFunctionOnSet([x \in S |-> c * f[x]], S) = c * SumFunctionOnSet(f, S)
<1> DEFINE g == [x \in S |-> c * f[x]]
           B == { s \in SUBSET S : SumFunctionOnSet(g, s) # c * SumFunctionOnSet(f, s) }
<1>1. \A s \in SUBSET S : IsFiniteSet(s) /\ SumFunctionOnSet(f, s) \in Int
  BY FS_Subset, SumIsInt
<1>2. B = {}
  <2> SUFFICES ASSUME B # {} PROVE FALSE
    OBVIOUS
  <2>1. PICK s \in B : \A t \in SUBSET s : t # s => t \notin B
    <3>1. B \in SUBSET (SUBSET S)
      OBVIOUS
    <3> HIDE DEF B
    <3> QED BY <3>1, SmallestSubset
  <2> DEFINE x == CHOOSE y \in s : TRUE
             rest == SumFunctionOnSet(f, s \ {x})
  <2>2. s # {}
    <3>1. c * 0 = 0
      OBVIOUS
    <3> QED BY <3>1, SumOfNothing
  <2>3. /\ SumFunctionOnSet(f, s) = f[x] + rest
        /\ SumFunctionOnSet(g, s) = g[x] + SumFunctionOnSet(g, s \ {x})
    BY <1>1, <2>2, SumOfChosen
  <2>4. x \in s /\ s \ {x} \notin B /\ s \ {x} \in SUBSET S
    BY <2>1, <2>2
  <2>5. SumFunctionOnSet(g, s \ {x}) = c * rest /\ g[x] = c * f[x]
    BY <2>4
  <2>6. rest \in Int /\ f[x] \in Int
    BY <1>1, <2>4
  <2>7. c * (f[x] + rest) = c * f[x] + c * rest
    BY <2>6
  <2> QED BY <2>3, <2>5, <2>7
<1> QED BY <1>2

-----------------------------------------------------------------------------
\* Ranks count from one, and a later position has a higher one.
LEMMA RankFacts ==
    ASSUME NEW S \in SUBSET Nat, IsFiniteSet(S), NEW i \in S
    PROVE  /\ Rank(S, i) \in 1..Cardinality(S)
           /\ \A j \in S : i < j => Rank(S, i) < Rank(S, j)
<1> DEFINE Below(k) == { m \in S : m <= k }
<1>1. \A k : IsFiniteSet(Below(k)) /\ Cardinality(Below(k)) \in Nat
              /\ Cardinality(Below(k)) <= Cardinality(S)
  BY FS_Subset, FS_CardinalityType
<1>2. Cardinality(S) \in Nat
  BY FS_CardinalityType
<1>3. Cardinality(Below(i)) # 0
  <2>1. i \in Below(i)
    OBVIOUS
  <2> QED BY <1>1, <2>1, FS_EmptySet
<1>4. ASSUME NEW j \in S, i < j
      PROVE  Cardinality(Below(i)) < Cardinality(Below(j))
  <2>1. Below(i) \in SUBSET Below(j) /\ j \in Below(j) /\ j \notin Below(i)
    <3>1. i \in Nat /\ j \in Nat /\ j <= j /\ ~ (j <= i)
      BY <1>4
    <3>2. ASSUME NEW m \in S, m <= i
          PROVE  m <= j
      <4>1. m \in Nat
        OBVIOUS
      <4> QED BY <1>4, <3>1, <3>2, <4>1
    <3> QED BY <3>1, <3>2
  <2>2. /\ Cardinality(Below(i)) <= Cardinality(Below(j))
        /\ Cardinality(Below(j)) = Cardinality(Below(i)) => Below(j) = Below(i)
    BY <1>1, <2>1, FS_Subset
  <2> QED BY <1>1, <2>1, <2>2
<1> QED BY <1>1, <1>2, <1>3, <1>4 DEF Rank

\* The least position has rank one.
LEMMA LeastHasRankOne ==
    ASSUME NEW S \in SUBSET Nat, IsFiniteSet(S), NEW i \in S, \A j \in S : i <= j
    PROVE  Rank(S, i) = 1
<1>1. { j \in S : j <= i } = {i}
  <2>1. ASSUME NEW j \in S, j <= i
        PROVE  j = i
    <3>1. j \in Nat /\ i \in Nat /\ i <= j
      OBVIOUS
    <3> QED BY <2>1, <3>1
  <2>2. i <= i
    OBVIOUS
  <2> QED BY <2>1, <2>2
<1> QED BY <1>1, FS_Singleton DEF Rank

\* Without its least element the ranks of a set go down by one.
LEMMA RankWithoutLeast ==
    ASSUME NEW S \in SUBSET Nat, IsFiniteSet(S), NEW i \in S, \A j \in S : i <= j,
           NEW j \in S \ {i}
    PROVE  Rank(S, j) = Rank(S \ {i}, j) + 1
<1> DEFINE Below == { m \in S : m <= j }
<1>1. IsFiniteSet(Below) /\ i \in Below /\ Cardinality(Below) \in Nat
  BY FS_Subset, FS_CardinalityType
<1>2. { m \in S \ {i} : m <= j } = Below \ {i}
  OBVIOUS
<1>3. Cardinality(Below \ {i}) = Cardinality(Below) - 1
  BY <1>1, FS_RemoveElement
<1> QED BY <1>1, <1>2, <1>3 DEF Rank

\* No rank is left out.
LEMMA KthExists ==
    ASSUME NEW S \in SUBSET Nat, IsFiniteSet(S)
    PROVE  \A k \in 1..Cardinality(S) : \E i \in S : Rank(S, i) = k
<1> DEFINE Full(s) == \A k \in 1..Cardinality(s) : \E i \in s : Rank(s, i) = k
           B == { s \in SUBSET S : ~ Full(s) }
<1>1. B = {}
  <2> SUFFICES ASSUME B # {} PROVE FALSE
    OBVIOUS
  <2>1. PICK s \in B : \A t \in SUBSET s : t # s => t \notin B
    <3>1. B \in SUBSET (SUBSET S)
      OBVIOUS
    <3> HIDE DEF B
    <3> QED BY <3>1, SmallestSubset
  <2>2. IsFiniteSet(s) /\ Cardinality(s) \in Nat
    BY FS_Subset, FS_CardinalityType
  <2>3. s # {}
    BY FS_EmptySet
  <2>4. s \in SUBSET Nat
    OBVIOUS
  <2>5. PICK i \in s : \A j \in s : i <= j
    BY <2>3, <2>4, LeastNatural
  <2>6. Full(s \ {i}) /\ Cardinality(s \ {i}) = Cardinality(s) - 1
    <3>1. s \ {i} \in SUBSET S /\ s \ {i} \in SUBSET s /\ s \ {i} # s
      OBVIOUS
    <3>2. s \ {i} \notin B
      BY <2>1, <3>1
    <3> HIDE DEF Full
    <3>3. Full(s \ {i})
      BY <3>1, <3>2
    <3>4. Cardinality(s \ {i}) = Cardinality(s) - 1
      BY <2>2, FS_RemoveElement
    <3> QED BY <3>3, <3>4
  <2>7. ASSUME NEW k \in 1..Cardinality(s)
        PROVE  \E j \in s : Rank(s, j) = k
    <3>1. CASE k = 1
      BY <2>2, <2>4, <2>5, <3>1, LeastHasRankOne
    <3>2. CASE k # 1
      <4>1. k - 1 \in 1..Cardinality(s \ {i})
        BY <2>2, <2>6, <3>2
      <4>2. PICK j \in s \ {i} : Rank(s \ {i}, j) = k - 1
        BY <2>6, <4>1
      <4>3. Rank(s, j) = (k - 1) + 1
        BY <2>2, <2>4, <2>5, <4>2, RankWithoutLeast
      <4> QED BY <4>3
    <3> QED BY <3>1, <3>2
  <2> QED BY <2>7
<1> QED BY <1>1

\* The k-th position is the one of rank k.
LEMMA KthFacts ==
    ASSUME NEW S \in SUBSET Nat, IsFiniteSet(S), NEW k \in 1..Cardinality(S)
    PROVE  /\ Kth(S, k) \in S
           /\ Rank(S, Kth(S, k)) = k
           /\ \A i \in S : Rank(S, i) = k => i = Kth(S, k)
<1>1. \E i \in S : Rank(S, i) = k
  BY KthExists
<1>2. Kth(S, k) \in S /\ Rank(S, Kth(S, k)) = k
  BY <1>1 DEF Kth
<1>3. ASSUME NEW i \in S, Rank(S, i) = k
      PROVE  i = Kth(S, k)
  <2>1. i \in Nat /\ Kth(S, k) \in Nat
    BY <1>2
  <2>2. i < Kth(S, k) => Rank(S, i) < Rank(S, Kth(S, k))
    BY <1>2, RankFacts
  <2>3. Kth(S, k) < i => Rank(S, Kth(S, k)) < Rank(S, i)
    BY <1>2, RankFacts
  <2> QED BY <1>2, <1>3, <2>1, <2>2, <2>3
<1> QED BY <1>2, <1>3

\* What is selected first stands at the least position, and the rest is selected
\* as if that position were not there.
LEMMA SelectionUnfolds ==
    ASSUME NEW S \in SUBSET Nat, IsFiniteSet(S), NEW i \in S, \A j \in S : i <= j
    PROVE  /\ Cardinality(S) \in Nat \ {0}
           /\ Cardinality(S \ {i}) = Cardinality(S) - 1
           /\ Kth(S, 1) = i
           /\ \A k \in 1..Cardinality(S \ {i}) : Kth(S, k + 1) = Kth(S \ {i}, k)
<1>1. Cardinality(S) \in Nat \ {0}
  BY FS_CardinalityType, FS_EmptySet
<1>2. Cardinality(S \ {i}) = Cardinality(S) - 1 /\ IsFiniteSet(S \ {i})
  BY FS_RemoveElement
<1>3. Kth(S, 1) = i
  BY <1>1, LeastHasRankOne, KthFacts
<1>4. ASSUME NEW k \in 1..Cardinality(S \ {i})
      PROVE  Kth(S, k + 1) = Kth(S \ {i}, k)
  <2> DEFINE j == Kth(S \ {i}, k)
  <2>1. j \in S \ {i} /\ Rank(S \ {i}, j) = k
    BY <1>2, KthFacts
  <2>2. Rank(S, j) = k + 1
    BY <2>1, RankWithoutLeast
  <2>3. k + 1 \in 1..Cardinality(S)
    BY <1>1, <1>2
  <2>4. \A m \in S : Rank(S, m) = k + 1 => m = Kth(S, k + 1)
    BY <2>3, KthFacts
  <2> QED BY <2>1, <2>2, <2>4
<1> QED BY <1>1, <1>2, <1>3, <1>4

\* What is selected, element by element.
LEMMA SelectionIs ==
    ASSUME NEW seq, NEW S
    PROVE  Selection(seq, S) = [k \in 1..Cardinality(S) |-> seq[Kth(S, k)]]
<1> DEFINE all == [k \in 1..Cardinality(S) |-> seq[Kth(S, k)]]
<1>1. { [k \in 1..Cardinality(T) |-> seq[Kth(T, k)]] : T \in {S} } = {all}
  OBVIOUS
<1>2. (CHOOSE selected \in {all} : TRUE) = all
  <2> HIDE DEF all
  <2> QED OBVIOUS
<1> QED BY <1>1, <1>2, Zenon DEF Selection

\* Every selected element stands at one of the positions and the other way
\* round; where the sequence has no element twice, the selection has none.
LEMMA SelectionFacts ==
    ASSUME NEW seq, NEW S \in SUBSET Nat, IsFiniteSet(S)
    PROVE  /\ DOMAIN Selection(seq, S) = 1..Cardinality(S) /\ Cardinality(S) \in Nat
           /\ \A k \in 1..Cardinality(S) : \E j \in S : Selection(seq, S)[k] = seq[j]
           /\ \A j \in S : \E k \in 1..Cardinality(S) : Selection(seq, S)[k] = seq[j]
           /\ (\A i, j \in S : seq[i] = seq[j] => i = j) =>
                \A k, l \in 1..Cardinality(S) :
                    Selection(seq, S)[k] = Selection(seq, S)[l] => k = l
<1> DEFINE n == Cardinality(S)
           sel == Selection(seq, S)
<1>1. n \in Nat
  BY FS_CardinalityType
<1>2. sel = [k \in 1..n |-> seq[Kth(S, k)]]
  BY SelectionIs
<1>3. \A k \in 1..n : /\ Kth(S, k) \in S
                      /\ Rank(S, Kth(S, k)) = k
                      /\ \A i \in S : Rank(S, i) = k => i = Kth(S, k)
  BY KthFacts
<1>4. \A j \in S : Rank(S, j) \in 1..n
  BY RankFacts
<1> HIDE DEF n, sel
<1>5. DOMAIN sel = 1..n /\ \A k \in 1..n : sel[k] = seq[Kth(S, k)]
  BY <1>2
<1>6. ASSUME NEW j \in S PROVE \E k \in 1..n : sel[k] = seq[j]
  <2>1. Kth(S, Rank(S, j)) = j
    BY <1>3, <1>4
  <2> QED BY <1>4, <1>5, <2>1
<1>7. ASSUME \A i, j \in S : seq[i] = seq[j] => i = j,
             NEW k \in 1..n, NEW l \in 1..n, sel[k] = sel[l]
      PROVE  k = l
  <2>1. Kth(S, k) = Kth(S, l)
    BY <1>3, <1>5, <1>7
  <2> QED BY <1>3, <2>1
<1> QED BY <1>1, <1>3, <1>5, <1>6, <1>7 DEF n, sel

\* Where the elements of two joined sequences stand.
LEMMA Joined ==
    ASSUME NEW X, NEW a \in Seq(X), NEW b \in Seq(X)
    PROVE  /\ a \o b \in Seq(X)
           /\ Len(a \o b) = Len(a) + Len(b)
           /\ \A i \in 1..Len(a) : (a \o b)[i] = a[i]
           /\ \A i \in 1..Len(b) : (a \o b)[Len(a) + i] = b[i]
<1>1. /\ a \o b \in Seq(X)
      /\ Len(a \o b) = Len(a) + Len(b)
      /\ \A i \in 1..(Len(a) + Len(b)) :
           (a \o b)[i] = IF i <= Len(a) THEN a[i] ELSE b[i - Len(a)]
  BY ConcatProperties, Zenon
<1>2. Len(a) \in Nat /\ Len(b) \in Nat
  OBVIOUS
<1>3. ASSUME NEW i \in 1..Len(a) PROVE (a \o b)[i] = a[i]
  <2>1. i \in 1..(Len(a) + Len(b)) /\ i <= Len(a)
    BY <1>2
  <2> QED BY <1>1, <2>1, Zenon
<1>4. ASSUME NEW i \in 1..Len(b) PROVE (a \o b)[Len(a) + i] = b[i]
  <2>1. Len(a) + i \in 1..(Len(a) + Len(b)) /\ ~ (Len(a) + i <= Len(a))
        /\ (Len(a) + i) - Len(a) = i
    BY <1>2
  <2>2. (a \o b)[Len(a) + i] = b[(Len(a) + i) - Len(a)]
    BY <1>1, <2>1, Zenon
  <2> QED BY <2>1, <2>2, Zenon
<1> QED BY <1>1, <1>3, <1>4, Zenon

-----------------------------------------------------------------------------
\* A sum over named indices.
LEMMA SumOverSet ==
    ASSUME NEW S, NEW f
    PROVE  SumFunction([x \in S |-> f[x]]) = SumFunctionOnSet([x \in S |-> f[x]], S)
  BY DEF SumFunction

\* The same for whole functions: a sum of integers is one.
LEMMA TotalIsInt ==
    ASSUME NEW S, IsFiniteSet(S), NEW f \in [S -> Int]
    PROVE  SumFunction(f) \in Int
<1>1. DOMAIN f = S /\ \A x \in S : f[x] \in Int
  OBVIOUS
<1> QED BY <1>1, SumIsInt DEF SumFunction

\* Nothing adds up to zero.
LEMMA TotalOfNothing ==
    ASSUME NEW f, DOMAIN f = {}
    PROVE  SumFunction(f) = 0
  BY SumOfNothing DEF SumFunction

\* One index more adds its value.
LEMMA TotalAdds ==
    ASSUME NEW S, IsFiniteSet(S), NEW a, a \notin S,
           NEW f \in [S \cup {a} -> Int], NEW g \in [S -> Int],
           \A x \in S : f[x] = g[x]
    PROVE  SumFunction(f) = SumFunction(g) + f[a]
<1>1. DOMAIN f = S \cup {a} /\ DOMAIN g = S /\ f[a] \in Int /\ \A x \in S : f[x] \in Int
  OBVIOUS
<1>2. SumFunctionOnSet(f, S \cup {a}) = SumFunctionOnSet(f, S) + f[a]
  BY <1>1, SumAdds
<1>3. SumFunctionOnSet(f, S) = SumFunctionOnSet(g, S)
  BY SumSame
<1> QED BY <1>1, <1>2, <1>3 DEF SumFunction

\* A sum of one and of two values.
LEMMA TotalOfOne ==
    ASSUME NEW a, NEW f \in [{a} -> Int]
    PROVE  SumFunction(f) = f[a]
<1> DEFINE g == [x \in {} |-> 0]
<1>1. IsFiniteSet({}) /\ g \in [{} -> Int] /\ {} \cup {a} = {a} /\ f[a] \in Int
  BY FS_EmptySet
<1>2. SumFunction(g) = 0
  BY TotalOfNothing
<1> HIDE DEF g
<1>3. f \in [{} \cup {a} -> Int] /\ \A x \in {} : f[x] = g[x]
  BY <1>1
<1>4. SumFunction(f) = SumFunction(g) + f[a]
  BY <1>1, <1>3, TotalAdds
<1> QED BY <1>1, <1>2, <1>4

\* The sum of two values.
LEMMA TotalOfTwo ==
    ASSUME NEW a, NEW b, a # b, NEW f \in [{a, b} -> Int]
    PROVE  SumFunction(f) = f[a] + f[b]
<1> DEFINE g == [x \in {a} |-> f[x]]
<1>1. IsFiniteSet({a}) /\ g \in [{a} -> Int] /\ b \notin {a} /\ f \in [{a} \cup {b} -> Int]
      /\ \A x \in {a} : f[x] = g[x]
  <2>1. {a, b} = {a} \cup {b}
    OBVIOUS
  <2> QED BY <2>1, FS_Singleton
<1>2. SumFunction(g) = g[a] /\ g[a] = f[a]
  BY <1>1, TotalOfOne
<1> HIDE DEF g
<1>3. SumFunction(f) = SumFunction(g) + f[b]
  <2> DEFINE S == {a}
  <2>1. IsFiniteSet(S) /\ g \in [S -> Int] /\ b \notin S /\ f \in [S \cup {b} -> Int]
        /\ \A x \in S : f[x] = g[x]
    BY <1>1
  <2> HIDE DEF S
  <2> QED BY <2>1, TotalAdds
<1> QED BY <1>2, <1>3

\* Smaller values have a smaller sum.
LEMMA TotalIsMonotone ==
    ASSUME NEW S, IsFiniteSet(S), NEW f \in [S -> Int], NEW g \in [S -> Int],
           \A x \in S : f[x] <= g[x]
    PROVE  SumFunction(f) <= SumFunction(g)
<1>1. DOMAIN f = S /\ DOMAIN g = S
      /\ \A x \in S : f[x] \in Int /\ g[x] \in Int /\ f[x] <= g[x]
  OBVIOUS
<1>2. SumFunctionOnSet(f, S) <= SumFunctionOnSet(g, S)
  BY <1>1, SumIsMonotone
<1> QED BY <1>1, <1>2 DEF SumFunction

\* A common factor may be taken out of a sum.
LEMMA TotalOfScaled ==
    ASSUME NEW S, IsFiniteSet(S), NEW c \in Int, NEW f \in [S -> Int]
    PROVE  SumFunction([x \in S |-> c * f[x]]) = c * SumFunction(f)
<1>1. DOMAIN f = S /\ \A x \in S : f[x] \in Int
  OBVIOUS
<1>2. SumFunctionOnSet([x \in S |-> c * f[x]], S) = c * SumFunctionOnSet(f, S)
  BY <1>1, SumOfScaled
<1> QED BY <1>1, <1>2 DEF SumFunction

\* Functions that add up index by index have sums that add up.
LEMMA TotalOfSums ==
    ASSUME NEW S, IsFiniteSet(S), NEW f \in [S -> Int], NEW g \in [S -> Int],
           NEW h \in [S -> Int], \A x \in S : h[x] = f[x] + g[x]
    PROVE  SumFunction(h) = SumFunction(f) + SumFunction(g)
<1>1. DOMAIN f = S /\ DOMAIN g = S /\ DOMAIN h = S
      /\ \A x \in S : f[x] \in Int /\ g[x] \in Int /\ h[x] = f[x] + g[x]
  OBVIOUS
<1>2. SumFunctionOnSet(h, S) = SumFunctionOnSet(f, S) + SumFunctionOnSet(g, S)
  BY <1>1, SumOfSums
<1> QED BY <1>1, <1>2 DEF SumFunction

\* Zeros add up to zero.
LEMMA TotalOfZeros ==
    ASSUME NEW S, IsFiniteSet(S), NEW f \in [S -> Int], \A x \in S : f[x] = 0
    PROVE  SumFunction(f) = 0
<1> DEFINE g == [x \in S |-> 0 * f[x]]
<1>1. g = f
  OBVIOUS
<1> HIDE DEF g
<1>2. SumFunction(g) = 0 * SumFunction(f)
  BY TotalOfScaled DEF g
<1>3. SumFunction(f) \in Int
  BY TotalIsInt
<1> QED BY <1>1, <1>2, <1>3

\* A sum changes by what one of its values changes by.
LEMMA TotalChangesAt ==
    ASSUME NEW S, IsFiniteSet(S), NEW a \in S, NEW f \in [S -> Int], NEW g \in [S -> Int],
           \A x \in S : x # a => f[x] = g[x]
    PROVE  SumFunction(g) = SumFunction(f) + g[a] - f[a]
<1> DEFINE R == S \ {a}
           h == [x \in R |-> f[x]]
<1>1. IsFiniteSet(R) /\ a \notin R /\ R \cup {a} = S
  BY FS_Subset
<1>2. h \in [R -> Int] /\ \A x \in R : f[x] = h[x] /\ g[x] = h[x]
  OBVIOUS
<1>3. f \in [R \cup {a} -> Int] /\ g \in [R \cup {a} -> Int]
  BY <1>1
<1> HIDE DEF R, h
<1>4. SumFunction(f) = SumFunction(h) + f[a]
  BY <1>1, <1>2, <1>3, TotalAdds
<1>5. SumFunction(g) = SumFunction(h) + g[a]
  BY <1>1, <1>2, <1>3, TotalAdds
<1>6. SumFunction(h) \in Int
  BY <1>1, <1>2, TotalIsInt
<1>7. f[a] \in Int /\ g[a] \in Int
  OBVIOUS
<1> QED BY <1>4, <1>5, <1>6, <1>7
=============================================================================
