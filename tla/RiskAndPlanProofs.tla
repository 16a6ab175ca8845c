------------------------- MODULE RiskAndPlanProofs --------------------------
(***************************************************************************)
(* What the risk layer and the planner do to any book, for any number of   *)
(* instruments, any prices and any limits: what Constrain lets through     *)
(* shrank and keeps the limits, and the plan of a book of targets leads    *)
(* from what is held to the target, every reduction before every increase  *)
(* and the close of a sign flip before its opening leg.                    *)
(*                                                                         *)
(* Multiplication by an unknown is beyond the provers, so that products    *)
(* are bounded step by step, the factors hidden behind names.              *)
(***************************************************************************)
EXTENDS RiskAndPlan, CollectionProofs

-----------------------------------------------------------------------------
(***************************************************************************)
(* Numbers                                                                 *)
(***************************************************************************)

\* A quotient of natural numbers is the largest that fits.
LEMMA FloorFacts ==
    ASSUME NEW a \in Nat, NEW b \in Nat \ {0}
    PROVE  /\ a \div b \in Nat
           /\ b * (a \div b) <= a
           /\ \A c \in Nat : a <= b * c => a \div b <= c
<1>1. a \div b \in Int /\ b * (a \div b) <= a /\ a < b * (a \div b) + b
  OBVIOUS
<1>2. a \div b >= 0
  OBVIOUS
<1>3. ASSUME NEW c \in Nat, a <= b * c
      PROVE  a \div b <= c
  <2> DEFINE q == a \div b
  <2>1. q \in Int /\ b * q <= b * c
    BY <1>1, <1>3
  <2> HIDE DEF q
  <2>2. ASSUME q > c PROVE FALSE
    <3>1. q >= c + 1
      BY <2>1, <2>2
    <3>2. b * q >= b * (c + 1)
      BY <2>1, <3>1
    <3> QED BY <2>1, <3>2
  <2> QED BY <2>1, <2>2 DEF q
<1> QED BY <1>1, <1>2, <1>3

\* Cutting a quotient towards zero keeps its sign and never enlarges it.
LEMMA QuotientFacts ==
    ASSUME NEW a \in Int, NEW b \in Nat \ {0}
    PROVE  /\ Quotient(a, b) \in Int
           /\ Abs(Quotient(a, b)) = Abs(a) \div b
           /\ a >= 0 => Quotient(a, b) >= 0
           /\ a <= 0 => Quotient(a, b) <= 0
<1>1. CASE a < 0
  <2>1. (-a) \in Nat /\ Abs(a) = -a
    BY <1>1 DEF Abs
  <2>2. (-a) \div b \in Nat
    BY <2>1, FloorFacts
  <2>3. Quotient(a, b) = -((-a) \div b)
    BY <1>1 DEF Quotient
  <2> DEFINE q == (-a) \div b
  <2> HIDE DEF q
  <2> QED BY <1>1, <2>1, <2>2, <2>3 DEF Abs, q
<1>2. CASE a >= 0
  <2>1. a \in Nat /\ Abs(a) = a
    BY <1>2 DEF Abs
  <2>2. a \div b \in Nat
    BY <2>1, FloorFacts
  <2>3. Quotient(a, b) = a \div b
    BY <1>2 DEF Quotient
  <2>4. a = 0 => a \div b = 0
    OBVIOUS
  <2> QED BY <1>2, <2>1, <2>2, <2>3, <2>4 DEF Abs
<1> QED BY <1>1, <1>2

\* What is scaled down by n parts in d gets no larger and keeps its sign.
LEMMA ScaleFacts ==
    ASSUME NEW a \in Int, NEW n \in Nat, NEW d \in Nat \ {0}, n <= d
    PROVE  /\ Quotient(a * n, d) \in Int
           /\ Abs(Quotient(a * n, d)) <= Abs(a)
           /\ a >= 0 => Quotient(a * n, d) >= 0
           /\ a <= 0 => Quotient(a * n, d) <= 0
           /\ d * Abs(Quotient(a * n, d)) <= n * Abs(a)
<1> DEFINE q == Quotient(a * n, d)
           m == Abs(a)
<1>1. m \in Nat /\ d \in Nat \ {0} /\ a * n \in Int
  BY DEF Abs
<1>2. Abs(a * n) = m * n
  <2>1. CASE a >= 0
    <3>1. a * n >= 0
      BY <2>1
    <3> QED BY <2>1, <3>1 DEF Abs
  <2>2. CASE a < 0
    <3>1. (-a) * n = -(a * n) /\ (-a) * n >= 0
      BY <2>2
    <3>2. CASE n = 0
      BY <2>2, <3>2 DEF Abs
    <3>3. CASE n # 0
      <4>1. a * n < 0
        BY <2>2, <3>3
      <4> QED BY <2>2, <3>1, <4>1 DEF Abs
    <3> QED BY <3>2, <3>3
  <2> QED BY <2>1, <2>2
<1>3. /\ q \in Int /\ Abs(q) = (m * n) \div d
      /\ a * n >= 0 => q >= 0
      /\ a * n <= 0 => q <= 0
  BY <1>1, <1>2, QuotientFacts
<1>4. m * n \in Nat /\ m * n <= d * m
  BY <1>1
<1>5. (m * n) \div d <= m /\ d * ((m * n) \div d) <= m * n
  BY <1>1, <1>4, FloorFacts
<1>6. (a >= 0 => a * n >= 0) /\ (a <= 0 => a * n <= 0)
  OBVIOUS
<1>7. m * n = n * m
  BY <1>1
<1> HIDE DEF q, m
<1> QED BY <1>3, <1>5, <1>6, <1>7 DEF q, m

\* The larger of two numbers is one of them and no smaller than either.
LEMMA MaxOfTwo ==
    ASSUME NEW a \in Int, NEW b \in Int
    PROVE  /\ Max({a, b}) \in {a, b}
           /\ Max({a, b}) >= a /\ Max({a, b}) >= b
<1>1. \E x \in {a, b} : \A y \in {a, b} : x >= y
  <2>1. CASE a >= b
    BY <2>1
  <2>2. CASE b >= a
    BY <2>2
  <2> QED BY <2>1, <2>2
<1>2. Max({a, b}) \in {a, b} /\ \A y \in {a, b} : Max({a, b}) >= y
  BY <1>1 DEF Max
<1> QED BY <1>2

\* The smaller of two numbers is one of them and no larger than either.
LEMMA MinOfTwo ==
    ASSUME NEW a \in Int, NEW b \in Int
    PROVE  /\ Min({a, b}) \in {a, b}
           /\ Min({a, b}) <= a /\ Min({a, b}) <= b
<1>1. \E x \in {a, b} : \A y \in {a, b} : x <= y
  <2>1. CASE a <= b
    BY <2>1
  <2>2. CASE b <= a
    BY <2>2
  <2> QED BY <2>1, <2>2
<1>2. Min({a, b}) \in {a, b} /\ \A y \in {a, b} : Min({a, b}) <= y
  BY <1>1 DEF Min
<1> QED BY <1>2

\* A position moves by no more than the parts of its way.
LEMMA AbsFacts ==
    ASSUME NEW x \in Int, NEW y \in Int
    PROVE  Abs(x) \in Nat /\ Abs(x + y) <= Abs(x) + Abs(y)
  BY DEF Abs

-----------------------------------------------------------------------------
(***************************************************************************)
(* Books                                                                   *)
(***************************************************************************)

\* Instruments are finitely many.
LEMMA InstrumentsFinite ==
    /\ IsFiniteSet(Instruments) /\ IsFiniteSet(Spots) /\ IsFiniteSet(Perps)
    /\ Spots \cup Perps = Instruments /\ Spots \cap Perps = {}
    /\ \A j \in DOMAIN PlanOrder : PlanOrder[j] \in Instruments
    /\ \A i \in Instruments : \E j \in DOMAIN PlanOrder : PlanOrder[j] = i
    /\ DOMAIN PlanOrder = 1..Len(PlanOrder) /\ Len(PlanOrder) \in Nat
<1>1. DOMAIN PlanOrder = 1..Len(PlanOrder) /\ Len(PlanOrder) \in Nat
  BY PlanOrderAssumption
<1>2. IsFiniteSet(DOMAIN PlanOrder)
  <2> DEFINE l == Len(PlanOrder)
  <2>1. l \in Int /\ 1 \in Int
    BY <1>1
  <2> HIDE DEF l
  <2>2. IsFiniteSet(1..l)
    BY <2>1, FS_Interval
  <2> QED BY <1>1, <2>2 DEF l
<1>3. Instruments = { PlanOrder[j] : j \in DOMAIN PlanOrder }
  BY DEF Instruments, Range
<1>4. IsFiniteSet(Instruments)
  <2>1. PlanOrder \in [1..Len(PlanOrder) -> Instruments]
    BY PlanOrderAssumption
  <2>2. PlanOrder \in Surjection(DOMAIN PlanOrder, Instruments)
    BY <1>1, <1>3, <2>1 DEF Surjection
  <2> QED BY <1>2, <2>2, FS_Surjection
<1>5. IsFiniteSet(Spots) /\ IsFiniteSet(Perps)
  BY <1>4, PlanOrderAssumption, FS_Subset DEF Spots
<1> QED BY <1>1, <1>3, <1>4, <1>5, PlanOrderAssumption DEF Spots

\* A whole number for every instrument.
Books == [Instruments -> Int]

\* The gross of a book is a natural number, and a sum over a finite set.
LEMMA GrossOfFacts ==
    ASSUME NEW book \in Books, NEW S \in SUBSET Instruments
    PROVE  /\ GrossOf(book, S) \in Nat
           /\ [i \in S |-> Abs(book[i])] \in [S -> Int]
           /\ IsFiniteSet(S)
<1> DEFINE f == [i \in S |-> Abs(book[i])]
           z == [i \in S |-> 0]
<1>1. f \in [S -> Int] /\ z \in [S -> Int] /\ \A i \in S : z[i] <= f[i]
  BY DEF Books, Abs
<1>2. IsFiniteSet(S)
  BY InstrumentsFinite, FS_Subset
<1> HIDE DEF f
<1>3. SumFunction(z) <= SumFunction(f) /\ SumFunction(f) \in Int
  <2> HIDE DEF z
  <2> QED BY <1>1, <1>2, TotalIsMonotone, TotalIsInt
<1>4. SumFunction(z) = 0
  <2> DEFINE y == [i \in S |-> 0 * z[i]]
  <2>1. y = z
    BY <1>1
  <2> HIDE DEF z
  <2>2. SumFunction(y) = 0 * SumFunction(z) /\ SumFunction(z) \in Int
    BY <1>1, <1>2, TotalOfScaled, TotalIsInt
  <2> QED BY <2>1, <2>2
<1> QED BY <1>1, <1>2, <1>3, <1>4 DEF GrossOf, f

\* A book that is nowhere larger has no larger gross.
LEMMA GrossIsMonotone ==
    ASSUME NEW book \in Books, NEW other \in Books, NEW S \in SUBSET Instruments,
           \A i \in S : Abs(book[i]) <= Abs(other[i])
    PROVE  GrossOf(book, S) <= GrossOf(other, S)
<1> DEFINE f == [i \in S |-> Abs(book[i])]
           g == [i \in S |-> Abs(other[i])]
<1>1. f \in [S -> Int] /\ g \in [S -> Int] /\ IsFiniteSet(S) /\ \A i \in S : f[i] <= g[i]
  BY GrossOfFacts
<1> HIDE DEF f, g
<1>2. SumFunction(f) <= SumFunction(g)
  BY <1>1, TotalIsMonotone
<1> QED BY <1>2 DEF GrossOf, f, g

\* Scaling by n parts in d scales every sum.
LEMMA GrossOfScaled ==
    ASSUME NEW book \in Books, NEW S \in SUBSET Instruments,
           NEW n \in Nat, NEW d \in Nat \ {0}, n <= d
    PROVE  /\ ScaleBook(book, n, d) \in Books
           /\ \A i \in Instruments : /\ Abs(ScaleBook(book, n, d)[i]) <= Abs(book[i])
                                     /\ book[i] >= 0 => ScaleBook(book, n, d)[i] >= 0
                                     /\ book[i] <= 0 => ScaleBook(book, n, d)[i] <= 0
           /\ d * GrossOf(ScaleBook(book, n, d), S) <= n * GrossOf(book, S)
<1> DEFINE scaled == ScaleBook(book, n, d)
<1>1. \A i \in Instruments :
        /\ scaled[i] \in Int
        /\ Abs(scaled[i]) <= Abs(book[i])
        /\ book[i] >= 0 => scaled[i] >= 0
        /\ book[i] <= 0 => scaled[i] <= 0
        /\ d * Abs(scaled[i]) <= n * Abs(book[i])
  <2> TAKE i \in Instruments
  <2>1. scaled[i] = Quotient(book[i] * n, d) /\ book[i] \in Int
    BY DEF ScaleBook, Books
  <2> HIDE DEF scaled
  <2> QED BY <2>1, ScaleFacts
<1>2. scaled \in Books
  BY <1>1 DEF ScaleBook, Books
<1> HIDE DEF scaled
<1> DEFINE f == [i \in S |-> Abs(scaled[i])]
           g == [i \in S |-> Abs(book[i])]
           df == [i \in S |-> d * f[i]]
           ng == [i \in S |-> n * g[i]]
<1>3. f \in [S -> Int] /\ g \in [S -> Int] /\ IsFiniteSet(S)
  BY <1>2, GrossOfFacts
<1>4. /\ df \in [S -> Int] /\ ng \in [S -> Int]
      /\ \A i \in S : df[i] <= ng[i]
  <2>1. \A i \in S : f[i] = Abs(scaled[i]) /\ g[i] = Abs(book[i])
    OBVIOUS
  <2> HIDE DEF f, g
  <2>2. \A i \in S : df[i] = d * f[i] /\ ng[i] = n * g[i] /\ df[i] \in Int /\ ng[i] \in Int
    BY <1>3
  <2>3. \A i \in S : df[i] <= ng[i]
    BY <1>1, <2>1, <2>2
  <2> QED BY <2>2, <2>3
<1>5. SumFunction(df) = d * SumFunction(f) /\ SumFunction(ng) = n * SumFunction(g)
  <2> HIDE DEF f, g
  <2> QED BY <1>3, TotalOfScaled
<1>6. SumFunction(df) <= SumFunction(ng)
  <2> HIDE DEF df, ng
  <2> QED BY <1>3, <1>4, TotalIsMonotone
<1>7. d * SumFunction(f) <= n * SumFunction(g)
  BY <1>5, <1>6
<1>8. d * GrossOf(scaled, S) <= n * GrossOf(book, S)
  BY <1>7 DEF GrossOf
<1> QED BY <1>1, <1>2, <1>8 DEF scaled

-----------------------------------------------------------------------------
(***************************************************************************)
(* Pre-trade risk                                                          *)
(***************************************************************************)

\* A book that shrank: nowhere larger, and nowhere on the other side.
Shrunk(book, from) ==
    \A i \in Instruments :
        /\ Abs(book[i]) <= Abs(from[i])
        /\ from[i] >= 0 => book[i] >= 0
        /\ from[i] <= 0 => book[i] <= 0

\* CapGross shrinks a book until it keeps the gross cap.
LEMMA CapGrossFacts ==
    ASSUME NEW book \in Books, NEW equity \in Nat \ {0}
    PROVE  /\ CapGross(book, equity) \in Books
           /\ Shrunk(CapGross(book, equity), book)
           /\ Gross(CapGross(book, equity)) <= GrossCap * equity
<1> DEFINE n == GrossCap * equity
           d == Gross(book)
<1>1. n \in Nat /\ d \in Nat
  BY GrossOfFacts, RiskLimitsAssumption DEF Gross
<1>2. CASE ~ d > n
  <2>1. CapGross(book, equity) = book
    BY <1>2 DEF CapGross
  <2>2. Shrunk(book, book)
    BY DEF Shrunk, Books, Abs
  <2> QED BY <1>1, <1>2, <2>1, <2>2
<1>3. CASE d > n
  <2> DEFINE c == ScaleBook(book, n, d)
  <2>1. CapGross(book, equity) = c
    BY <1>3 DEF CapGross
  <2>2. d \in Nat \ {0} /\ n <= d
    BY <1>1, <1>3
  <2> HIDE DEF n, d
  <2>3. c \in Books /\ Shrunk(c, book) /\ d * GrossOf(c, Instruments) <= n * GrossOf(book, Instruments)
    BY <1>1, <2>2, GrossOfScaled DEF Shrunk
  <2> HIDE DEF c
  <2>4. GrossOf(c, Instruments) \in Nat /\ GrossOf(book, Instruments) = d
    BY <2>3, GrossOfFacts DEF d, Gross
  <2>5. GrossOf(c, Instruments) <= n
    <3> DEFINE g == GrossOf(c, Instruments)
    <3>1. d * g <= n * d /\ g \in Nat
      BY <2>3, <2>4
    <3> HIDE DEF g
    <3>2. ASSUME g > n PROVE FALSE
      <4>1. d * g >= d * (n + 1)
        BY <1>1, <2>2, <3>1, <3>2
      <4> QED BY <1>1, <2>2, <3>1, <4>1
    <3> QED BY <1>1, <3>1, <3>2 DEF g
  <2> QED BY <2>1, <2>3, <2>5 DEF n, Gross
<1> QED BY <1>1, <1>2, <1>3

\* What a book binds is a natural number, and no more for a book that shrank.
LEMMA RequirementFacts ==
    ASSUME NEW book \in Books
    PROVE  /\ Requirement(book) \in Nat
           /\ \A other \in Books : Shrunk(book, other) => Requirement(book) <= Requirement(other)
<1>1. GrossOf(book, Spots) \in Nat /\ GrossOf(book, Perps) \in Nat /\ MarginDivisor \in Nat \ {0}
  BY InstrumentsFinite, GrossOfFacts, RiskLimitsAssumption
<1>2. Requirement(book) \in Nat
  BY <1>1 DEF Requirement
<1>3. ASSUME NEW other \in Books, Shrunk(book, other)
      PROVE  Requirement(book) <= Requirement(other)
  <2>1. /\ GrossOf(book, Spots) <= GrossOf(other, Spots)
        /\ GrossOf(book, Perps) <= GrossOf(other, Perps)
    <3>1. \A i \in Instruments : Abs(book[i]) <= Abs(other[i])
      BY <1>3 DEF Shrunk
    <3> QED BY <3>1, InstrumentsFinite, GrossIsMonotone
  <2>2. GrossOf(other, Spots) \in Nat /\ GrossOf(other, Perps) \in Nat
    BY InstrumentsFinite, GrossOfFacts
  <2> DEFINE m == MarginDivisor
             a == GrossOf(book, Spots)
             b == GrossOf(other, Spots)
  <2>3. m * a <= m * b /\ m * a \in Int /\ m * b \in Int
    <3>1. m \in Nat /\ a \in Nat /\ b \in Nat /\ a <= b
      BY <1>1, <2>1, <2>2
    <3> HIDE DEF m, a, b
    <3> QED BY <3>1
  <2> QED BY <1>1, <2>1, <2>2, <2>3 DEF Requirement
<1> QED BY <1>2, <1>3

\* The budget is a natural number.
LEMMA BudgetIsNat ==
    ASSUME NEW equity \in Nat \ {0}
    PROVE  Budget(equity) \in Nat
<1>1. (100 - Reserve) \in Nat /\ MarginDivisor \in Nat
  BY RiskLimitsAssumption
<1> DEFINE r == 100 - Reserve
           m == MarginDivisor
<1>2. m * r * equity \in Nat
  <2> HIDE DEF r, m
  <2> QED BY <1>1 DEF r, m
<1> QED BY <1>2 DEF Budget

\* FitCollateral shrinks a book until it keeps inside the budget.
LEMMA FitCollateralFacts ==
    ASSUME NEW book \in Books, NEW equity \in Nat \ {0}
    PROVE  /\ FitCollateral(book, equity) \in Books
           /\ Shrunk(FitCollateral(book, equity), book)
           /\ Requirement(FitCollateral(book, equity)) <= Budget(equity)
<1> DEFINE n == Budget(equity)
           d == Requirement(book)
<1>1. n \in Nat /\ d \in Nat
  BY RequirementFacts, BudgetIsNat
<1>2. CASE ~ d > n
  <2>1. FitCollateral(book, equity) = book
    BY <1>2 DEF FitCollateral
  <2>2. Shrunk(book, book)
    BY DEF Shrunk, Books, Abs
  <2> QED BY <1>1, <1>2, <2>1, <2>2
<1>3. CASE d > n
  <2> DEFINE c == ScaleBook(book, n, d)
  <2>1. FitCollateral(book, equity) = c
    BY <1>3 DEF FitCollateral
  <2>2. d \in Nat \ {0} /\ n <= d
    BY <1>1, <1>3
  <2> HIDE DEF n, d
  <2>3. /\ c \in Books /\ Shrunk(c, book)
        /\ d * GrossOf(c, Spots) <= n * GrossOf(book, Spots)
        /\ d * GrossOf(c, Perps) <= n * GrossOf(book, Perps)
    BY <1>1, <2>2, GrossOfScaled, InstrumentsFinite DEF Shrunk
  <2> HIDE DEF c
  <2> DEFINE m  == MarginDivisor
             s  == GrossOf(c, Spots)
             p  == GrossOf(c, Perps)
             s0 == GrossOf(book, Spots)
             p0 == GrossOf(book, Perps)
  <2>4. /\ s \in Nat /\ p \in Nat /\ s0 \in Nat /\ p0 \in Nat /\ m \in Nat \ {0}
        /\ d = m * s0 + p0
        /\ Requirement(c) = m * s + p
    BY <2>3, InstrumentsFinite, GrossOfFacts, RiskLimitsAssumption DEF Requirement, d
  <2>5. d * s <= n * s0 /\ d * p <= n * p0
    BY <2>3
  <2> HIDE DEF m, s, p, s0, p0
  <2>6. d * (m * s + p) <= n * d
    <3>1. d * s \in Int /\ n * s0 \in Int /\ d * p \in Int /\ n * p0 \in Int
      BY <1>1, <2>2, <2>4
    <3>2. m * (d * s) <= m * (n * s0)
      <4> DEFINE x == d * s
                 y == n * s0
      <4>1. x \in Int /\ y \in Int /\ x <= y
        BY <2>5, <3>1
      <4> HIDE DEF x, y
      <4>2. m * x <= m * y
        BY <2>4, <4>1
      <4> QED BY <4>2 DEF x, y
    <3>3. d * (m * s + p) = m * (d * s) + d * p
      BY <1>1, <2>4
    <3>4. n * (m * s0 + p0) = m * (n * s0) + n * p0
      BY <1>1, <2>4
    <3>5. m * (d * s) \in Int /\ m * (n * s0) \in Int
      BY <2>4, <3>1
    <3> QED BY <2>4, <2>5, <3>1, <3>2, <3>3, <3>4, <3>5
  <2>7. m * s + p <= n
    <3> DEFINE g == m * s + p
    <3>1. d * g <= n * d /\ g \in Nat
      BY <2>4, <2>6
    <3> HIDE DEF g
    <3>2. ASSUME g > n PROVE FALSE
      <4>1. d * g >= d * (n + 1)
        BY <1>1, <2>2, <3>1, <3>2
      <4> QED BY <1>1, <2>2, <3>1, <4>1
    <3> QED BY <1>1, <3>1, <3>2 DEF g
  <2> QED BY <2>1, <2>3, <2>4, <2>7 DEF n
<1> QED BY <1>1, <1>2, <1>3

\* A book that shrank has no larger gross, and may shrink again.
LEMMA ShrunkFacts ==
    ASSUME NEW a \in Books, NEW b \in Books, Shrunk(a, b)
    PROVE  /\ Gross(a) <= Gross(b)
           /\ \A c \in Books : Shrunk(b, c) => Shrunk(a, c)
<1>1. \A i \in Instruments : Abs(a[i]) <= Abs(b[i])
  BY DEF Shrunk
<1>2. Gross(a) <= Gross(b)
  BY <1>1, GrossIsMonotone DEF Gross
<1>3. ASSUME NEW c \in Books, Shrunk(b, c), NEW i \in Instruments
      PROVE  /\ Abs(a[i]) <= Abs(c[i])
             /\ c[i] >= 0 => a[i] >= 0
             /\ c[i] <= 0 => a[i] <= 0
  <2>1. a[i] \in Int /\ b[i] \in Int /\ c[i] \in Int
    BY DEF Books
  <2> QED BY <1>3, <2>1 DEF Shrunk, Abs
<1> QED BY <1>2, <1>3 DEF Shrunk

\* A book without positions keeps inside every limit.
LEMMA EmptyBookFits ==
    ASSUME NEW book \in Books, \A i \in Instruments : book[i] = 0,
           NEW equity \in Nat \ {0}
    PROVE  Gross(book) <= GrossCap * equity /\ Requirement(book) <= Budget(equity)
<1>1. ASSUME NEW T \in SUBSET Instruments PROVE GrossOf(book, T) = 0
  <2> DEFINE f == [i \in T |-> Abs(book[i])]
  <2>1. f \in [T -> Int] /\ (\A i \in T : f[i] = 0) /\ IsFiniteSet(T)
    <3>1. IsFiniteSet(T)
      BY InstrumentsFinite, FS_Subset
    <3> QED BY <3>1 DEF Abs
  <2> HIDE DEF f
  <2>2. SumFunction(f) = 0
    BY <2>1, TotalOfZeros
  <2> QED BY <2>2 DEF GrossOf, f
<1>2. Spots \subseteq Instruments /\ Perps \subseteq Instruments
  BY InstrumentsFinite
<1>3. Gross(book) = 0 /\ GrossOf(book, Spots) = 0 /\ GrossOf(book, Perps) = 0
  BY <1>1, <1>2 DEF Gross
<1>4. GrossCap \in Nat /\ MarginDivisor \in Nat /\ Reserve \in 0..99
  BY RiskLimitsAssumption
<1>5. GrossCap * equity >= 0
  BY <1>4
<1>6. Requirement(book) = 0
  BY <1>3, <1>4 DEF Requirement
<1>7. Budget(equity) \in Nat
  BY BudgetIsNat
<1> QED BY <1>3, <1>5, <1>6, <1>7

\* What the risk layer lets through keeps to the gross cap and the budget; it
\* shrinks what is asked for, and without sound data what is held as well.
THEOREM RiskKeepsTheLimits ==
    ASSUME NEW requested \in Books, NEW held \in Books, NEW permitted \in BOOLEAN,
           NEW equity \in Nat \ {0}
    PROVE  LET book == Constrain(requested, held, permitted, equity)
           IN  /\ book \in Books
               /\ Gross(book) <= GrossCap * equity
               /\ Requirement(book) <= Budget(equity)
               /\ permitted => Shrunk(book, requested)
               /\ ~ permitted => Shrunk(book, held)
               /\ \A i \in Instruments : requested[i] >= 0 /\ held[i] >= 0 => book[i] >= 0
<1> DEFINE selected == IF permitted THEN requested ELSE BlockRiskIncrease(requested, held)
           capped   == CapGross(selected, equity)
           book     == FitCollateral(capped, equity)
<1>1. /\ selected \in Books
      /\ permitted => Shrunk(selected, requested)
      /\ ~ permitted => Shrunk(selected, held)
      /\ \A i \in Instruments : requested[i] >= 0 /\ held[i] >= 0 => selected[i] >= 0
  <2>1. CASE permitted
    BY <2>1 DEF Shrunk, Books, Abs
  <2>2. CASE ~ permitted
    <3>1. selected = BlockRiskIncrease(requested, held)
      BY <2>2
    <3> HIDE DEF selected
    <3>2. \A i \in Instruments :
            /\ selected[i] \in Int
            /\ Abs(selected[i]) <= Abs(held[i])
            /\ held[i] >= 0 => selected[i] >= 0
            /\ held[i] <= 0 => selected[i] <= 0
      <4> SUFFICES ASSUME NEW i \in Instruments
          PROVE /\ selected[i] \in Int
                /\ Abs(selected[i]) <= Abs(held[i])
                /\ held[i] >= 0 => selected[i] >= 0
                /\ held[i] <= 0 => selected[i] <= 0
        OBVIOUS
      <4> DEFINE r == requested[i]
                 h == held[i]
                 s == selected[i]
      <4>1. r \in Int /\ h \in Int
        BY DEF Books
      <4>2. s = IF r * h <= 0 THEN 0 ELSE IF Abs(r) <= Abs(h) THEN r ELSE h
        BY <3>1 DEF BlockRiskIncrease
      <4> HIDE DEF r, h, s
      <4>3. s \in Int /\ Abs(s) <= Abs(h)
        BY <4>1, <4>2 DEF Abs
      <4>4. r * h > 0 => (r > 0 /\ h > 0) \/ (r < 0 /\ h < 0)
        BY <4>1
      <4>5. (h >= 0 => s >= 0) /\ (h <= 0 => s <= 0)
        BY <4>1, <4>2, <4>4
      <4> QED BY <4>3, <4>5 DEF h, s
    <3>3. selected \in Books
      BY <3>1, <3>2 DEF BlockRiskIncrease, Books
    <3> QED BY <2>2, <3>2, <3>3 DEF Shrunk
  <2> QED BY <2>1, <2>2
<1> HIDE DEF selected
<1>2. capped \in Books /\ Shrunk(capped, selected) /\ Gross(capped) <= GrossCap * equity
  BY <1>1, CapGrossFacts
<1> HIDE DEF capped
<1>3. book \in Books /\ Shrunk(book, capped) /\ Requirement(book) <= Budget(equity)
  BY <1>2, FitCollateralFacts
<1> HIDE DEF book
<1>4. Gross(book) <= Gross(capped) /\ Shrunk(book, selected)
  BY <1>1, <1>2, <1>3, ShrunkFacts
<1>5. Gross(book) <= GrossCap * equity
  <2>1. Gross(book) \in Nat /\ Gross(capped) \in Nat
    BY <1>2, <1>3, GrossOfFacts DEF Gross
  <2>2. GrossCap * equity \in Nat
    BY RiskLimitsAssumption
  <2> DEFINE x == GrossCap * equity
  <2> HIDE DEF x
  <2> QED BY <1>2, <1>4, <2>1, <2>2 DEF x
<1>6. /\ permitted => Shrunk(book, requested)
      /\ ~ permitted => Shrunk(book, held)
  BY <1>1, <1>3, <1>4, ShrunkFacts
<1>7. \A i \in Instruments : requested[i] >= 0 /\ held[i] >= 0 => book[i] >= 0
  BY <1>1, <1>4 DEF Shrunk
<1>8. Constrain(requested, held, permitted, equity) = book
  BY DEF Constrain, book, capped, selected
<1> QED BY <1>3, <1>5, <1>6, <1>7, <1>8

-----------------------------------------------------------------------------
(***************************************************************************)
(* The planner                                                             *)
(***************************************************************************)

\* Lots on the side of a value that are worth no more than it.
WorthAtMost(lots, price, value) ==
    /\ lots \in Int
    /\ value >= 0 => lots >= 0
    /\ value <= 0 => lots <= 0
    /\ Abs(100 * lots * price) <= Abs(value)
    /\ 100 * lots * price \in Int
    /\ lots >= 0 => 100 * lots * price >= 0
    /\ lots <= 0 => 100 * lots * price <= 0

\* The lots a target value buys are worth no more than it.
LEMMA TargetFacts ==
    ASSUME NEW value \in Int, NEW price \in Nat \ {0},
           NEW lots, lots = TargetQuantity(value, price)
    PROVE  WorthAtMost(lots, price, value)
<1> DEFINE d == 100 * price
           q == Quotient(value, d)
           m == Abs(value)
<1>1. d \in Nat \ {0} /\ m \in Nat
  BY DEF Abs
<1>2. q \in Int /\ Abs(q) = m \div d /\ (value >= 0 => q >= 0) /\ (value <= 0 => q <= 0)
  <2> HIDE DEF d, q
  <2> QED BY <1>1, QuotientFacts DEF q, m
<1>3. d * (m \div d) <= m
  <2> HIDE DEF d, m
  <2> QED BY <1>1, FloorFacts
<1>4. 100 * q * price = d * q
  <2> HIDE DEF q
  <2> QED BY <1>2
<1>5. TargetQuantity(value, price) = q
  BY DEF TargetQuantity
<1> HIDE DEF d, q, m
<1>6. Abs(d * q) = d * Abs(q) /\ d * q \in Int
      /\ (q >= 0 => d * q >= 0) /\ (q <= 0 => d * q <= 0)
  <2>1. CASE q >= 0
    <3>1. d * q >= 0
      BY <1>1, <1>2, <2>1
    <3> QED BY <1>1, <1>2, <2>1, <3>1 DEF Abs
  <2>2. CASE q < 0
    <3>1. d * q < 0 /\ d * (-q) = -(d * q)
      BY <1>1, <1>2, <2>2
    <3> QED BY <1>1, <1>2, <2>2, <3>1 DEF Abs
  <2> QED BY <1>2, <2>1, <2>2
<1> QED BY <1>2, <1>3, <1>4, <1>5, <1>6 DEF m, WorthAtMost

\* The value of lots at a price has their sign, and a target that is worth no
\* more than some lots buys no more of them.
LEMMA WorthFacts ==
    ASSUME NEW c \in Int, NEW price \in Nat \ {0}
    PROVE  /\ 100 * c * price \in Int
           /\ c >= 0 => 100 * c * price >= 0
           /\ c <= 0 => 100 * c * price <= 0
           /\ \A value \in Int : Abs(value) <= Abs(100 * c * price) =>
                Abs(TargetQuantity(value, price)) <= Abs(c)
<1> DEFINE d == 100 * price
           w == 100 * c * price
           x == Abs(c)
<1>1. d \in Nat \ {0} /\ x \in Nat
  BY DEF Abs
<1>2. w = d * c
  OBVIOUS
<1> HIDE DEF w
<1>3. w \in Int /\ (c >= 0 => w >= 0) /\ (c <= 0 => w <= 0) /\ Abs(w) = d * x
  <2> HIDE DEF d
  <2>1. CASE c >= 0
    <3>1. d * c >= 0 /\ x = c
      BY <1>1, <2>1 DEF Abs
    <3> QED BY <1>1, <1>2, <2>1, <3>1 DEF Abs
  <2>2. CASE c < 0
    <3>1. d * c < 0 /\ d * (-c) = -(d * c) /\ x = -c
      BY <1>1, <2>2 DEF Abs
    <3> QED BY <1>1, <1>2, <2>2, <3>1 DEF Abs
  <2> QED BY <2>1, <2>2
<1>4. ASSUME NEW value \in Int, Abs(value) <= Abs(w)
      PROVE  Abs(TargetQuantity(value, price)) <= Abs(c)
  <2> DEFINE m == Abs(value)
             q == Quotient(value, d)
  <2>1. m \in Nat /\ m <= d * x
    BY <1>3, <1>4 DEF Abs
  <2>2. TargetQuantity(value, price) = q
    BY DEF TargetQuantity
  <2> HIDE DEF d, q, x
  <2>3. Abs(q) = m \div d
    BY <1>1, QuotientFacts DEF q, m
  <2> HIDE DEF m
  <2>4. m \div d <= x
    BY <1>1, <2>1, FloorFacts
  <2> QED BY <2>2, <2>3, <2>4 DEF x
<1> QED BY <1>3, <1>4 DEF w

\* Orders as the planner builds them.
Orders == [instrument : Instruments, delta : Int, reduce_only : BOOLEAN, child : BOOLEAN]

\* A trade against what is held, no larger than it.
Closes(held, delta) ==
    \/ held > 0 /\ -held <= delta /\ delta < 0
    \/ held < 0 /\ 0 < delta /\ delta <= -held

\* A trade with what is held, or from nothing.
Extends(held, delta) == (held >= 0 /\ delta > 0) \/ (held <= 0 /\ delta < 0)

\* Closing trades go against what is held, extending ones do not.
LEMMA SignFacts ==
    ASSUME NEW h \in Int, NEW d \in Int
    PROVE  /\ Closes(h, d) => h * d < 0 /\ Abs(d) <= Abs(h) /\ d # 0
           /\ Extends(h, d) => h * d >= 0 /\ ~ (h * d < 0) /\ d # 0
<1>1. ASSUME Closes(h, d) PROVE h * d < 0 /\ Abs(d) <= Abs(h) /\ d # 0
  <2>1. CASE h > 0 /\ -h <= d /\ d < 0
    <3>1. h * (-d) > 0 /\ h * (-d) = -(h * d) /\ h * d \in Int
      BY <2>1
    <3> QED BY <2>1, <3>1 DEF Abs
  <2>2. CASE h < 0 /\ 0 < d /\ d <= -h
    <3>1. (-h) * d > 0 /\ (-h) * d = -(h * d) /\ h * d \in Int
      BY <2>2
    <3> QED BY <2>2, <3>1 DEF Abs
  <2> QED BY <1>1, <2>1, <2>2 DEF Closes
<1>2. ASSUME Extends(h, d) PROVE h * d >= 0 /\ ~ (h * d < 0) /\ d # 0
  <2>1. h * d \in Int
    OBVIOUS
  <2>2. CASE h >= 0 /\ d > 0
    <3>1. h * d >= 0
      BY <2>2
    <3> QED BY <2>1, <2>2, <3>1
  <2>3. CASE h <= 0 /\ d < 0
    <3>1. (-h) * (-d) >= 0 /\ (-h) * (-d) = h * d
      BY <2>3
    <3> QED BY <2>1, <2>3, <3>1
  <2> QED BY <1>2, <2>2, <2>3 DEF Extends
<1> QED BY <1>1, <1>2

\* Order j is the close that order k, the opening leg of a sign flip, waits for.
Opens(start, intents, j, k) ==
    /\ j < k
    /\ intents[j].instrument = intents[k].instrument
    /\ intents[j].reduce_only
    /\ intents[k].child
    /\ intents[j].delta = -start[intents[j].instrument]

\* What an order does to what is held when the plan is made.
OrderFits(held, order) ==
    /\ order.reduce_only => ~ order.child /\ Closes(held, order.delta)
    /\ order.child =>
         (held > 0 /\ order.delta < 0) \/ (held < 0 /\ order.delta > 0)
    /\ ~ order.reduce_only /\ ~ order.child => Extends(held, order.delta)
    /\ order.instrument \in Spots => ~ order.child /\ (~ order.reduce_only => order.delta > 0)

\* The orders of a plan: one for an instrument, or a close and the opening leg
\* that waits for it.
PlanShape(start, intents) ==
    /\ intents \in Seq(Orders)
    /\ \A k \in DOMAIN intents : OrderFits(start[intents[k].instrument], intents[k])
    /\ \A j, k \in DOMAIN intents : intents[j].instrument = intents[k].instrument =>
         j = k \/ Opens(start, intents, j, k) \/ Opens(start, intents, k, j)
    /\ \A k \in DOMAIN intents : intents[k].child =>
         \E j \in DOMAIN intents : Opens(start, intents, j, k)

\* The legs of one kind.
LEMMA IntentsOfFacts ==
    ASSUME NEW legs \in Books, NEW reduceOnly \in BOOLEAN, NEW children,
           NEW list, list = IntentsOf(legs, reduceOnly, children)
    PROVE  /\ list \in Seq(Orders)
           /\ \A k \in DOMAIN list :
                    /\ list[k].instrument \in Instruments
                    /\ list[k].delta = legs[list[k].instrument]
                    /\ list[k].delta # 0
                    /\ list[k].reduce_only = reduceOnly
                    /\ list[k].child <=> list[k].instrument \in children
           /\ \A k, l \in DOMAIN list : list[k].instrument = list[l].instrument => k = l
           /\ \A i \in Instruments : legs[i] # 0 =>
                    \E k \in DOMAIN list : list[k].instrument = i
<1> DEFINE S == { j \in DOMAIN PlanOrder : legs[PlanOrder[j]] # 0 }
           legged == Selection(PlanOrder, S)
           n == Cardinality(S)
<1>1. S \in SUBSET Nat /\ IsFiniteSet(S)
  <2>1. DOMAIN PlanOrder = 1..Len(PlanOrder) /\ Len(PlanOrder) \in Nat
    BY InstrumentsFinite
  <2>2. IsFiniteSet(DOMAIN PlanOrder)
    <3> DEFINE l == Len(PlanOrder)
    <3>1. l \in Int /\ 1 \in Int
      BY <2>1
    <3> HIDE DEF l
    <3>2. IsFiniteSet(1..l)
      BY <3>1, FS_Interval
    <3> QED BY <2>1, <3>2 DEF l
  <2>3. S \subseteq DOMAIN PlanOrder /\ DOMAIN PlanOrder \subseteq Nat
    BY <2>1
  <2> HIDE DEF S
  <2> QED BY <2>2, <2>3, FS_Subset
<1>2. \A i, j \in S : PlanOrder[i] = PlanOrder[j] => i = j
  BY PlanOrderAssumption
<1>3. /\ DOMAIN legged = 1..n /\ n \in Nat
      /\ \A k \in 1..n : \E j \in S : legged[k] = PlanOrder[j]
      /\ \A j \in S : \E k \in 1..n : legged[k] = PlanOrder[j]
      /\ \A k, l \in 1..n : legged[k] = legged[l] => k = l
  <2> HIDE DEF S
  <2> QED BY <1>1, <1>2, SelectionFacts
<1>4. list = [k \in DOMAIN legged |->
                [ instrument  |-> legged[k],
                  delta       |-> legs[legged[k]],
                  reduce_only |-> reduceOnly,
                  child       |-> legged[k] \in children ]]
  BY DEF IntentsOf
<1>5. \A j \in S : PlanOrder[j] \in Instruments /\ legs[PlanOrder[j]] # 0
  BY InstrumentsFinite
<1>6. \A i \in Instruments : legs[i] # 0 => \E j \in S : PlanOrder[j] = i
  BY InstrumentsFinite
<1> HIDE DEF S, legged, n
<1>7. \A k \in 1..n : legged[k] \in Instruments /\ legs[legged[k]] # 0
      /\ legs[legged[k]] \in Int
  BY <1>3, <1>5 DEF Books
<1>8. DOMAIN list = 1..n
      /\ \A k \in 1..n : list[k] = [ instrument  |-> legged[k],
                                     delta       |-> legs[legged[k]],
                                     reduce_only |-> reduceOnly,
                                     child       |-> legged[k] \in children ]
  BY <1>3, <1>4
<1>9. \A k \in 1..n : list[k] \in Orders
  <2> TAKE k \in 1..n
  <2> DEFINE i == legged[k]
             mine == i \in children
  <2>1. i \in Instruments /\ legs[i] \in Int /\ mine \in BOOLEAN
    BY <1>7
  <2>2. list[k] = [ instrument |-> i, delta |-> legs[i], reduce_only |-> reduceOnly,
                    child |-> mine ]
    BY <1>8
  <2> HIDE DEF i, mine
  <2> QED BY <2>1, <2>2 DEF Orders
<1>10. list \in Seq(Orders)
  <2>1. list = [k \in 1..n |-> list[k]]
    BY <1>4, <1>8, <1>3
  <2> QED BY <1>3, <1>9, <2>1
<1>11. \A k \in DOMAIN list :
                    /\ list[k].instrument \in Instruments
                    /\ list[k].delta = legs[list[k].instrument]
                    /\ list[k].delta # 0
                    /\ list[k].reduce_only = reduceOnly
                    /\ list[k].child <=> list[k].instrument \in children
  <2> TAKE k \in DOMAIN list
  <2>1. k \in 1..n
    BY <1>8
  <2>2. /\ list[k].instrument = legged[k]
        /\ list[k].delta = legs[legged[k]]
        /\ list[k].reduce_only = reduceOnly
        /\ list[k].child = (legged[k] \in children)
    BY <1>8, <2>1
  <2> QED BY <1>7, <2>1, <2>2
<1>12. \A k, l \in DOMAIN list : list[k].instrument = list[l].instrument => k = l
  BY <1>3, <1>8
<1>13. \A i \in Instruments : legs[i] # 0 => \E k \in DOMAIN list : list[k].instrument = i
  BY <1>3, <1>6, <1>8
<1> QED BY <1>10, <1>11, <1>12, <1>13

\* The legs of one instrument lead from what is held to what is wanted.
LEMMA LegArithmetic ==
    ASSUME NEW c \in Int, NEW t \in Int
    PROVE  /\ Reduction(c, t) \in Int /\ Increase(c, t) \in Int
           /\ c + Reduction(c, t) + Increase(c, t) = t
           /\ Reduction(c, t) # 0 => Closes(c, Reduction(c, t))
           /\ Flips(c, t) =>
                /\ Reduction(c, t) = -c /\ c # 0
                /\ Increase(c, t) = t
                /\ (c > 0 /\ t < 0) \/ (c < 0 /\ t > 0)
           /\ ~ Flips(c, t) => Reduction(c, t) = 0 \/ Increase(c, t) = 0
           /\ ~ Flips(c, t) /\ Increase(c, t) # 0 => Extends(c, Increase(c, t))
           /\ c >= 0 /\ t >= 0 => ~ Flips(c, t) /\ Increase(c, t) >= 0
<1>1. Flips(c, t) <=> (c > 0 /\ t < 0) \/ (c < 0 /\ t > 0)
  <2>1. c * t < 0 <=> (c > 0 /\ t < 0) \/ (c < 0 /\ t > 0)
    <3>1. CASE c > 0
      BY <3>1
    <3>2. CASE c = 0
      BY <3>2
    <3>3. CASE c < 0
      <4>1. c * t = -((-c) * t)
        BY <3>3
      <4>2. (-c) * t > 0 <=> t > 0
        BY <3>3
      <4>3. (-c) * t \in Int /\ c * t \in Int
        OBVIOUS
      <4> QED BY <3>3, <4>1, <4>2, <4>3
    <3> QED BY <3>1, <3>2, <3>3
  <2> QED BY <2>1 DEF Flips
<1> DEFINE r == Reduction(c, t)
           n == Increase(c, t)
<1>2. CASE Flips(c, t)
  <2>1. r = -c /\ n = t
    BY <1>2 DEF Reduction, Increase
  <2> HIDE DEF r, n
  <2>2. Closes(c, r)
    BY <1>1, <1>2, <2>1 DEF Closes
  <2> QED BY <1>1, <1>2, <2>1, <2>2 DEF r, n
<1>3. CASE ~ Flips(c, t)
  <2>1. /\ r = IF Abs(t) >= Abs(c) THEN 0 ELSE t - c
        /\ n = IF Abs(t) <= Abs(c) THEN 0 ELSE t - c
    BY <1>3 DEF Reduction, Increase
  <2>2. (c >= 0 /\ t >= 0) \/ (c <= 0 /\ t <= 0)
    BY <1>1, <1>3
  <2> HIDE DEF r, n
  <2>3. /\ r \in Int /\ n \in Int /\ c + r + n = t
        /\ r # 0 => Closes(c, r)
        /\ r = 0 \/ n = 0
        /\ n # 0 => Extends(c, n)
        /\ c >= 0 /\ t >= 0 => n >= 0
    <3>1. CASE c >= 0 /\ t >= 0
      <4>1. Abs(c) = c /\ Abs(t) = t
        BY <3>1 DEF Abs
      <4> QED BY <2>1, <3>1, <4>1 DEF Closes, Extends
    <3>2. CASE c <= 0 /\ t <= 0
      <4>1. Abs(c) = -c /\ Abs(t) = -t
        BY <3>2 DEF Abs
      <4> QED BY <2>1, <3>2, <4>1 DEF Closes, Extends
    <3> QED BY <2>2, <3>1, <3>2
  <2> QED BY <1>3, <2>3 DEF r, n
<1> QED BY <1>2, <1>3

\* Every reduction of a plan, of whatever instrument, stands before every
\* increase.
ReductionsFirst(intents) ==
    \A j, k \in DOMAIN intents :
        intents[j].reduce_only /\ ~ intents[k].reduce_only => j < k

\* The plan of a book of targets (build_execution_plan): every reduction stands
\* before every increase, whatever the instruments; an order fits what is held,
\* an instrument has one order or a close and the opening leg that waits for it;
\* and the orders lead from what is held to the target.
THEOREM PlanLeadsToTheTarget ==
    ASSUME NEW start \in Books, NEW target \in Books,
           \A i \in Spots : start[i] >= 0 /\ target[i] >= 0
    PROVE  LET intents == PlanIntents(start, target)
           IN  /\ ReductionsFirst(intents)
               /\ PlanShape(start, intents)
               /\ \A k \in DOMAIN intents : ~ intents[k].reduce_only =>
                    Increase(start[intents[k].instrument], target[intents[k].instrument]) # 0
               /\ \A i \in Instruments :
                    start[i] + SumFunction([k \in LegsOf(intents, i) |-> intents[k].delta]) = target[i]
<1> DEFINE red == [i \in Instruments |-> Reduction(start[i], target[i])]
           inc == [i \in Instruments |-> Increase(start[i], target[i])]
           flipped == { i \in Instruments : Flips(start[i], target[i]) }
           a == IntentsOf(red, TRUE, {})
           b == IntentsOf(inc, FALSE, flipped)
           intents == PlanIntents(start, target)
<1>1. \A i \in Instruments :
        /\ start[i] \in Int /\ target[i] \in Int
        /\ red[i] = Reduction(start[i], target[i]) /\ inc[i] = Increase(start[i], target[i])
        /\ red[i] \in Int /\ inc[i] \in Int
        /\ start[i] + red[i] + inc[i] = target[i]
        /\ red[i] # 0 => Closes(start[i], red[i])
        /\ i \in flipped =>
             /\ red[i] = -start[i] /\ start[i] # 0 /\ inc[i] = target[i]
             /\ (start[i] > 0 /\ target[i] < 0) \/ (start[i] < 0 /\ target[i] > 0)
        /\ i \notin flipped => red[i] = 0 \/ inc[i] = 0
        /\ i \notin flipped /\ inc[i] # 0 => Extends(start[i], inc[i])
        /\ start[i] >= 0 /\ target[i] >= 0 => i \notin flipped /\ inc[i] >= 0
  <2> TAKE i \in Instruments
  <2>1. start[i] \in Int /\ target[i] \in Int
    BY DEF Books
  <2>2. red[i] = Reduction(start[i], target[i]) /\ inc[i] = Increase(start[i], target[i])
    OBVIOUS
  <2>3. i \in flipped <=> Flips(start[i], target[i])
    OBVIOUS
  <2> HIDE DEF red, inc, flipped
  <2> QED BY <2>1, <2>2, <2>3, LegArithmetic
<1>2. red \in Books /\ inc \in Books
  BY <1>1 DEF Books
<1> HIDE DEF red, inc, flipped
<1>3. /\ a \in Seq(Orders)
      /\ \A k \in DOMAIN a :
           /\ a[k].instrument \in Instruments
           /\ a[k].delta = red[a[k].instrument] /\ a[k].delta # 0
           /\ a[k].reduce_only = TRUE
           /\ ~ a[k].child
      /\ \A k, l \in DOMAIN a : a[k].instrument = a[l].instrument => k = l
      /\ \A i \in Instruments : red[i] # 0 => \E k \in DOMAIN a : a[k].instrument = i
  <2> DEFINE Legged(list, r) ==
               /\ list \in Seq(Orders)
               /\ \A k \in DOMAIN list :
                    /\ list[k].instrument \in Instruments
                    /\ list[k].delta = red[list[k].instrument]
                    /\ list[k].delta # 0
                    /\ list[k].reduce_only = r
                    /\ list[k].child <=> list[k].instrument \in {}
               /\ \A k, l \in DOMAIN list : list[k].instrument = list[l].instrument => k = l
               /\ \A i \in Instruments : red[i] # 0 =>
                    \E k \in DOMAIN list : list[k].instrument = i
  <2>1. \A r \in BOOLEAN : \A list : list = IntentsOf(red, r, {}) => Legged(list, r)
    BY <1>2, IntentsOfFacts
  <2> HIDE DEF Legged
  <2>2. Legged(a, TRUE)
    BY <2>1, Zenon
  <2> HIDE DEF a
  <2> QED BY <2>2 DEF Legged
<1>4. /\ b \in Seq(Orders)
      /\ \A k \in DOMAIN b :
           /\ b[k].instrument \in Instruments
           /\ b[k].delta = inc[b[k].instrument] /\ b[k].delta # 0
           /\ b[k].reduce_only = FALSE
           /\ b[k].child <=> b[k].instrument \in flipped
      /\ \A k, l \in DOMAIN b : b[k].instrument = b[l].instrument => k = l
      /\ \A i \in Instruments : inc[i] # 0 => \E k \in DOMAIN b : b[k].instrument = i
  <2> DEFINE Legged(list, r) ==
               /\ list \in Seq(Orders)
               /\ \A k \in DOMAIN list :
                    /\ list[k].instrument \in Instruments
                    /\ list[k].delta = inc[list[k].instrument]
                    /\ list[k].delta # 0
                    /\ list[k].reduce_only = r
                    /\ list[k].child <=> list[k].instrument \in flipped
               /\ \A k, l \in DOMAIN list : list[k].instrument = list[l].instrument => k = l
               /\ \A i \in Instruments : inc[i] # 0 =>
                    \E k \in DOMAIN list : list[k].instrument = i
  <2>1. \A r \in BOOLEAN : \A list : list = IntentsOf(inc, r, flipped) => Legged(list, r)
    BY <1>2, IntentsOfFacts
  <2> HIDE DEF Legged
  <2>2. Legged(b, FALSE)
    BY <2>1, Zenon
  <2> HIDE DEF b
  <2> QED BY <2>2 DEF Legged
<1>5. intents = a \o b
  BY DEF PlanIntents, red, inc, flipped
<1> HIDE DEF a, b, intents
<1> DEFINE m == Len(a)
           n == Len(b)
<1>6. m \in Nat /\ n \in Nat /\ DOMAIN a = 1..m /\ DOMAIN b = 1..n
  BY <1>3, <1>4
<1>7. /\ intents \in Seq(Orders) /\ Len(intents) = m + n
      /\ \A k \in 1..m : intents[k] = a[k]
      /\ \A k \in 1..n : intents[m + k] = b[k]
  BY <1>3, <1>4, <1>5, Joined
<1> HIDE DEF m, n
<1>8. DOMAIN intents = 1..(m + n)
  BY <1>7
\* What stands at a place of the plan: a reduction up to m, an increase after it.
<1>9. /\ \A k \in 1..m : k \in DOMAIN intents
           /\ intents[k].instrument \in Instruments
           /\ intents[k].delta = red[intents[k].instrument] /\ intents[k].delta # 0
           /\ intents[k].reduce_only /\ ~ intents[k].child
      /\ \A k, l \in 1..m : intents[k].instrument = intents[l].instrument => k = l
      /\ \A i \in Instruments : red[i] # 0 => \E k \in 1..m : intents[k].instrument = i
  <2>1. \A k \in 1..m : k \in DOMAIN intents
    BY <1>6, <1>8
  <2>2. \A k \in 1..m :
           /\ intents[k].instrument \in Instruments
           /\ intents[k].delta = red[intents[k].instrument] /\ intents[k].delta # 0
           /\ intents[k].reduce_only /\ ~ intents[k].child
    <3> TAKE k \in 1..m
    <3>1. intents[k] = a[k] /\ k \in DOMAIN a
      BY <1>6, <1>7
    <3> QED BY <1>3, <3>1
  <2>3. \A k, l \in 1..m : intents[k].instrument = intents[l].instrument => k = l
    <3> SUFFICES ASSUME NEW k \in 1..m, NEW l \in 1..m,
                        intents[k].instrument = intents[l].instrument
        PROVE k = l
      OBVIOUS
    <3>1. intents[k] = a[k] /\ intents[l] = a[l] /\ k \in DOMAIN a /\ l \in DOMAIN a
      BY <1>6, <1>7
    <3> QED BY <1>3, <3>1
  <2>4. \A i \in Instruments : red[i] # 0 => \E k \in 1..m : intents[k].instrument = i
    BY <1>3, <1>6, <1>7
  <2> QED BY <2>1, <2>2, <2>3, <2>4
<1>10. \A k \in DOMAIN intents : k \notin 1..m =>
           /\ intents[k].instrument \in Instruments
           /\ intents[k].delta = inc[intents[k].instrument] /\ intents[k].delta # 0
           /\ ~ intents[k].reduce_only
           /\ intents[k].child <=> intents[k].instrument \in flipped
  <2> SUFFICES ASSUME NEW k \in DOMAIN intents, k \notin 1..m
      PROVE /\ intents[k].instrument \in Instruments
            /\ intents[k].delta = inc[intents[k].instrument] /\ intents[k].delta # 0
            /\ ~ intents[k].reduce_only
            /\ intents[k].child <=> intents[k].instrument \in flipped
    OBVIOUS
  <2> DEFINE l == k - m
  <2>1. l \in 1..n /\ k = m + l
    BY <1>6, <1>8
  <2> HIDE DEF l
  <2>2. intents[k] = b[l]
    BY <1>7, <2>1
  <2> QED BY <1>4, <1>6, <2>1, <2>2
<1>11. \A k, l \in DOMAIN intents : k \notin 1..m /\ l \notin 1..m
          /\ intents[k].instrument = intents[l].instrument => k = l
  <2> SUFFICES ASSUME NEW k \in DOMAIN intents, NEW l \in DOMAIN intents, k \notin 1..m,
                      l \notin 1..m, intents[k].instrument = intents[l].instrument
      PROVE k = l
    OBVIOUS
  <2> DEFINE x == k - m
             y == l - m
  <2>1. x \in 1..n /\ k = m + x /\ y \in 1..n /\ l = m + y
    BY <1>6, <1>8
  <2> HIDE DEF x, y
  <2>2. intents[k] = b[x] /\ intents[l] = b[y]
    BY <1>7, <2>1
  <2>3. x = y
    BY <1>4, <1>6, <2>1, <2>2
  <2> QED BY <2>1, <2>3
<1>12. \A i \in Instruments : inc[i] # 0 =>
          \E k \in DOMAIN intents : k \notin 1..m /\ intents[k].instrument = i
  <2> SUFFICES ASSUME NEW i \in Instruments, inc[i] # 0
      PROVE \E k \in DOMAIN intents : k \notin 1..m /\ intents[k].instrument = i
    OBVIOUS
  <2>1. PICK l \in 1..n : b[l].instrument = i
    BY <1>4, <1>6
  <2>2. m + l \in DOMAIN intents /\ m + l \notin 1..m
    BY <1>6, <1>8
  <2>3. intents[m + l] = b[l]
    BY <1>7
  <2> QED BY <2>1, <2>2, <2>3
<1>13. \A k \in DOMAIN intents : OrderFits(start[intents[k].instrument], intents[k])
  <2> SUFFICES ASSUME NEW k \in DOMAIN intents
      PROVE OrderFits(start[intents[k].instrument], intents[k])
    OBVIOUS
  <2> DEFINE i == intents[k].instrument
             d == intents[k].delta
  <2>1. CASE k \in 1..m
    <3>1. i \in Instruments /\ d = red[i] /\ d # 0 /\ intents[k].reduce_only /\ ~ intents[k].child
      BY <1>9, <2>1
    <3>2. Closes(start[i], d)
      BY <1>1, <3>1
    <3> QED BY <3>1, <3>2 DEF OrderFits
  <2>2. CASE k \notin 1..m
    <3>1. /\ i \in Instruments /\ d = inc[i] /\ d # 0 /\ ~ intents[k].reduce_only
          /\ intents[k].child <=> i \in flipped
      BY <1>10, <2>2
    <3>2. i \in flipped => (start[i] > 0 /\ d < 0) \/ (start[i] < 0 /\ d > 0)
      BY <1>1, <3>1
    <3>3. i \notin flipped => Extends(start[i], d)
      BY <1>1, <3>1
    <3>4. i \in Spots => i \notin flipped /\ d > 0
      <4>1. i \in Spots => start[i] >= 0 /\ target[i] >= 0
        OBVIOUS
      <4>2. d \in Int
        BY <1>1, <3>1
      <4> HIDE DEF i, d
      <4> QED BY <1>1, <3>1, <4>1, <4>2
    <3> QED BY <3>1, <3>2, <3>3, <3>4 DEF OrderFits
  <2> QED BY <2>1, <2>2
<1>14. \A j \in 1..m, k \in DOMAIN intents :
          k \notin 1..m /\ intents[j].instrument = intents[k].instrument =>
            Opens(start, intents, j, k)
  <2> SUFFICES ASSUME NEW j \in 1..m, NEW k \in DOMAIN intents, k \notin 1..m,
                      intents[j].instrument = intents[k].instrument
      PROVE Opens(start, intents, j, k)
    OBVIOUS
  <2> DEFINE i == intents[k].instrument
  <2>1. j < k
    BY <1>6, <1>8
  <2>2. i \in Instruments /\ red[i] # 0 /\ inc[i] # 0
    BY <1>9, <1>10
  <2> HIDE DEF i
  <2>3. i \in flipped /\ red[i] = -start[i]
    BY <1>1, <2>2
  <2> QED BY <1>9, <1>10, <2>1, <2>3 DEF Opens, i
<1>15. \A j, k \in DOMAIN intents : intents[j].instrument = intents[k].instrument =>
         j = k \/ Opens(start, intents, j, k) \/ Opens(start, intents, k, j)
  <2> SUFFICES ASSUME NEW j \in DOMAIN intents, NEW k \in DOMAIN intents,
                      intents[j].instrument = intents[k].instrument
      PROVE j = k \/ Opens(start, intents, j, k) \/ Opens(start, intents, k, j)
    OBVIOUS
  <2>1. CASE j \in 1..m /\ k \in 1..m
    BY <1>9, <2>1
  <2>2. CASE j \notin 1..m /\ k \notin 1..m
    BY <1>11, <2>2
  <2>3. CASE j \in 1..m /\ k \notin 1..m
    BY <1>14, <2>3
  <2>4. CASE j \notin 1..m /\ k \in 1..m
    BY <1>14, <2>4
  <2> QED BY <2>1, <2>2, <2>3, <2>4
<1>16. \A k \in DOMAIN intents : intents[k].child =>
         \E j \in DOMAIN intents : Opens(start, intents, j, k)
  <2> SUFFICES ASSUME NEW k \in DOMAIN intents, intents[k].child
      PROVE \E j \in DOMAIN intents : Opens(start, intents, j, k)
    OBVIOUS
  <2> DEFINE i == intents[k].instrument
  <2>1. k \notin 1..m /\ i \in Instruments /\ i \in flipped
    BY <1>9, <1>10
  <2>2. red[i] # 0
    <3> HIDE DEF i
    <3>1. red[i] = -start[i] /\ start[i] # 0 /\ start[i] \in Int
      BY <1>1, <2>1
    <3> QED BY <3>1
  <2>3. PICK j \in 1..m : intents[j].instrument = i
    BY <1>9, <2>1, <2>2
  <2> QED BY <1>9, <1>14, <2>1, <2>3
<1>17. PlanShape(start, intents)
  BY <1>7, <1>13, <1>15, <1>16 DEF PlanShape
<1>18. \A k \in DOMAIN intents : ~ intents[k].reduce_only =>
         Increase(start[intents[k].instrument], target[intents[k].instrument]) # 0
  BY <1>1, <1>9, <1>10
<1>19. \A i \in Instruments :
         start[i] + SumFunction([k \in LegsOf(intents, i) |-> intents[k].delta]) = target[i]
  <2> SUFFICES ASSUME NEW i \in Instruments
      PROVE start[i] + SumFunction([k \in LegsOf(intents, i) |-> intents[k].delta]) = target[i]
    OBVIOUS
  <2> DEFINE L == LegsOf(intents, i)
             f == [k \in L |-> intents[k].delta]
  <2>1. /\ start[i] \in Int /\ red[i] \in Int /\ inc[i] \in Int
        /\ start[i] + red[i] + inc[i] = target[i]
    BY <1>1
  <2>2. \A k \in L : k \in DOMAIN intents /\ intents[k].instrument = i /\ f[k] = intents[k].delta
    BY DEF LegsOf
  <2>3. \A k \in DOMAIN intents : intents[k].instrument = i => k \in L
    BY DEF LegsOf
  <2>4. \A k \in L : (k \in 1..m => f[k] = red[i] /\ red[i] # 0)
                     /\ (k \notin 1..m => f[k] = inc[i] /\ inc[i] # 0)
    BY <1>9, <1>10, <2>2
  <2>5. DOMAIN f = L /\ f = [k \in L |-> f[k]]
    OBVIOUS
  <2> HIDE DEF f, L
  <2>6. f \in [L -> Int]
    BY <2>1, <2>4, <2>5
  <2>7. SumFunction(f) = red[i] + inc[i]
    <3>1. CASE red[i] = 0 /\ inc[i] = 0
      <4>1. L = {}
        BY <2>4, <3>1
      <4> QED BY <2>5, <3>1, <4>1, TotalOfNothing
    <3>2. CASE red[i] # 0 /\ inc[i] = 0
      <4>1. PICK j \in 1..m : j \in L
        BY <1>9, <2>3, <3>2
      <4>2. L = {j}
        <5>1. \A k \in L : k = j
          <6> TAKE k \in L
          <6>1. k \in 1..m
            BY <2>4, <3>2
          <6>2. intents[k].instrument = intents[j].instrument
            BY <2>2, <4>1
          <6> QED BY <1>9, <6>1, <6>2
        <5> QED BY <4>1, <5>1
      <4>3. f \in [{j} -> Int]
        BY <2>6, <4>2
      <4> QED BY <2>1, <2>4, <3>2, <4>1, <4>3, TotalOfOne
    <3>3. CASE red[i] = 0 /\ inc[i] # 0
      <4>1. PICK j \in DOMAIN intents : j \notin 1..m /\ j \in L
        BY <1>12, <2>3, <3>3
      <4>2. L = {j}
        <5>1. \A k \in L : k = j
          <6> TAKE k \in L
          <6>1. k \in DOMAIN intents /\ k \notin 1..m
            BY <2>2, <2>4, <3>3
          <6>2. intents[k].instrument = intents[j].instrument
            BY <2>2, <4>1
          <6> QED BY <1>11, <4>1, <6>1, <6>2
        <5> QED BY <4>1, <5>1
      <4>3. f \in [{j} -> Int]
        BY <2>6, <4>2
      <4> QED BY <2>1, <2>4, <3>3, <4>1, <4>3, TotalOfOne
    <3>4. CASE red[i] # 0 /\ inc[i] # 0
      <4>1. PICK j \in 1..m : j \in L
        BY <1>9, <2>3, <3>4
      <4>2. PICK k \in DOMAIN intents : k \notin 1..m /\ k \in L
        BY <1>12, <2>3, <3>4
      <4>3. L = {j, k} /\ j # k
        <5>1. \A l \in L : l = j \/ l = k
          <6> TAKE l \in L
          <6>1. /\ l \in DOMAIN intents
                /\ intents[l].instrument = intents[j].instrument
                /\ intents[l].instrument = intents[k].instrument
            BY <2>2, <4>1, <4>2
          <6>2. CASE l \in 1..m
            BY <1>9, <6>1, <6>2
          <6>3. CASE l \notin 1..m
            BY <1>11, <4>2, <6>1, <6>3
          <6> QED BY <6>2, <6>3
        <5> QED BY <4>1, <4>2, <5>1
      <4>4. f \in [{j, k} -> Int]
        BY <2>6, <4>3
      <4>5. SumFunction(f) = f[j] + f[k]
        BY <4>3, <4>4, TotalOfTwo
      <4> QED BY <2>4, <4>1, <4>2, <4>5
    <3> QED BY <3>1, <3>2, <3>3, <3>4
  <2> QED BY <2>1, <2>7 DEF f, L
<1>20. ReductionsFirst(intents)
  <2> SUFFICES ASSUME NEW j \in DOMAIN intents, NEW k \in DOMAIN intents,
                      intents[j].reduce_only, ~ intents[k].reduce_only
      PROVE j < k
    BY DEF ReductionsFirst
  <2>1. j \in 1..m
    BY <1>10
  <2>2. k \notin 1..m
    BY <1>9
  <2> QED BY <1>6, <1>8, <2>1, <2>2
<1> QED BY <1>17, <1>18, <1>19, <1>20 DEF intents

-----------------------------------------------------------------------------
(***************************************************************************)
(* The orders of a plan                                                    *)
(***************************************************************************)

\* The orders of an instrument are none, one, or a close and its opening leg.
LEMMA LegCases ==
    ASSUME NEW start \in Books, NEW intents, PlanShape(start, intents), NEW i \in Instruments
    PROVE  /\ LegsOf(intents, i) \subseteq DOMAIN intents
           /\ IsFiniteSet(LegsOf(intents, i))
           /\ \/ LegsOf(intents, i) = {}
              \/ \E k \in DOMAIN intents :
                   LegsOf(intents, i) = {k} /\ ~ intents[k].child
              \/ \E j, k \in DOMAIN intents :
                   LegsOf(intents, i) = {j, k} /\ Opens(start, intents, j, k)
<1> DEFINE L == LegsOf(intents, i)
<1>1. /\ intents \in Seq(Orders)
      /\ \A j, k \in DOMAIN intents : intents[j].instrument = intents[k].instrument =>
           j = k \/ Opens(start, intents, j, k) \/ Opens(start, intents, k, j)
      /\ \A k \in DOMAIN intents : intents[k].child =>
           \E j \in DOMAIN intents : Opens(start, intents, j, k)
      /\ \A k \in DOMAIN intents : intents[k].reduce_only => ~ intents[k].child
  BY DEF PlanShape, OrderFits
<1>2. DOMAIN intents = 1..Len(intents) /\ Len(intents) \in Nat
  BY <1>1
<1>3. IsFiniteSet(DOMAIN intents)
  <2> DEFINE n == Len(intents)
  <2>1. n \in Int /\ 1 \in Int
    BY <1>2
  <2> HIDE DEF n
  <2>2. IsFiniteSet(1..n)
    BY <2>1, FS_Interval
  <2> QED BY <1>2, <2>2 DEF n
<1>4. L \subseteq DOMAIN intents /\ IsFiniteSet(L)
  <2>1. L \subseteq DOMAIN intents
    BY DEF LegsOf
  <2> HIDE DEF L
  <2> QED BY <1>3, <2>1, FS_Subset
<1>5. \A k \in DOMAIN intents : k \in L <=> intents[k].instrument = i
  BY DEF LegsOf
<1> HIDE DEF L
<1>6. CASE L # {}
  <2>1. CASE \E k \in L : intents[k].child
    <3>1. PICK k \in L : intents[k].child
      BY <2>1
    <3>2. PICK j \in DOMAIN intents : Opens(start, intents, j, k)
      BY <1>1, <1>4, <3>1
    <3>3. j \in L /\ intents[j].reduce_only
      BY <1>4, <1>5, <3>2 DEF Opens
    <3>4. \A l \in L : l = j \/ l = k
      <4> SUFFICES ASSUME NEW l \in L, l # j, l # k PROVE FALSE
        OBVIOUS
      <4>1. Opens(start, intents, l, k) \/ Opens(start, intents, k, l)
        BY <1>1, <1>4, <1>5
      <4>2. Opens(start, intents, l, j) \/ Opens(start, intents, j, l)
        BY <1>1, <1>4, <1>5, <3>3
      <4>3. ~ intents[j].child
        BY <1>1, <3>2, <3>3
      <4>4. intents[l].child
        BY <4>2, <4>3 DEF Opens
      <4>5. intents[k].reduce_only \/ intents[l].reduce_only
        BY <4>1 DEF Opens
      <4> QED BY <1>1, <1>4, <3>1, <4>4, <4>5
    <3>5. L = {j, k}
      BY <3>1, <3>3, <3>4
    <3> QED BY <1>4, <3>1, <3>2, <3>5 DEF L
  <2>2. CASE \A k \in L : ~ intents[k].child
    <3>1. PICK k \in L : TRUE
      BY <1>6
    <3>2. \A l \in L : l = k
      BY <1>1, <1>4, <1>5, <2>2 DEF Opens
    <3>3. L = {k}
      BY <3>1, <3>2
    <3> QED BY <1>4, <2>2, <3>3 DEF L
  <2> QED BY <2>1, <2>2
<1> QED BY <1>4, <1>6 DEF L

\* The parent of an opening leg is the close before it.
LEMMA ParentFacts ==
    ASSUME NEW start \in Books, NEW intents, PlanShape(start, intents),
           NEW k \in DOMAIN intents
    PROVE  /\ ParentOf(intents, k) \subseteq DOMAIN intents
           /\ \A j \in ParentOf(intents, k) : Opens(start, intents, j, k)
           /\ intents[k].child <=> ParentOf(intents, k) # {}
           /\ \A j \in DOMAIN intents : Opens(start, intents, j, k) <=> j \in ParentOf(intents, k)
<1>1. /\ \A j \in DOMAIN intents : intents[j].instrument = intents[k].instrument =>
           j = k \/ Opens(start, intents, j, k) \/ Opens(start, intents, k, j)
      /\ intents[k].child => \E j \in DOMAIN intents : Opens(start, intents, j, k)
      /\ intents[k].reduce_only => ~ intents[k].child
  BY DEF PlanShape, OrderFits
<1>2. \A j : j \in ParentOf(intents, k) <=>
             /\ j \in DOMAIN intents
             /\ intents[k].child
             /\ intents[j].reduce_only
             /\ intents[j].instrument = intents[k].instrument
  BY DEF ParentOf
<1>3. \A j \in DOMAIN intents : Opens(start, intents, j, k) => j \in ParentOf(intents, k)
  BY <1>2 DEF Opens
<1>4. \A j \in ParentOf(intents, k) : Opens(start, intents, j, k)
  <2> TAKE j \in ParentOf(intents, k)
  <2>1. /\ j \in DOMAIN intents /\ intents[k].child /\ intents[j].reduce_only
        /\ intents[j].instrument = intents[k].instrument
    BY <1>2
  <2>2. j # k /\ ~ Opens(start, intents, k, j)
    BY <1>1, <2>1 DEF Opens
  <2> QED BY <1>1, <2>1, <2>2
<1> QED BY <1>1, <1>2, <1>3, <1>4
=============================================================================
