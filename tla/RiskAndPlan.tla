---------------------------- MODULE RiskAndPlan ----------------------------
(***************************************************************************)
(* Pre-trade risk (portfolio/risk.py) and the planner                      *)
(* (execution/planner.py), as operators over books.                        *)
(*                                                                         *)
(* A book gives every instrument its signed value in hundredths of the     *)
(* currency, so that a target weight of w percent of an equity E is worth  *)
(* w * E and a position of q lots at price p is worth 100 * q * p.  The    *)
(* code computes with decimals; here a quotient is cut towards zero to a   *)
(* whole hundredth or a whole lot.                                         *)
(***************************************************************************)
EXTENDS Integers, FiniteSetsExt, Selections

CONSTANTS
    PlanOrder,      \* the instruments in the order (market_type, instrument)
    Perps,          \* the perpetuals among them; the others are spot
    GrossCap,       \* percent of equity
    MarginDivisor,  \* a perpetual binds one part in so many of its value
    Reserve         \* percent of equity that is never invested

Instruments == Range(PlanOrder)

Spots == Instruments \ Perps

\* "perpetual" sorts before "spot".
ASSUME PlanOrderAssumption ==
    /\ PlanOrder \in Seq(Instruments)
    /\ Perps \subseteq Instruments
    /\ \A i, j \in DOMAIN PlanOrder :
        /\ PlanOrder[i] = PlanOrder[j] => i = j
        /\ PlanOrder[i] \in Spots /\ PlanOrder[j] \in Perps => j < i

ASSUME RiskLimitsAssumption ==
    /\ GrossCap \in Nat \ {0}
    /\ MarginDivisor \in Nat \ {0}
    /\ Reserve \in 0..99

Abs(x) == IF x < 0 THEN -x ELSE x

\* a \div b cut towards zero, for a positive b.
Quotient(a, b) == IF a < 0 THEN -((-a) \div b) ELSE a \div b

GrossOf(book, S) == SumFunction([i \in S |-> Abs(book[i])])

Gross(book) == GrossOf(book, Instruments)

ScaleBook(book, numerator, denominator) ==
    [i \in Instruments |-> Quotient(book[i] * numerator, denominator)]

(***************************************************************************)
(* Pre-trade risk                                                          *)
(***************************************************************************)

\* Without sound data a position may shrink or close, and a flip is a close.
BlockRiskIncrease(requested, held) ==
    [i \in Instruments |->
        IF requested[i] * held[i] <= 0 THEN 0
        ELSE IF Abs(requested[i]) <= Abs(held[i]) THEN requested[i]
        ELSE held[i]]

\* Slip: the gross is taken of the signed values.
CapGross_Net(book, equity) ==
    LET net == SumFunction(book)
    IN  IF net > GrossCap * equity
        THEN ScaleBook(book, GrossCap * equity, net)
        ELSE book

CapGross(book, equity) ==
    IF Gross(book) > GrossCap * equity
    THEN ScaleBook(book, GrossCap * equity, Gross(book))
    ELSE book

\* What a book binds, times MarginDivisor so that it is a whole number.
Requirement(book) ==
    MarginDivisor * GrossOf(book, Spots) + GrossOf(book, Perps)

Budget(equity) == MarginDivisor * (100 - Reserve) * equity

FitCollateral(book, equity) ==
    IF Requirement(book) > Budget(equity)
    THEN ScaleBook(book, Budget(equity), Requirement(book))
    ELSE book

\* The book apply_pretrade_risk lets through.
Constrain(requested, held, permitted, equity) ==
    LET selected == IF permitted THEN requested ELSE BlockRiskIncrease(requested, held)
    IN  FitCollateral(CapGross(selected, equity), equity)

\* What apply_pretrade_risk refuses to let out without sound data.
ContainsRiskIncrease(book, held) ==
    \E i \in Instruments :
        book[i] * held[i] < 0 \/ Abs(book[i]) > Abs(held[i])

(***************************************************************************)
(* The planner.  A signed quantity is bought when positive, sold when      *)
(* negative.                                                               *)
(***************************************************************************)
TargetQuantity(value, price) == Quotient(value, 100 * price)

\* A sign flip is a close followed by an open.
Flips(current, target) == current * target < 0

Reduction(current, target) ==
    IF Flips(current, target) THEN -current
    ELSE IF Abs(target) >= Abs(current) THEN 0
    ELSE target - current

Increase(current, target) ==
    IF Flips(current, target) THEN target
    ELSE IF Abs(target) <= Abs(current) THEN 0
    ELSE target - current

IntentsOf(legs, reduceOnly, children) ==
    LET legged == Selection(PlanOrder, { j \in DOMAIN PlanOrder : legs[PlanOrder[j]] # 0 })
    IN  [k \in DOMAIN legged |->
            [ instrument  |-> legged[k],
              delta       |-> legs[legged[k]],
              reduce_only |-> reduceOnly,
              child       |-> legged[k] \in children ]]

\* Slip: the intents are sorted by instrument alone.
PlanIntents_IncreasesFirst(current, target) ==
    LET flipped == { i \in Instruments : Flips(current[i], target[i]) }
    IN  IntentsOf([i \in Instruments |-> Increase(current[i], target[i])], FALSE, flipped)
        \o IntentsOf([i \in Instruments |-> Reduction(current[i], target[i])], TRUE, {})

\* Every reduction comes before every increase.
PlanIntents(current, target) ==
    LET flipped == { i \in Instruments : Flips(current[i], target[i]) }
    IN  IntentsOf([i \in Instruments |-> Reduction(current[i], target[i])], TRUE, {})
        \o IntentsOf([i \in Instruments |-> Increase(current[i], target[i])], FALSE, flipped)

\* The intents of an instrument.
LegsOf(intents, i) == { k \in DOMAIN intents : intents[k].instrument = i }

\* The parent of an opening leg: the close of the same perpetual.
ParentOf(intents, k) ==
    { j \in DOMAIN intents : /\ intents[k].child
                             /\ intents[j].reduce_only
                             /\ intents[j].instrument = intents[k].instrument }
=============================================================================
