------------------------- MODULE PaperBrokerProofs --------------------------
(***************************************************************************)
(* Why the paper broker never loses track of an account, proved for every  *)
(* set of markets, every limit and every quote the assumptions allow.      *)
(*                                                                         *)
(* The inductive invariant BrokerInv says of the plan that it is of the    *)
(* shape the planner gives it and inside the budget; of the account that   *)
(* its events explain it and that its progress explains its positions; and *)
(* of a running call that what it still has to do is where the copy it     *)
(* works on is, that what it takes for filled is filled, and that position *)
(* moved and liquidity left add up to no more than the quote had.          *)
(*                                                                         *)
(* From it follow the safety properties of the runs, and that the account  *)
(* that stands implements OrderBook.                                       *)
(***************************************************************************)
EXTENDS PaperBroker, RiskAndPlanProofs

-----------------------------------------------------------------------------
(***************************************************************************)
(* The inductive invariant                                                 *)
(***************************************************************************)

\* Events and accounts as the code builds them.
Sources == { NoQuote } \cup { quotes[i] : quotes \in QuoteBooks, i \in Instruments }

\* How the broker reports what became of an intent.
Statuses == {"filled", "partial", "rejected", "expired"}

\* Fill events as _execute_intent builds them.
FillEvents ==
    [plan : Nat, intent : Nat, instrument : Instruments, time : Int, status : Statuses,
     delta : Int, price : Nat, source : Sources]

\* Accounts as the code builds them.
Accounts ==
    [cash : Nat, position : Books, entry : Books, realized : Int, funding : Int,
     fees : Nat, equity : Nat \ {0}, as_of : Nat, plan : Nat, filled : Seq(Nat),
     applied : SUBSET (FillEvents \cup FundingEvents)]

\* An entry value has the sign of its position.
EntryFits(held, entry) ==
    (held > 0 => entry >= 0) /\ (held < 0 => entry <= 0) /\ (held = 0 => entry = 0)

\* The lots of an instrument that fills add up to.
NetOf(F, i) == SumFunction([e \in { e \in F : e.instrument = i } |-> e.delta])

\* The fees of fills.
FeesOf(F) == SumFunction([e \in F |-> Fee(e)])

\* What fills have paid for spot.
SpentOf(F) ==
    SumFunction([e \in { e \in F : e.instrument \in Spots } |-> e.delta * e.price])

\* The accounting identity of one account.
Explained(a) ==
    /\ \A i \in Instruments : a.position[i] = NetOf(Fills(a), i)
    /\ a.fees = FeesOf(Fills(a))
    /\ a.cash = StartingCash + a.realized + a.funding - a.fees - SpentOf(Fills(a))

\* An account by itself.
AccountSound(a) ==
    /\ a \in Accounts
    /\ IsFiniteSet(a.applied)
    /\ \A i \in Instruments : EntryFits(a.position[i], a.entry[i])
    /\ \A i \in Spots : a.position[i] >= 0 /\ a.entry[i] = 0
    /\ Explained(a)
    /\ \A e \in Fills(a) : e.plan <= a.plan

\* An account that works on the orders of a plan: its positions are where the
\* progress has brought them, an opening leg waits for its close, and what was
\* reported as filled is filled.
OnPlan(a, p) ==
    /\ DOMAIN a.filled = DOMAIN p.intents
    /\ \A k \in DOMAIN p.intents :
        /\ a.filled[k] <= Abs(p.intents[k].delta)
        /\ a.filled[k] > 0 => \A j \in ParentOf(p.intents, k) :
                                a.filled[j] = Abs(p.intents[j].delta)
    /\ \A i \in Instruments :
        a.position[i] = p.start.position[i]
            + SumFunction([k \in LegsOf(p.intents, i) |->
                IF p.intents[k].delta > 0 THEN a.filled[k] ELSE -a.filled[k]])
    /\ \A e \in Fills(a) : e.plan = p.id /\ e.status = "filled" =>
         e.intent \in DOMAIN p.intents /\ a.filled[e.intent] = Abs(p.intents[e.intent].delta)

\* An account and the plan of the last cycle.
AccountFits(a, p) ==
    /\ AccountSound(a)
    /\ a.plan <= p.id
    /\ a.plan = p.id => OnPlan(a, p)
    /\ a.plan # p.id => a.position = p.start.position

\* Executed in full the plan keeps the gross cap and the reserve.
WithinBudget(p) ==
    LET book == [i \in Instruments |-> 100 * Projected(p)[i] * p.prices[i]]
    IN  /\ Gross(book) <= GrossCap * p.start.equity
        /\ Requirement(book) <= Budget(p.start.equity)

\* Plans as build_execution_plan makes them.
Plans ==
    [id : Nat, created : Nat, intents : Seq(Orders), start : Accounts,
     prices : [Instruments -> Nat \ {0}], data : DataStates, calls : Nat]

\* A plan by itself: started from a sound account, of the shape the planner
\* gives it, inside the budget.
PlanSound(p) ==
    /\ p \in Plans
    /\ AccountSound(p.start)
    /\ p.id <= MaxCycles /\ p.calls <= MaxCalls
    /\ p.id # NoPlan => p.prices \in PriceBooks
    /\ PlanShape(p.start.position, p.intents)
    /\ WithinBudget(p)

\* A call to execute_paper_plan.
Calls ==
    [working : Accounts, quotes : QuoteBooks, liquidity : [Instruments -> Nat],
     progress : Seq(Nat), latest : Nat, next : Nat]

\* How far a call has come: what it still has to do is where the account is,
\* and a leg it takes for filled is filled.
CallSound(c, p, a) ==
    /\ c \in Calls
    /\ p.id # NoPlan
    /\ AccountFits(c.working, p) /\ c.working.plan = p.id
    /\ c.next \in 1..(Len(p.intents) + 1)
    /\ DOMAIN c.progress = DOMAIN p.intents
    /\ \A k \in DOMAIN p.intents :
        /\ c.working.filled[k] <= c.progress[k]
        /\ c.progress[k] <= Abs(p.intents[k].delta)
        /\ k >= c.next => c.progress[k] = c.working.filled[k]
        /\ c.progress[k] = Abs(p.intents[k].delta) => c.working.filled[k] = c.progress[k]
        /\ a.plan = p.id => a.filled[k] <= c.working.filled[k]
    /\ \A i \in Instruments :
        Abs(c.working.position[i] - a.position[i]) + c.liquidity[i] <= Capacity(c.quotes[i])

\* The inductive invariant: a sound plan, an account that fits it, and a call
\* that has not lost track of either.
BrokerInv ==
    /\ PlanSound(plan)
    /\ AccountFits(account, plan)
    /\ call # NoCall => CallSound(call, plan, account)
    /\ GuardsNeverGoOff

-----------------------------------------------------------------------------
(***************************************************************************)
(* Plans, and beginning a call                                             *)
(***************************************************************************)

\* The plan of a cycle, whatever the strategy asks for.
LEMMA BuildPlanFacts ==
    ASSUME PlanSound(plan), plan.id < MaxCycles, NEW a, AccountSound(a),
           NEW weights \in TargetBooks, NEW prices \in PriceBooks, NEW data \in DataStates,
           NEW p, p = BuildPlan(a, weights, prices, data)
    PROVE  /\ PlanSound(p)
           /\ p.id = plan.id + 1 /\ p.start = a
           /\ ~ EscapedRisk(p, RiskDecision(a, weights, prices, data))
<1> DEFINE requested == Requested(a, weights)
           held == Held(a, prices)
           targets == RiskDecision(a, weights, prices, data)
           lots == [i \in Instruments |-> TargetQuantity(targets[i], prices[i])]
           intents == PlanIntents(a.position, lots)
<1>1. /\ a \in Accounts /\ a.position \in Books /\ a.equity \in Nat \ {0}
      /\ \A i \in Spots : a.position[i] >= 0
      /\ weights \in Books /\ \A i \in Spots : weights[i] >= 0
      /\ prices \in [Instruments -> Nat \ {0}]
      /\ data.permitted \in BOOLEAN
  <2>1. \A i \in Spots : i \in Instruments
    BY DEF Spots
  <2>2. data \in [permitted : BOOLEAN, stale : BOOLEAN]
    BY BrokerAssumption
  <2> QED BY <2>1, <2>2, BrokerAssumption DEF AccountSound, Accounts, Books
<1>2. /\ requested \in Books /\ held \in Books
      /\ \A i \in Instruments :
           /\ requested[i] = weights[i] * a.equity
           /\ held[i] = 100 * a.position[i] * prices[i]
           /\ a.position[i] \in Int /\ prices[i] \in Nat \ {0}
           /\ a.position[i] >= 0 => held[i] >= 0
           /\ a.position[i] <= 0 => held[i] <= 0
  <2>1. \A i \in Instruments :
           /\ requested[i] = weights[i] * a.equity
           /\ held[i] = 100 * a.position[i] * prices[i]
    BY DEF Requested, Held
  <2>2. \A i \in Instruments : weights[i] \in Int /\ a.position[i] \in Int /\ prices[i] \in Nat \ {0}
    BY <1>1 DEF Books
  <2> HIDE DEF requested, held
  <2>3. \A i \in Instruments : requested[i] \in Int
    BY <1>1, <2>1, <2>2
  <2>4. \A i \in Instruments :
           /\ held[i] \in Int
           /\ a.position[i] >= 0 => held[i] >= 0
           /\ a.position[i] <= 0 => held[i] <= 0
    <3> TAKE i \in Instruments
    <3> DEFINE c == a.position[i]
               price == prices[i]
    <3>1. c \in Int /\ price \in Nat \ {0}
      BY <2>2
    <3>2. held[i] = 100 * c * price
      BY <2>1
    <3> HIDE DEF c, price
    <3>3. 100 * c * price \in Int /\ (c >= 0 => 100 * c * price >= 0)
          /\ (c <= 0 => 100 * c * price <= 0)
      BY <3>1, WorthFacts
    <3> QED BY <3>2, <3>3 DEF c
  <2>5. requested \in Books /\ held \in Books
    BY <2>3, <2>4 DEF Books, requested, held, Requested, Held
  <2> QED BY <2>1, <2>2, <2>4, <2>5
<1>3. \A i \in Spots : i \in Instruments /\ requested[i] >= 0 /\ held[i] >= 0
  <2> TAKE i \in Spots
  <2>1. i \in Instruments
    BY DEF Spots
  <2>2. weights[i] >= 0 /\ weights[i] \in Int
    BY <1>1, <2>1 DEF Books
  <2>3. weights[i] * a.equity >= 0
    <3> DEFINE x == weights[i]
               y == a.equity
    <3>1. x \in Nat /\ y \in Nat
      BY <1>1, <2>2
    <3> HIDE DEF x, y
    <3>2. x * y >= 0
      BY <3>1
    <3> QED BY <3>2 DEF x, y
  <2> HIDE DEF requested, held
  <2> QED BY <1>1, <1>2, <2>1, <2>3
<1> HIDE DEF requested, held
<1>4. /\ targets \in Books
      /\ Gross(targets) <= GrossCap * a.equity
      /\ Requirement(targets) <= Budget(a.equity)
      /\ ~ data.permitted => Shrunk(targets, held)
      /\ \A i \in Instruments : requested[i] >= 0 /\ held[i] >= 0 => targets[i] >= 0
  <2>1. targets = Constrain(requested, held, data.permitted, a.equity)
    BY DEF RiskDecision, requested, held
  <2> HIDE DEF targets
  <2> QED BY <1>1, <1>2, <2>1, RiskKeepsTheLimits
<1> HIDE DEF targets
<1>5. \A i \in Instruments :
        /\ targets[i] \in Int
        /\ lots[i] = TargetQuantity(targets[i], prices[i])
        /\ lots[i] \in Int
        /\ targets[i] >= 0 => lots[i] >= 0
        /\ targets[i] <= 0 => lots[i] <= 0
        /\ Abs(100 * lots[i] * prices[i]) <= Abs(targets[i])
        /\ 100 * lots[i] * prices[i] \in Int
        /\ lots[i] >= 0 => 100 * lots[i] * prices[i] >= 0
        /\ lots[i] <= 0 => 100 * lots[i] * prices[i] <= 0
  <2> TAKE i \in Instruments
  <2>1. targets[i] \in Int
    BY <1>4 DEF Books
  <2>2. lots[i] = TargetQuantity(targets[i], prices[i])
    OBVIOUS
  <2> DEFINE v == targets[i]
             c == prices[i]
             l == lots[i]
  <2>3. v \in Int /\ c \in Nat \ {0}
    BY <1>2, <2>1
  <2>5. l = TargetQuantity(v, c)
    BY <2>2
  <2> HIDE DEF lots, v, c, l
  <2>4. WorthAtMost(l, c, v)
    BY <2>3, <2>5, TargetFacts
  <2> QED BY <2>3, <2>4, <2>5 DEF v, c, l, WorthAtMost
<1>6. lots \in Books /\ \A i \in Spots : a.position[i] >= 0 /\ lots[i] >= 0
  <2>1. lots \in Books
    BY <1>5 DEF Books
  <2> HIDE DEF lots
  <2> QED BY <1>1, <1>3, <1>4, <1>5, <2>1
<1> HIDE DEF lots
<1>7. /\ PlanShape(a.position, intents)
      /\ \A k \in DOMAIN intents : ~ intents[k].reduce_only =>
           Increase(a.position[intents[k].instrument], lots[intents[k].instrument]) # 0
      /\ \A i \in Instruments :
           a.position[i] + SumFunction([k \in LegsOf(intents, i) |-> intents[k].delta]) = lots[i]
  BY <1>1, <1>6, PlanLeadsToTheTarget
<1> HIDE DEF intents
<1>8. p = [ id |-> plan.id + 1, created |-> plan.created + CyclePeriod, intents |-> intents,
            start |-> a, prices |-> prices, data |-> data, calls |-> 1 ]
  BY DEF BuildPlan, intents, lots, targets
<1>9. p \in Plans /\ p.id <= MaxCycles /\ p.calls <= MaxCalls
  <2>1. plan.id \in Nat /\ plan.created \in Nat
    BY DEF PlanSound, Plans
  <2>2. CyclePeriod \in Nat /\ MaxCycles \in Nat /\ MaxCalls \in Nat \ {0}
    BY BrokerAssumption
  <2>3. intents \in Seq(Orders)
    BY <1>7 DEF PlanShape
  <2>4. plan.id + 1 \in Nat /\ plan.created + CyclePeriod \in Nat /\ plan.id + 1 <= MaxCycles
        /\ 1 <= MaxCalls
    BY <2>1, <2>2
  <2> QED BY <1>1, <1>8, <2>3, <2>4 DEF Plans
<1>10. WithinBudget(p)
  <2> DEFINE book == [i \in Instruments |-> 100 * Projected(p)[i] * p.prices[i]]
  <2>1. \A i \in Instruments : Projected(p)[i] = lots[i]
    BY <1>7, <1>8 DEF Projected
  <2>2. \A i \in Instruments : book[i] = 100 * lots[i] * prices[i]
    BY <1>8, <2>1
  <2>3. \A i \in Instruments :
          /\ book[i] \in Int
          /\ Abs(book[i]) <= Abs(targets[i])
          /\ targets[i] >= 0 => book[i] >= 0
          /\ targets[i] <= 0 => book[i] <= 0
    <3> HIDE DEF book
    <3> QED BY <1>5, <2>2
  <2>4. book \in Books
    BY <2>3 DEF Books
  <2> HIDE DEF book
  <2>5. Shrunk(book, targets)
    BY <2>3 DEF Shrunk
  <2>6. Gross(book) <= Gross(targets) /\ Requirement(book) <= Requirement(targets)
    BY <1>4, <2>4, <2>5, ShrunkFacts, RequirementFacts
  <2>7. /\ Gross(book) \in Nat /\ Gross(targets) \in Nat
        /\ Requirement(book) \in Nat /\ Requirement(targets) \in Nat
        /\ GrossCap * a.equity \in Nat /\ Budget(a.equity) \in Nat
    BY <1>1, <1>4, <2>4, GrossOfFacts, RequirementFacts, BudgetIsNat, RiskLimitsAssumption DEF Gross
  <2>8. Gross(book) <= GrossCap * a.equity /\ Requirement(book) <= Budget(a.equity)
    <3> DEFINE x == GrossCap * a.equity
    <3> HIDE DEF x
    <3> QED BY <1>4, <2>6, <2>7 DEF x
  <2>9. p.start = a
    BY <1>8
  <2> QED BY <2>8, <2>9 DEF WithinBudget, book
<1>11. ~ EscapedRisk(p, targets)
  <2> SUFFICES ASSUME ~ data.permitted
      PROVE  /\ ~ ContainsRiskIncrease(targets, held)
             /\ \A k \in DOMAIN intents : intents[k].reduce_only
    BY <1>8 DEF EscapedRisk, held
  <2>1. \A i \in Instruments :
          /\ targets[i] \in Int /\ held[i] \in Int
          /\ Abs(targets[i]) <= Abs(held[i])
          /\ held[i] >= 0 => targets[i] >= 0
          /\ held[i] <= 0 => targets[i] <= 0
    BY <1>2, <1>4, <1>5 DEF Shrunk, Books
  <2>2. ~ ContainsRiskIncrease(targets, held)
    <3> SUFFICES ASSUME NEW i \in Instruments
        PROVE ~ (targets[i] * held[i] < 0) /\ ~ (Abs(targets[i]) > Abs(held[i]))
      BY DEF ContainsRiskIncrease
    <3> DEFINE x == targets[i]
               y == held[i]
    <3>1. x \in Int /\ y \in Int /\ ((x >= 0 /\ y >= 0) \/ (x <= 0 /\ y <= 0))
      BY <2>1
    <3>2. ~ (Abs(x) > Abs(y))
      BY <2>1 DEF Abs
    <3> HIDE DEF x, y
    <3>3. x * y >= 0
      <4>1. CASE x >= 0 /\ y >= 0
        BY <3>1, <4>1
      <4>2. CASE x <= 0 /\ y <= 0
        <5>1. (-x) * (-y) >= 0 /\ (-x) * (-y) = x * y
          BY <3>1, <4>2
        <5> QED BY <5>1
      <4> QED BY <3>1, <4>1, <4>2
    <3>4. ~ (x * y < 0)
      BY <3>1, <3>3
    <3> QED BY <3>2, <3>4 DEF x, y
  <2>3. ASSUME NEW k \in DOMAIN intents, ~ intents[k].reduce_only
        PROVE  FALSE
    <3> DEFINE i == intents[k].instrument
               c == a.position[i]
               t == lots[i]
    <3>1. i \in Instruments /\ Increase(c, t) # 0
      <4>1. intents[k] \in Orders
        BY <1>7 DEF PlanShape
      <4> QED BY <1>7, <2>3, <4>1 DEF Orders
    <3> HIDE DEF i
    <3>2. /\ c \in Int /\ t \in Int
          /\ Abs(t) <= Abs(c)
          /\ c >= 0 => t >= 0
          /\ c <= 0 => t <= 0
      <4>1. c \in Int /\ t \in Int /\ t = TargetQuantity(targets[i], prices[i])
        BY <1>2, <1>5, <3>1
      <4>2. /\ Abs(targets[i]) <= Abs(held[i]) /\ held[i] = 100 * c * prices[i]
            /\ targets[i] \in Int /\ prices[i] \in Nat \ {0}
        BY <1>2, <2>1, <3>1
      <4>3. Abs(t) <= Abs(c)
        <5> HIDE DEF c, t
        <5> QED BY <4>1, <4>2, WorthFacts
      <4>4. (c >= 0 => t >= 0) /\ (c <= 0 => t <= 0)
        BY <1>2, <1>5, <2>1, <3>1
      <4> QED BY <4>1, <4>3, <4>4
    <3> HIDE DEF c, t
    <3>3. ~ Flips(c, t)
      <4>1. Flips(c, t) => (c > 0 /\ t < 0) \/ (c < 0 /\ t > 0)
        BY <3>2, LegArithmetic
      <4> QED BY <3>2, <4>1
    <3> QED BY <3>1, <3>2, <3>3 DEF Increase
  <2> QED BY <2>2, <2>3
<1>12. p.id # NoPlan => p.prices \in PriceBooks
  BY <1>8
<1>13. PlanShape(p.start.position, p.intents)
  BY <1>7, <1>8
<1> QED BY <1>8, <1>9, <1>10, <1>11, <1>12, <1>13 DEF PlanSound, targets

\* The identity of an account speaks of its money, positions and events only.
LEMMA ExplainedDependsOn ==
    ASSUME NEW a, NEW b, Explained(a),
           b.position = a.position, b.fees = a.fees, b.cash = a.cash,
           b.realized = a.realized, b.funding = a.funding, b.applied = a.applied
    PROVE  Explained(b) /\ Fills(b) = Fills(a)
<1>1. Fills(b) = Fills(a)
  BY DEF Fills
<1> QED BY <1>1 DEF Explained

\* The usable part of a quote's liquidity is a natural number.
LEMMA CapacityFacts ==
    ASSUME NEW quotes \in QuoteBooks, NEW i \in Instruments
    PROVE  Capacity(quotes[i]) \in Nat
<1>1. quotes[i] # NoQuote => quotes[i].available \in Nat
  BY BrokerAssumption
<1>2. ParticipationDivisor \in Nat \ {0}
  BY BrokerAssumption
<1>3. CASE quotes[i] = NoQuote
  BY <1>3 DEF Capacity
<1>4. CASE quotes[i] # NoQuote
  <2>1. quotes[i].available \div ParticipationDivisor \in Nat
    BY <1>1, <1>2, <1>4, FloorFacts
  <2> QED BY <1>4, <2>1 DEF Capacity
<1> QED BY <1>3, <1>4

\* What the parts of a sound plan are.
LEMMA PlanParts ==
    ASSUME NEW p, PlanSound(p)
    PROVE  /\ p.id \in Nat /\ p.created \in Nat /\ p.calls \in Nat
           /\ p.start \in Accounts /\ p.start.position \in Books
           /\ p.prices \in [Instruments -> Nat \ {0}]
           /\ p.intents \in Seq(Orders)
           /\ DOMAIN p.intents = 1..Len(p.intents) /\ Len(p.intents) \in Nat
           /\ \A k \in DOMAIN p.intents :
                /\ p.intents[k] \in Orders
                /\ p.intents[k].instrument \in Instruments
                /\ p.intents[k].delta \in Int /\ p.intents[k].delta # 0
                /\ Abs(p.intents[k].delta) \in Nat \ {0}
<1>1. p \in Plans /\ PlanShape(p.start.position, p.intents)
  BY DEF PlanSound
<1>2. /\ p.id \in Nat /\ p.created \in Nat /\ p.calls \in Nat
      /\ p.start \in Accounts
      /\ p.prices \in [Instruments -> Nat \ {0}]
      /\ p.intents \in Seq(Orders)
  BY <1>1 DEF Plans
<1>3. p.start.position \in Books
  BY <1>2 DEF Accounts
<1>4. DOMAIN p.intents = 1..Len(p.intents) /\ Len(p.intents) \in Nat
  BY <1>2
<1>5. \A k \in DOMAIN p.intents :
                /\ p.intents[k] \in Orders
                /\ p.intents[k].instrument \in Instruments
                /\ p.intents[k].delta \in Int /\ p.intents[k].delta # 0
                /\ Abs(p.intents[k].delta) \in Nat \ {0}
  <2> TAKE k \in DOMAIN p.intents
  <2>1. p.intents[k] \in Orders
    BY <1>2, <1>4
  <2>2. OrderFits(p.start.position[p.intents[k].instrument], p.intents[k])
    BY <1>1 DEF PlanShape
  <2>3. p.intents[k].instrument \in Instruments /\ p.intents[k].delta \in Int
        /\ p.intents[k].reduce_only \in BOOLEAN /\ p.intents[k].child \in BOOLEAN
    BY <2>1 DEF Orders
  <2>4. p.intents[k].delta # 0
    BY <2>2, <2>3 DEF OrderFits, Closes, Extends
  <2> QED BY <2>1, <2>3, <2>4 DEF Abs
<1> QED BY <1>2, <1>3, <1>4, <1>5

\* Taking a plan to work, or going on with it.
LEMMA ActivateFacts ==
    ASSUME NEW p, PlanSound(p), NEW a, AccountFits(a, p),
           NEW b, b = Activate(a, p)
    PROVE  /\ AccountFits(b, p) /\ b.plan = p.id /\ b.position = a.position
           /\ a.plan = p.id => b = a
           /\ a.plan # p.id => \A k \in DOMAIN p.intents : b.filled[k] = 0
<1>1. CASE a.plan = p.id
  BY <1>1 DEF Activate
<1>2. CASE a.plan # p.id
  <2> DEFINE t == Max({a.as_of, p.created})
             none == [k \in DOMAIN p.intents |-> 0]
  <2>1. a \in Accounts /\ AccountSound(a) /\ a.plan <= p.id /\ a.position = p.start.position
    BY <1>2 DEF AccountFits, AccountSound
  <2>2. t \in Nat
    <3> DEFINE x == a.as_of
               y == p.created
    <3>1. x \in Nat /\ y \in Nat
      BY <2>1, PlanParts DEF Accounts
    <3> HIDE DEF x, y
    <3>2. Max({x, y}) \in {x, y}
      <4>1. x \in Int /\ y \in Int
        BY <3>1
      <4> QED BY <4>1, MaxOfTwo, Zenon
    <3> QED BY <3>1, <3>2 DEF t, x, y
  <2>3. none \in Seq(Nat) /\ DOMAIN none = DOMAIN p.intents
        /\ \A k \in DOMAIN p.intents : none[k] = 0
    BY PlanParts
  <2>4. b = [a EXCEPT !.as_of = t, !.plan = p.id, !.filled = none]
    BY <1>2 DEF Activate
  <2> HIDE DEF t, none
  <2>5. /\ b \in Accounts /\ b.plan = p.id /\ b.filled = none
        /\ b.position = a.position /\ b.entry = a.entry /\ b.fees = a.fees /\ b.cash = a.cash
        /\ b.realized = a.realized /\ b.funding = a.funding /\ b.applied = a.applied
    <3>1. p.id \in Nat
      BY PlanParts
    <3> QED BY <2>1, <2>2, <2>3, <2>4, <3>1 DEF Accounts
  <2>6. Explained(b) /\ Fills(b) = Fills(a)
    BY <2>1, <2>5, ExplainedDependsOn DEF AccountSound
  <2>7. \A e \in Fills(b) : e.plan <= a.plan /\ e.plan \in Nat
    <3>1. \A e \in Fills(a) : e.plan <= a.plan
      BY <2>1 DEF AccountSound
    <3>2. \A e \in Fills(a) : e \in FillEvents
      <4> TAKE e \in Fills(a)
      <4>1. e \in FillEvents \cup FundingEvents /\ "intent" \in DOMAIN e
        BY <2>1 DEF Fills, Accounts
      <4>2. \A f \in FundingEvents : "intent" \notin DOMAIN f
        BY BrokerAssumption
      <4> QED BY <4>1, <4>2
    <3> QED BY <2>6, <3>1, <3>2 DEF FillEvents
  <2>8. a.plan \in Nat /\ p.id \in Nat /\ a.plan < p.id
    <3>1. a.plan \in Nat
      BY <2>1 DEF Accounts
    <3>2. p.id \in Nat
      BY PlanParts
    <3> QED BY <1>2, <2>1, <3>1, <3>2
  <2>9. AccountSound(b)
    <3>1. \A e \in Fills(b) : e.plan <= b.plan
      BY <2>5, <2>7, <2>8
    <3>2. \A i \in Instruments : b.position[i] = a.position[i] /\ b.entry[i] = a.entry[i]
      BY <2>5
    <3>3. /\ IsFiniteSet(b.applied)
          /\ \A i \in Instruments : EntryFits(b.position[i], b.entry[i])
          /\ \A i \in Spots : b.position[i] >= 0 /\ b.entry[i] = 0
      BY <2>1, <2>5 DEF AccountSound
    <3> QED BY <2>5, <2>6, <3>1, <3>3 DEF AccountSound
  <2>10. OnPlan(b, p)
    <3>1. DOMAIN b.filled = DOMAIN p.intents /\ \A k \in DOMAIN p.intents : b.filled[k] = 0
      BY <2>3, <2>5
    <3>2. \A k \in DOMAIN p.intents : b.filled[k] <= Abs(p.intents[k].delta) /\ ~ b.filled[k] > 0
      BY <3>1, PlanParts
    <3>3. \A e \in Fills(b) : e.plan # p.id
      BY <2>7, <2>8
    <3>4. \A i \in Instruments :
            b.position[i] = p.start.position[i]
              + SumFunction([k \in LegsOf(p.intents, i) |->
                  IF p.intents[k].delta > 0 THEN b.filled[k] ELSE -b.filled[k]])
      <4> TAKE i \in Instruments
      <4> DEFINE L == LegsOf(p.intents, i)
                 f == [k \in L |-> IF p.intents[k].delta > 0 THEN b.filled[k] ELSE -b.filled[k]]
      <4>1. p.start.position \in Books /\ PlanShape(p.start.position, p.intents)
        BY PlanParts DEF PlanSound
      <4>2. IsFiniteSet(L) /\ L \subseteq DOMAIN p.intents
        BY <4>1, LegCases
      <4>3. f \in [L -> Int] /\ \A k \in L : f[k] = 0
        <5> HIDE DEF L
        <5> QED BY <3>1, <4>2
      <4> HIDE DEF f, L
      <4>4. SumFunction(f) = 0
        BY <4>2, <4>3, TotalOfZeros
      <4>5. b.position[i] = p.start.position[i] /\ p.start.position[i] \in Int
        BY <2>1, <2>5, <4>1 DEF Books
      <4> QED BY <4>4, <4>5 DEF f, L
    <3> QED BY <3>1, <3>2, <3>3, <3>4 DEF OnPlan
  <2> QED BY <1>2, <2>3, <2>5, <2>8, <2>9, <2>10 DEF AccountFits
<1> QED BY <1>1, <1>2

\* What a call begins with.
LEMMA StartCallFacts ==
    ASSUME NEW p, PlanSound(p), p.id # NoPlan, AccountFits(account, p), call = NoCall,
           NEW quotes \in QuoteBooks, StartCall(p, quotes)
    PROVE  /\ AccountFits(account', p)
           /\ call' # NoCall => CallSound(call', p, account')
           /\ outcome' \in {outcome, "complete"}
<1> DEFINE active == Activate(account, p)
<1>1. /\ AccountFits(active, p) /\ active.plan = p.id /\ active.position = account.position
      /\ account.plan = p.id => active = account
  <2>1. active = Activate(account, p)
    OBVIOUS
  <2> HIDE DEF active
  <2> QED BY <2>1, ActivateFacts
<1> HIDE DEF active
<1>2. CASE PlanComplete(p, active.filled)
  BY <1>1, <1>2 DEF StartCall, active
<1>3. CASE ~ PlanComplete(p, active.filled)
  <2> DEFINE liquidity == [i \in Instruments |-> Capacity(quotes[i])]
             latest == Max({p.created, active.as_of})
  <2>1. /\ call' = [ working |-> active, quotes |-> quotes, liquidity |-> liquidity,
                     progress |-> active.filled, latest |-> latest, next |-> 1 ]
        /\ account' = account /\ outcome' = outcome
    BY <1>3 DEF StartCall, active
  <2>2. active \in Accounts
    BY <1>1 DEF AccountFits, AccountSound
  <2>3. liquidity \in [Instruments -> Nat]
        /\ \A i \in Instruments : liquidity[i] = Capacity(quotes[i])
    BY CapacityFacts
  <2>4. latest \in Nat
    <3> DEFINE x == p.created
               y == active.as_of
    <3>1. x \in Nat /\ y \in Nat
      BY <2>2, PlanParts DEF Accounts
    <3> HIDE DEF x, y
    <3>2. Max({x, y}) \in {x, y}
      <4>1. x \in Int /\ y \in Int
        BY <3>1
      <4> QED BY <4>1, MaxOfTwo, Zenon
    <3> QED BY <3>1, <3>2 DEF latest, x, y
  <2> HIDE DEF liquidity, latest
  <2>5. active.filled \in Seq(Nat) /\ active.position \in Books
    BY <2>2 DEF Accounts
  <2>6. call' \in Calls
    BY <2>1, <2>2, <2>3, <2>4, <2>5 DEF Calls
  <2>7. /\ call'.working = active /\ call'.quotes = quotes /\ call'.liquidity = liquidity
        /\ call'.progress = active.filled /\ call'.next = 1
    BY <2>1
  <2>8. OnPlan(active, p)
    BY <1>1 DEF AccountFits
  <2>9. DOMAIN active.filled = DOMAIN p.intents
        /\ \A k \in DOMAIN p.intents : active.filled[k] <= Abs(p.intents[k].delta)
             /\ active.filled[k] \in Nat
    <3>1. DOMAIN active.filled = DOMAIN p.intents
        /\ \A k \in DOMAIN p.intents : active.filled[k] <= Abs(p.intents[k].delta)
      BY <2>8 DEF OnPlan
    <3> QED BY <2>5, <3>1
  <2>10. \A i \in Instruments :
           Abs(active.position[i] - account.position[i]) + liquidity[i] <= Capacity(quotes[i])
    <3> TAKE i \in Instruments
    <3>1. active.position[i] = account.position[i] /\ active.position[i] \in Int
      BY <1>1, <2>5 DEF Books
    <3>2. liquidity[i] = Capacity(quotes[i]) /\ liquidity[i] \in Nat
      BY <2>3
    <3> QED BY <3>1, <3>2 DEF Abs
  <2>11. 1 \in 1..(Len(p.intents) + 1)
    BY PlanParts
  <2>12. CallSound(call', p, account')
    <3>1. account'.plan = account.plan /\ account'.filled = account.filled
          /\ account'.position = account.position
      BY <2>1
    <3>2. \A k \in DOMAIN p.intents :
            /\ active.filled[k] <= active.filled[k]
            /\ active.filled[k] <= Abs(p.intents[k].delta)
            /\ account'.plan = p.id => account'.filled[k] <= active.filled[k]
      BY <1>1, <2>9, <3>1
    <3> QED BY <1>1, <2>6, <2>7, <2>9, <2>10, <2>11, <3>1, <3>2 DEF CallSound
  <2> QED BY <2>1, <2>12
<1> QED BY <1>2, <1>3

-----------------------------------------------------------------------------
(***************************************************************************)
(* A fill: how many lots, where the position stands, and that the          *)
(* guards of apply_fill_event have nothing to refuse                       *)
(***************************************************************************)

\* What the call, its account and the intent at hand are.
LEMMA CallParts ==
    ASSUME BrokerInv, Working
    PROVE  /\ PlanSound(plan) /\ CallSound(call, plan, account)
           /\ call \in Calls /\ call.working \in Accounts
           /\ AccountSound(call.working) /\ OnPlan(call.working, plan)
           /\ call.working.plan = plan.id /\ plan.id \in Nat \ {0}
           /\ call.next \in DOMAIN plan.intents /\ call.next \in Nat \ {0}
           /\ Intent = plan.intents[call.next] /\ Intent \in Orders
           /\ Intent.instrument \in Instruments
           /\ Intent.delta \in Int /\ Intent.delta # 0
           /\ call.working.position \in Books
           /\ call.working.position[Intent.instrument] \in Int
           /\ call.liquidity[Intent.instrument] \in Nat
           /\ call.quotes \in QuoteBooks
           /\ \A k \in DOMAIN plan.intents :
                call.working.filled[k] \in Nat /\ call.progress[k] \in Nat
<1>1. /\ PlanSound(plan) /\ CallSound(call, plan, account)
      /\ call # NoCall /\ call.next \in DOMAIN plan.intents
  BY DEF BrokerInv, Working
<1>2. /\ call \in Calls /\ AccountFits(call.working, plan) /\ call.working.plan = plan.id
      /\ plan.id # NoPlan /\ DOMAIN call.progress = DOMAIN plan.intents
  BY <1>1 DEF CallSound
<1>3. call.working \in Accounts /\ call.quotes \in QuoteBooks
      /\ call.liquidity \in [Instruments -> Nat] /\ call.progress \in Seq(Nat)
  BY <1>2 DEF Calls
<1>4. AccountSound(call.working) /\ OnPlan(call.working, plan)
  BY <1>2 DEF AccountFits
<1>5. call.working.position \in Books /\ call.working.filled \in Seq(Nat)
  BY <1>3 DEF Accounts
<1>6. plan.id \in Nat \ {0}
  BY <1>1, <1>2, PlanParts DEF NoPlan
<1>7. /\ Intent = plan.intents[call.next] /\ Intent \in Orders
      /\ Intent.instrument \in Instruments
      /\ Intent.delta \in Int /\ Intent.delta # 0
      /\ call.next \in Nat \ {0}
  BY <1>1, PlanParts DEF Intent
<1>8. call.working.position[Intent.instrument] \in Int
  BY <1>5, <1>7 DEF Books
<1>9. \A k \in DOMAIN plan.intents :
        call.working.filled[k] \in Nat /\ call.progress[k] \in Nat
  <2>1. DOMAIN call.working.filled = DOMAIN plan.intents
    BY <1>4 DEF OnPlan
  <2> QED BY <1>2, <1>3, <1>5, <2>1
<1> QED BY <1>1, <1>2, <1>3, <1>4, <1>5, <1>6, <1>7, <1>8, <1>9

\* How many lots are filled, and what the event says of it.
LEMMA FillFacts ==
    ASSUME BrokerInv, Working, Wanted # 0
    PROVE  /\ Wanted \in Nat \ {0}
           /\ call.progress[call.next] = call.working.filled[call.next]
           /\ Abs(Intent.delta) = call.working.filled[call.next] + Wanted
           /\ FilledLots \in Nat /\ FilledLots <= Wanted
           /\ FilledLots <= call.liquidity[Intent.instrument]
           /\ FilledLots > 0 => ~ AwaitsParent
           /\ FilledLots > 0 /\ Intent.reduce_only =>
                FilledLots <= Abs(call.working.position[Intent.instrument])
           /\ FillEvent \in FillEvents
           /\ FillEvent.plan = plan.id /\ FillEvent.intent = call.next
           /\ FillEvent.instrument = Intent.instrument
           /\ FillEvent.delta = IF Intent.delta > 0 THEN FilledLots ELSE -FilledLots
           /\ FillEvent.time = ObservedAt /\ ObservedAt \in Int
           /\ Executed(FillEvent) => FilledLots > 0
           /\ FillEvent.status = "filled" <=> FilledLots = Wanted
<1> DEFINE k == call.next
           i == Intent.instrument
           h == call.working.position[i]
           l == call.liquidity[i]
           x == Executable
<1>1. /\ call.next \in DOMAIN plan.intents /\ i \in Instruments
      /\ h \in Int /\ l \in Nat /\ call.quotes \in QuoteBooks
      /\ Intent = plan.intents[k] /\ Intent.delta \in Int /\ Intent.delta # 0
      /\ call.working.filled[k] \in Nat /\ call.progress[k] \in Nat
      /\ plan.id \in Nat \ {0} /\ k \in Nat \ {0}
      /\ call.working \in Accounts
  BY CallParts
<1>2. call.progress[k] = call.working.filled[k] /\ call.progress[k] <= Abs(Intent.delta)
  <2>1. /\ k >= call.next => call.progress[k] = call.working.filled[k]
        /\ call.progress[k] <= Abs(plan.intents[k].delta)
    BY <1>1, CallParts DEF CallSound
  <2> QED BY <1>1, <2>1
<1>3. Wanted \in Nat \ {0} /\ Abs(Intent.delta) = call.working.filled[k] + Wanted
  <2>1. Wanted = Abs(Intent.delta) - call.progress[k]
    BY DEF Wanted
  <2>2. Abs(Intent.delta) \in Nat
    BY <1>1 DEF Abs
  <2> QED BY <1>1, <1>2, <2>1, <2>2
<1> DEFINE y == Abs(h)
           s == Min({Wanted, l})
<1>4. y \in Nat
  BY <1>1 DEF Abs
<1>5. x = IF Intent.reduce_only THEN Min({s, y}) ELSE s
  BY DEF Executable
<1>6. s \in Int /\ s <= Wanted /\ s <= l
  <2> DEFINE m == Wanted
  <2>1. m \in Nat /\ l \in Nat
    BY <1>1, <1>3
  <2> HIDE DEF l, m
  <2>2. s \in {m, l} /\ s <= m /\ s <= l
    <3>1. m \in Int /\ l \in Int
      BY <2>1
    <3>2. \A a, b \in Int : Min({a, b}) \in {a, b} /\ Min({a, b}) <= a /\ Min({a, b}) <= b
      BY MinOfTwo
    <3>3. s = Min({m, l})
      BY DEF m
    <3> HIDE DEF s
    <3> QED BY <3>1, <3>2, <3>3
  <2>3. s \in Int
    <3> HIDE DEF s
    <3> QED BY <2>1, <2>2
  <2> HIDE DEF s
  <2> QED BY <2>2, <2>3 DEF m
<1> HIDE DEF x, s
<1>7. x \in Int /\ x <= Wanted /\ x <= l /\ (Intent.reduce_only => x <= y)
  <2> HIDE DEF y, l
  <2>1. CASE Intent.reduce_only
    <3>1. Min({s, y}) \in {s, y} /\ Min({s, y}) <= s /\ Min({s, y}) <= y
      BY <1>4, <1>6, MinOfTwo
    <3> QED BY <1>1, <1>3, <1>4, <1>5, <1>6, <2>1, <3>1
  <2>2. CASE ~ Intent.reduce_only
    BY <1>5, <1>6, <2>2
  <2> QED BY <2>1, <2>2
<1>8. /\ FilledLots \in Nat /\ FilledLots <= Wanted /\ FilledLots <= l
      /\ FilledLots > 0 => ~ AwaitsParent /\ Usable
      /\ FilledLots > 0 /\ Intent.reduce_only => FilledLots <= y
  <2>1. CASE ~ AwaitsParent /\ Usable /\ x > 0 /\ SlippageAccepted
    <3>1. FilledLots = x
      BY <2>1 DEF FilledLots, x
    <3> QED BY <1>7, <2>1, <3>1
  <2>2. CASE ~ (~ AwaitsParent /\ Usable /\ x > 0 /\ SlippageAccepted)
    <3>1. FilledLots = 0
      BY <2>2 DEF FilledLots, x
    <3> QED BY <1>1, <1>3, <3>1
  <2> QED BY <2>1, <2>2
<1>9. Quote = call.quotes[i] /\ Quote \in Sources
  BY <1>1 DEF Quote, Sources
<1>10. Quote # NoQuote => /\ Quote.after \in Int /\ Quote.spread \in Nat
                          /\ Quote.spread < plan.prices[i]
  <2>1. plan.prices \in PriceBooks
    BY <1>1, CallParts DEF PlanSound, NoPlan
  <2> QED BY <1>1, <1>9, <2>1, BrokerAssumption
<1>11. plan.prices[i] \in Nat \ {0} /\ plan.created \in Nat
  BY <1>1, CallParts, PlanParts
<1>12. ObservedAt \in Int
  <2>1. call.working.as_of \in Nat
    BY <1>1 DEF Accounts
  <2>2. CASE Quote = NoQuote
    BY <2>1, <2>2 DEF ObservedAt
  <2>3. CASE Quote # NoQuote
    BY <1>10, <1>11, <2>3 DEF ObservedAt
  <2> QED BY <2>2, <2>3
<1>13. FilledLots > 0 => Price \in Nat
  <2> SUFFICES ASSUME FilledLots > 0 PROVE Price \in Nat
    OBVIOUS
  <2>1. Quote # NoQuote
    BY <1>8 DEF Usable
  <2>2. Price = plan.prices[i] + (IF Intent.delta > 0 THEN Quote.spread ELSE -Quote.spread)
    BY DEF Price
  <2> QED BY <1>10, <1>11, <2>1, <2>2
<1> DEFINE late == ~ AwaitsParent /\ Expired
           status == IF late THEN "expired"
                     ELSE IF FilledLots = 0 THEN "rejected"
                     ELSE IF FilledLots = Wanted THEN "filled" ELSE "partial"
           delta == IF Intent.delta > 0 THEN FilledLots ELSE -FilledLots
           price == IF FilledLots = 0 THEN 0 ELSE Price
<1>14. /\ status \in Statuses
       /\ status = "filled" <=> FilledLots = Wanted
       /\ status \in {"filled", "partial"} => FilledLots > 0
  <2>1. FilledLots > 0 => ~ Expired
    <3> SUFFICES ASSUME FilledLots > 0 PROVE ~ Expired
      OBVIOUS
    <3>1. Quote # NoQuote /\ Quote.after \in 0..IntentTTL
      BY <1>8 DEF Usable
    <3>2. IntentTTL \in Nat
      BY BrokerAssumption
    <3> QED BY <3>1, <3>2 DEF Expired
  <2>2. late => ~ FilledLots > 0
    BY <2>1
  <2> HIDE DEF late
  <2>3. CASE FilledLots = 0
    <3>1. status = "expired" \/ status = "rejected"
      BY <2>3
    <3>2. FilledLots # Wanted
      BY <1>3, <2>3
    <3> DEFINE t == status
    <3>3. t = "expired" \/ t = "rejected"
      BY <3>1
    <3> HIDE DEF t
    <3>4. t \in Statuses /\ t # "filled" /\ t # "partial"
      BY <3>3 DEF Statuses
    <3> QED BY <3>2, <3>4 DEF t
  <2>4. CASE FilledLots # 0
    <3>1. FilledLots > 0 /\ ~ late
      BY <1>8, <2>2, <2>4
    <3>2. status = IF FilledLots = Wanted THEN "filled" ELSE "partial"
      BY <2>4, <3>1
    <3> DEFINE t == status
    <3>3. t = IF FilledLots = Wanted THEN "filled" ELSE "partial"
      BY <3>2
    <3> HIDE DEF t
    <3>4. t \in Statuses /\ (t = "filled" <=> FilledLots = Wanted)
      BY <3>3 DEF Statuses
    <3> QED BY <3>1, <3>4 DEF t
  <2> QED BY <2>3, <2>4
<1>15. delta \in Int /\ price \in Nat
  BY <1>8, <1>13
<1>16. FillEvent = [ plan |-> plan.id, intent |-> k, instrument |-> i, time |-> ObservedAt,
                     status |-> status, delta |-> delta, price |-> price, source |-> Quote ]
  BY DEF FillEvent
<1> HIDE DEF status, delta, price, k, i, h, l, y
<1>17. FillEvent \in FillEvents
  <2>1. plan.id \in Nat /\ k \in Nat /\ i \in Instruments
    BY <1>1
  <2> QED BY <1>9, <1>12, <1>14, <1>15, <1>16, <2>1 DEF FillEvents
<1>18. /\ FillEvent.plan = plan.id /\ FillEvent.intent = k /\ FillEvent.instrument = i
       /\ FillEvent.delta = delta /\ FillEvent.time = ObservedAt /\ FillEvent.status = status
  BY <1>16
<1>19. Executed(FillEvent) => FilledLots > 0
  BY <1>14, <1>18 DEF Executed
<1> QED BY <1>2, <1>3, <1>8, <1>12, <1>14, <1>17, <1>18, <1>19 DEF k, i, h, l, y, delta

\* The signed lots an account has filled of an order.
Moved(a, p, k) == IF p.intents[k].delta > 0 THEN a.filled[k] ELSE -a.filled[k]

\* The close that order k waits for is filled completely.
ParentIsFilled(a, p, k) ==
    \A j \in ParentOf(p.intents, k) : a.filled[j] = Abs(p.intents[j].delta)

\* Where the position of an order stands: moved by it alone, until a close is
\* complete, and from nothing for the leg that opens after it.
LEMMA LegPosition ==
    ASSUME NEW p, PlanSound(p), NEW a \in Accounts, OnPlan(a, p),
           NEW k \in DOMAIN p.intents, NEW i, i = p.intents[k].instrument
    PROVE  /\ p.intents[k].reduce_only /\ a.filled[k] < Abs(p.intents[k].delta) =>
                a.position[i] = p.start.position[i] + Moved(a, p, k)
           /\ p.intents[k].child /\ ParentIsFilled(a, p, k) =>
                a.position[i] = Moved(a, p, k)
           /\ ~ p.intents[k].reduce_only /\ ~ p.intents[k].child =>
                a.position[i] = p.start.position[i] + Moved(a, p, k)
<1> DEFINE L == LegsOf(p.intents, i)
           f == [l \in L |-> IF p.intents[l].delta > 0 THEN a.filled[l] ELSE -a.filled[l]]
           c == p.start.position[i]
<1>1. /\ p.start.position \in Books /\ PlanShape(p.start.position, p.intents)
      /\ i \in Instruments /\ c \in Int
  BY PlanParts DEF PlanSound, Books
<1>2. /\ DOMAIN a.filled = DOMAIN p.intents
      /\ \A l \in DOMAIN p.intents :
           /\ a.filled[l] \in Nat
           /\ a.filled[l] <= Abs(p.intents[l].delta)
           /\ a.filled[l] > 0 => \A j \in ParentOf(p.intents, l) :
                                   a.filled[j] = Abs(p.intents[j].delta)
  <2>1. a.filled \in Seq(Nat)
    BY DEF Accounts
  <2> QED BY <2>1 DEF OnPlan
<1>3. a.position[i] = c + SumFunction(f)
  BY <1>1 DEF OnPlan
<1>4. L \subseteq DOMAIN p.intents /\ IsFiniteSet(L) /\ k \in L
  BY <1>1, LegCases DEF LegsOf
<1>5. /\ \A l \in L : f[l] = Moved(a, p, l) /\ f[l] \in Int
      /\ f \in [L -> Int]
  <2> HIDE DEF L
  <2> QED BY <1>2, <1>4 DEF Moved
<1>6. \/ L = {k} /\ ~ p.intents[k].child
      \/ \E j, m \in DOMAIN p.intents : L = {j, m} /\ Opens(p.start.position, p.intents, j, m)
  <2>1. \/ L = {}
        \/ \E m \in DOMAIN p.intents : L = {m} /\ ~ p.intents[m].child
        \/ \E j, m \in DOMAIN p.intents : L = {j, m} /\ Opens(p.start.position, p.intents, j, m)
    BY <1>1, LegCases
  <2> HIDE DEF L
  <2>2. CASE \E m \in DOMAIN p.intents : L = {m} /\ ~ p.intents[m].child
    <3>1. PICK m \in DOMAIN p.intents : L = {m} /\ ~ p.intents[m].child
      BY <2>2
    <3>2. m = k
      BY <1>4, <3>1
    <3> QED BY <3>1, <3>2
  <2> QED BY <1>4, <2>1, <2>2
<1> HIDE DEF L, f, c
<1>7. CASE L = {k} /\ ~ p.intents[k].child
  <2>1. f \in [{k} -> Int]
    BY <1>5, <1>7
  <2>2. SumFunction(f) = f[k]
    BY <2>1, TotalOfOne
  <2> QED BY <1>3, <1>4, <1>5, <1>7, <2>2 DEF c
<1>8. CASE \E j, m \in DOMAIN p.intents : L = {j, m} /\ Opens(p.start.position, p.intents, j, m)
  <2>1. PICK j \in DOMAIN p.intents, m \in DOMAIN p.intents :
            L = {j, m} /\ Opens(p.start.position, p.intents, j, m)
    BY <1>8
  <2>2. j # m /\ p.intents[j].reduce_only /\ p.intents[m].child
        /\ p.intents[j].instrument = p.intents[m].instrument
        /\ p.intents[j].delta = -p.start.position[p.intents[j].instrument]
    <3>1. j \in Nat /\ m \in Nat
      BY PlanParts
    <3> QED BY <2>1, <3>1 DEF Opens
  <2>3. j \in L /\ m \in L /\ p.intents[j].instrument = i /\ p.intents[j].delta = -c
    <3>1. j \in L
      BY <2>1
    <3>2. p.intents[j].instrument = i
      BY <3>1 DEF L, LegsOf
    <3> QED BY <2>1, <2>2, <3>2 DEF c
  <2>4. f \in [{j, m} -> Int]
    BY <1>5, <2>1
  <2>5. SumFunction(f) = f[j] + f[m]
    BY <2>2, <2>4, TotalOfTwo
  <2>6. a.position[i] = c + Moved(a, p, j) + Moved(a, p, m)
        /\ Moved(a, p, j) \in Int /\ Moved(a, p, m) \in Int
    BY <1>1, <1>3, <1>5, <2>3, <2>5
  <2>7. ParentOf(p.intents, m) # {} /\ j \in ParentOf(p.intents, m)
    BY <1>1, <2>1, ParentFacts
  <2>8. a.filled[m] > 0 => a.filled[j] = Abs(p.intents[j].delta)
    BY <1>2, <2>7
  <2>9. a.filled[j] = Abs(p.intents[j].delta) => Moved(a, p, j) = -c
    <3>1. p.intents[j].delta \in Int
      BY PlanParts
    <3> QED BY <2>3, <3>1 DEF Moved, Abs
  <2>10. a.filled[m] = 0 => Moved(a, p, m) = 0
    <3> DEFINE n == a.filled[m]
    <3>1. n \in Nat /\ Moved(a, p, m) = IF p.intents[m].delta > 0 THEN n ELSE -n
      BY <1>2 DEF Moved
    <3> HIDE DEF n
    <3> DEFINE z == -n
    <3>2. z \in Int /\ n + z = 0
      BY <3>1
    <3>3. Moved(a, p, m) = n \/ Moved(a, p, m) = z
      BY <3>1
    <3> HIDE DEF z
    <3>4. n = 0 => Moved(a, p, m) = 0
      BY <3>1, <3>2, <3>3
    <3> QED BY <3>4 DEF n
  <2>11. ~ p.intents[j].child /\ ~ p.intents[m].reduce_only
    <3>1. \A l \in DOMAIN p.intents : p.intents[l].reduce_only => ~ p.intents[l].child
      BY <1>1 DEF PlanShape, OrderFits
    <3> QED BY <2>2, <3>1
  <2>12. CASE k = j
    <3>1. a.filled[j] < Abs(p.intents[j].delta) => a.filled[m] = 0
      <4>1. a.filled[m] \in Nat /\ a.filled[j] \in Nat /\ Abs(p.intents[j].delta) \in Nat
        BY <1>2, PlanParts
      <4> QED BY <2>8, <4>1
    <3> QED BY <1>1, <2>2, <2>6, <2>10, <2>11, <2>12, <3>1 DEF c
  <2>13. CASE k = m
    <3>1. ParentIsFilled(a, p, m) => Moved(a, p, j) = -c
      BY <2>7, <2>9 DEF ParentIsFilled
    <3> QED BY <1>1, <2>2, <2>6, <2>11, <2>13, <3>1
  <2> QED BY <1>4, <2>1, <2>12, <2>13
<1> QED BY <1>6, <1>7, <1>8

\* A fill fits the position it meets as its order fits the plan.
LEMMA FillFits ==
    ASSUME BrokerInv, Working, Wanted # 0, FilledLots > 0,
           NEW h, h = call.working.position[Intent.instrument]
    PROVE  /\ h \in Int /\ FillEvent.delta \in Int
           /\ Intent.reduce_only => Closes(h, FillEvent.delta)
           /\ ~ Intent.reduce_only => Extends(h, FillEvent.delta)
           /\ Intent.instrument \in Spots => h + FillEvent.delta >= 0
           /\ ParentIsFilled(call.working, plan, call.next)
<1> DEFINE w == call.working
           k == call.next
           i == Intent.instrument
           d == FillEvent.delta
           n == FilledLots
           c == plan.start.position[i]
           m == w.filled[k]
           o == Intent.delta
           s == Moved(w, plan, k)
<1>1. /\ PlanSound(plan) /\ w \in Accounts /\ OnPlan(w, plan) /\ AccountSound(w)
      /\ CallSound(call, plan, account)
      /\ k \in DOMAIN plan.intents /\ Intent = plan.intents[k] /\ Intent \in Orders
      /\ i \in Instruments /\ h \in Int /\ o \in Int /\ o # 0
      /\ m \in Nat
  BY CallParts
<1>2. /\ Wanted \in Nat \ {0} /\ Abs(o) = m + Wanted
      /\ n \in Nat \ {0} /\ n <= Wanted /\ ~ AwaitsParent
      /\ d = IF o > 0 THEN n ELSE -n
  <2>1. n > 0 /\ n \in Nat
    BY FillFacts
  <2> QED BY <2>1, FillFacts
<1>3. c \in Int /\ OrderFits(c, Intent)
      /\ (i \in Spots => c >= 0)
  <2>1. c \in Int /\ PlanShape(plan.start.position, plan.intents)
    BY <1>1, PlanParts DEF PlanSound, Books
  <2>2. OrderFits(c, Intent)
    BY <1>1, <2>1 DEF PlanShape
  <2>3. i \in Spots => c >= 0
    BY <1>1 DEF PlanSound, AccountSound
  <2> QED BY <2>1, <2>2, <2>3
<1>4. ParentIsFilled(w, plan, k)
  <2> SUFFICES ASSUME NEW j \in ParentOf(plan.intents, k)
      PROVE w.filled[j] = Abs(plan.intents[j].delta)
    BY DEF ParentIsFilled
  <2>1. j \in DOMAIN plan.intents
    BY DEF ParentOf
  <2>2. call.progress[j] = Abs(plan.intents[j].delta)
    BY <1>2 DEF AwaitsParent
  <2> QED BY <1>1, <2>1, <2>2 DEF CallSound
<1>5. s = IF o > 0 THEN m ELSE -m
  BY <1>1 DEF Moved
<1>6. m < Abs(o) /\ Abs(o) \in Nat
  BY <1>1, <1>2 DEF Abs
<1>7. /\ Intent.reduce_only => h = c + s
      /\ Intent.child => h = s
      /\ ~ Intent.reduce_only /\ ~ Intent.child => h = c + s
  <2>1. /\ plan.intents[k].reduce_only /\ w.filled[k] < Abs(plan.intents[k].delta) =>
             w.position[i] = plan.start.position[i] + Moved(w, plan, k)
        /\ plan.intents[k].child /\ ParentIsFilled(w, plan, k) =>
             w.position[i] = Moved(w, plan, k)
        /\ ~ plan.intents[k].reduce_only /\ ~ plan.intents[k].child =>
             w.position[i] = plan.start.position[i] + Moved(w, plan, k)
    <3>1. i = plan.intents[k].instrument
      BY <1>1
    <3> HIDE DEF i, w, k
    <3> QED BY <1>1, <3>1, LegPosition
  <2> QED BY <1>1, <1>4, <1>6, <2>1
<1> HIDE DEF w, k, i, d, n, c, m, o, s
<1>8. CASE Intent.reduce_only
  <2>1. Closes(c, o) /\ h = c + s
    BY <1>3, <1>7, <1>8 DEF OrderFits, o
  <2>2. Closes(h, d)
    <3>1. CASE c > 0 /\ -c <= o /\ o < 0
      <4>1. Abs(o) = -o
        BY <1>1, <3>1 DEF Abs
      <4> QED BY <1>1, <1>2, <1>3, <1>5, <2>1, <3>1, <4>1 DEF Closes
    <3>2. CASE c < 0 /\ 0 < o /\ o <= -c
      <4>1. Abs(o) = o
        BY <1>1, <3>2 DEF Abs
      <4> QED BY <1>1, <1>2, <1>3, <1>5, <2>1, <3>2, <4>1 DEF Closes
    <3> QED BY <2>1, <3>1, <3>2 DEF Closes
  <2>3. i \in Spots => h + d >= 0
    <3> SUFFICES ASSUME i \in Spots PROVE h + d >= 0
      OBVIOUS
    <3>1. d \in Int
      BY <1>1, <1>2
    <3>2. h >= 0
      BY <1>1 DEF AccountSound, w, i
    <3> QED BY <1>1, <2>2, <3>1, <3>2 DEF Closes
  <2>4. d \in Int
    BY <1>1, <1>2
  <2> QED BY <1>1, <1>4, <1>8, <2>2, <2>3, <2>4 DEF d, w, k, i
<1>9. CASE Intent.child
  <2>1. ~ Intent.reduce_only /\ i \notin Spots /\ h = s
    BY <1>3, <1>7, <1>9 DEF OrderFits, i
  <2>2. Extends(h, d)
    BY <1>1, <1>2, <1>5, <2>1 DEF Extends
  <2>3. d \in Int
    BY <1>1, <1>2
  <2> QED BY <1>1, <1>4, <2>1, <2>2, <2>3 DEF d, w, k, i
<1>10. CASE ~ Intent.reduce_only /\ ~ Intent.child
  <2>1. Extends(c, o) /\ h = c + s /\ (i \in Spots => o > 0)
    BY <1>3, <1>7, <1>10 DEF OrderFits, o, i
  <2>2. Extends(h, d)
    BY <1>1, <1>2, <1>3, <1>5, <2>1 DEF Extends
  <2>3. i \in Spots => h + d >= 0
    BY <1>1, <1>2, <1>3, <1>5, <2>1
  <2>4. d \in Int
    BY <1>1, <1>2
  <2> QED BY <1>1, <1>4, <1>10, <2>2, <2>3, <2>4 DEF d, w, k, i
<1> QED BY <1>8, <1>9, <1>10

\* So apply_fill_event has nothing to refuse in a fill of the broker.
LEMMA NothingMisfits ==
    ASSUME BrokerInv, Working, Wanted # 0, Executed(FillEvent)
    PROVE  Misfit(call.working, Intent, FillEvent) = {}
<1> DEFINE w == call.working
           h == w.position[Intent.instrument]
           d == FillEvent.delta
           n == FilledLots
           m == w.filled[call.next]
<1>1. /\ n > 0 /\ n \in Nat /\ n <= Wanted /\ Wanted \in Nat \ {0}
      /\ Abs(Intent.delta) = m + Wanted
      /\ FillEvent.plan = plan.id /\ FillEvent.intent = call.next
      /\ FillEvent.instrument = Intent.instrument
      /\ d = IF Intent.delta > 0 THEN n ELSE -n
      /\ FillEvent.status = "filled" <=> n = Wanted
  BY FillFacts
<1>2. w.plan = plan.id /\ m \in Nat
  BY CallParts
<1>3. /\ h \in Int /\ d \in Int
      /\ Intent.reduce_only => Closes(h, d)
      /\ ~ Intent.reduce_only => Extends(h, d)
      /\ Intent.instrument \in Spots => h + d >= 0
  BY <1>1, FillFits
<1>4. /\ Intent.reduce_only => h * d < 0 /\ Abs(d) <= Abs(h)
      /\ ~ Intent.reduce_only => ~ (h * d < 0)
      /\ h * d \in Int /\ Abs(d) = n /\ Abs(h) \in Nat
  <2>1. Abs(d) = n
    BY <1>1 DEF Abs
  <2>2. Abs(h) \in Nat /\ h * d \in Int
    BY <1>3 DEF Abs
  <2> QED BY <1>3, <2>1, <2>2, SignFacts
<1>5. FillEvent.status \in {"filled", "partial"}
  BY DEF Executed
<1> DEFINE total == m + n
           r == h * d
<1>6. total \in Nat /\ total <= Abs(Intent.delta)
      /\ (FillEvent.status = "filled" => total = Abs(Intent.delta))
      /\ (FillEvent.status = "partial" => total < Abs(Intent.delta))
  <2>1. FillEvent.status = "partial" => FillEvent.status # "filled"
    OBVIOUS
  <2> HIDE DEF m, n
  <2> QED BY <1>1, <1>2, <2>1
<1> DEFINE reasons == {"plan", "overfill", "status", "direction", "crossing"}
<1>7. Misfit(w, Intent, FillEvent) =
        { reason \in reasons :
            \/ reason = "plan" /\ w.plan # FillEvent.plan
            \/ reason = "overfill" /\ total > Abs(Intent.delta)
            \/ reason = "status" /\ FillEvent.status = "filled" /\ total # Abs(Intent.delta)
            \/ reason = "status" /\ FillEvent.status = "partial" /\ total >= Abs(Intent.delta)
            \/ reason = "direction" /\ Intent.reduce_only /\ r >= 0
            \/ reason = "crossing" /\ r < 0 /\ Abs(d) > Abs(h)
            \/ reason = "crossing" /\ Intent.instrument \in Spots /\ h + d < 0 }
  BY <1>1, <1>4 DEF Misfit
<1>8. /\ ~ (w.plan # FillEvent.plan)
      /\ ~ (total > Abs(Intent.delta))
      /\ ~ (FillEvent.status = "filled" /\ total # Abs(Intent.delta))
      /\ ~ (FillEvent.status = "partial" /\ total >= Abs(Intent.delta))
      /\ ~ (Intent.reduce_only /\ r >= 0)
      /\ ~ (r < 0 /\ Abs(d) > Abs(h))
      /\ ~ (Intent.instrument \in Spots /\ h + d < 0)
  <2>1. Abs(Intent.delta) \in Nat
    BY <1>1, <1>2
  <2>2. ~ (w.plan # FillEvent.plan)
    BY <1>1, <1>2
  <2> HIDE DEF w, d, h, total, r, n, m
  <2>3. /\ ~ (total > Abs(Intent.delta))
        /\ ~ (FillEvent.status = "filled" /\ total # Abs(Intent.delta))
        /\ ~ (FillEvent.status = "partial" /\ total >= Abs(Intent.delta))
    BY <1>6, <2>1
  <2>4. /\ ~ (Intent.reduce_only /\ r >= 0)
        /\ ~ (r < 0 /\ Abs(d) > Abs(h))
        /\ ~ (Intent.instrument \in Spots /\ h + d < 0)
    BY <1>1, <1>3, <1>4 DEF r
  <2> QED BY <2>2, <2>3, <2>4
<1> HIDE DEF w, d, h, total, r, n, m, reasons
<1>9. Misfit(w, Intent, FillEvent) = {}
  BY <1>7, <1>8, Zenon
<1> QED BY <1>9 DEF w

-----------------------------------------------------------------------------
(***************************************************************************)
(* A fill and the account                                                  *)
(***************************************************************************)

\* The whole of a value is given back by the whole of the lots.
LEMMA WholeQuotient ==
    ASSUME NEW a \in Int, NEW b \in Nat \ {0}
    PROVE  Quotient(a * b, b) = a
<1>1. ASSUME NEW c \in Nat PROVE (c * b) \div b = c
  <2> DEFINE n == c * b
             q == n \div b
  <2>1. n \in Nat
    OBVIOUS
  <2>2. q \in Int /\ b * q <= n /\ n < b * q + b
    <3> HIDE DEF n
    <3> QED BY <2>1
  <2>3. b * q <= b * c /\ b * c < b * (q + 1)
    <3> HIDE DEF q
    <3> QED BY <2>2
  <2> HIDE DEF q
  <2>4. ASSUME q > c PROVE FALSE
    <3>1. q >= c + 1
      BY <2>2, <2>4
    <3>2. b * q >= b * (c + 1)
      BY <2>2, <3>1
    <3> QED BY <2>2, <2>3, <3>2
  <2>5. ASSUME q < c PROVE FALSE
    <3>1. q + 1 <= c
      BY <2>2, <2>5
    <3>2. b * (q + 1) <= b * c
      BY <2>2, <3>1
    <3>3. b * c \in Int /\ b * (q + 1) \in Int
      BY <2>2
    <3> QED BY <2>3, <3>2, <3>3
  <2> QED BY <2>2, <2>4, <2>5 DEF q, n
<1>2. CASE a >= 0
  <2>1. a \in Nat /\ ~ (a * b < 0)
    <3>1. a * b >= 0 /\ a * b \in Int
      BY <1>2
    <3> QED BY <1>2, <3>1
  <2>2. Quotient(a * b, b) = (a * b) \div b
    BY <2>1 DEF Quotient
  <2> QED BY <1>1, <2>1, <2>2
<1>3. CASE a < 0
  <2> DEFINE c == -a
  <2>1. c \in Nat \ {0} /\ a = -c
    BY <1>3
  <2>2. a * b < 0 /\ -(a * b) = c * b
    <3>1. c * b > 0 /\ c * b \in Int /\ a * b = -(c * b)
      BY <2>1
    <3> HIDE DEF c
    <3> QED BY <3>1
  <2>3. Quotient(a * b, b) = -((c * b) \div b)
    <3>1. Quotient(a * b, b) = -((-(a * b)) \div b)
      BY <2>2 DEF Quotient
    <3> QED BY <2>2, <3>1
  <2>4. (c * b) \div b = c
    <3> HIDE DEF c
    <3> QED BY <1>1, <2>1
  <2> QED BY <2>1, <2>3, <2>4
<1> QED BY <1>2, <1>3

\* A trade leaves the entry value on the side of the position.
LEMMA EntryFollows ==
    ASSUME NEW held \in Int, NEW entry \in Int, EntryFits(held, entry),
           NEW delta \in Int, NEW price \in Nat,
           held * delta < 0 => Abs(delta) <= Abs(held),
           NEW released, released = IF held * delta < 0
                                    THEN Quotient(entry * Abs(delta), Abs(held)) ELSE 0,
           NEW after, after = entry - released
                                + (IF held * delta < 0 THEN 0 ELSE delta * price)
    PROVE  released \in Int /\ after \in Int /\ EntryFits(held + delta, after)
<1> DEFINE r == held * delta
           n == Abs(delta)
           m == Abs(held)
           v == delta * price
<1>1. r \in Int /\ n \in Nat /\ m \in Nat /\ v \in Int
  BY DEF Abs
<1>2. /\ r < 0 <=> (held > 0 /\ delta < 0) \/ (held < 0 /\ delta > 0)
      /\ delta >= 0 => v >= 0
      /\ delta <= 0 => v <= 0
  <2>1. delta >= 0 => v >= 0
    OBVIOUS
  <2>2. delta <= 0 => v <= 0
    <3> SUFFICES ASSUME delta <= 0 PROVE v <= 0
      OBVIOUS
    <3>1. (-delta) * price >= 0 /\ (-delta) * price = -v
      OBVIOUS
    <3> QED BY <1>1, <3>1
  <2>3. held > 0 /\ delta < 0 => r < 0
    <3> SUFFICES ASSUME held > 0, delta < 0 PROVE r < 0
      OBVIOUS
    <3>1. held * (-delta) > 0 /\ held * (-delta) = -r
      OBVIOUS
    <3> QED BY <1>1, <3>1
  <2>4. held < 0 /\ delta > 0 => r < 0
    <3> SUFFICES ASSUME held < 0, delta > 0 PROVE r < 0
      OBVIOUS
    <3>1. (-held) * delta > 0 /\ (-held) * delta = -r
      OBVIOUS
    <3> QED BY <1>1, <3>1
  <2>5. held >= 0 /\ delta >= 0 => r >= 0
    OBVIOUS
  <2>6. held <= 0 /\ delta <= 0 => r >= 0
    <3> SUFFICES ASSUME held <= 0, delta <= 0 PROVE r >= 0
      OBVIOUS
    <3>1. (-held) * (-delta) >= 0 /\ (-held) * (-delta) = r
      OBVIOUS
    <3> QED BY <3>1
  <2> HIDE DEF r, v
  <2> QED BY <1>1, <2>1, <2>2, <2>3, <2>4, <2>5, <2>6
<1>3. CASE r < 0
  <2> DEFINE q == Quotient(entry * n, m)
  <2>1. released = q /\ after = entry - q + 0
    BY <1>3
  <2>2. m \in Nat \ {0} /\ n <= m
    BY <1>1, <1>2, <1>3 DEF Abs
  <2>3. /\ q \in Int /\ Abs(q) <= Abs(entry)
        /\ entry >= 0 => q >= 0
        /\ entry <= 0 => q <= 0
    <3> HIDE DEF n, m
    <3> QED BY <1>1, <2>2, ScaleFacts
  <2>4. held + delta = 0 => q = entry
    <3> SUFFICES ASSUME held + delta = 0 PROVE q = entry
      OBVIOUS
    <3>1. n = m
      BY <1>2, <1>3 DEF Abs
    <3> HIDE DEF n, m
    <3> QED BY <2>2, <3>1, WholeQuotient
  <2> HIDE DEF q, n, m, r
  <2>5. after \in Int
    BY <2>1, <2>3
  <2>6. CASE held > 0 /\ delta < 0
    <3>1. entry >= 0 /\ held + delta >= 0
      BY <1>3, <2>6 DEF EntryFits, r, n, m, Abs
    <3>2. q <= entry
      BY <2>3, <3>1 DEF Abs
    <3> QED BY <2>1, <2>3, <2>4, <2>5, <3>1, <3>2 DEF EntryFits
  <2>7. CASE held < 0 /\ delta > 0
    <3>1. entry <= 0 /\ held + delta <= 0
      BY <1>3, <2>7 DEF EntryFits, r, n, m, Abs
    <3>2. q >= entry
      BY <2>3, <3>1 DEF Abs
    <3> QED BY <2>1, <2>3, <2>4, <2>5, <3>1, <3>2 DEF EntryFits
  <2> QED BY <1>2, <1>3, <2>6, <2>7
<1>4. CASE ~ (r < 0)
  <2>1. released = 0 /\ after = entry + v
    BY <1>1, <1>4
  <2>2. delta = 0 => v = 0
    <3> HIDE DEF v
    <3> QED BY <1>1, <1>2
  <2> HIDE DEF r, v
  <2> QED BY <1>1, <1>2, <1>4, <2>1, <2>2 DEF EntryFits
<1> QED BY <1>3, <1>4

\* Only fills carry an intent.
LEMMA FillsOf ==
    ASSUME NEW a \in Accounts, IsFiniteSet(a.applied)
    PROVE  /\ Fills(a) \in SUBSET FillEvents
           /\ IsFiniteSet(Fills(a))
           /\ \A e \in a.applied : e \in Fills(a) <=> "intent" \in DOMAIN e
           /\ FillEvents \cap a.applied \subseteq Fills(a)
<1>1. \A f \in FundingEvents : "intent" \notin DOMAIN f
  BY BrokerAssumption
<1>2. a.applied \subseteq FillEvents \cup FundingEvents
  BY DEF Accounts
<1>3. \A e : e \in Fills(a) <=> e \in a.applied /\ "intent" \in DOMAIN e
  BY DEF Fills
<1>4. \A e \in FillEvents : "intent" \in DOMAIN e
  BY DEF FillEvents
<1>5. Fills(a) \subseteq a.applied
  BY <1>3
<1>6. IsFiniteSet(Fills(a))
  BY <1>5, FS_Subset
<1> QED BY <1>1, <1>2, <1>3, <1>4, <1>6

\* What the fields of an event are worth.
LEMMA EventFacts ==
    ASSUME NEW e \in FillEvents
    PROVE  /\ e.instrument \in Instruments /\ e.delta \in Int /\ e.price \in Nat
           /\ e.plan \in Nat /\ e.intent \in Nat /\ e.time \in Int /\ e.status \in Statuses
           /\ e.delta * e.price \in Int /\ Abs(e.delta) \in Nat
           /\ Fee(e) \in Nat
<1>1. /\ e.instrument \in Instruments /\ e.delta \in Int /\ e.price \in Nat
      /\ e.plan \in Nat /\ e.intent \in Nat /\ e.time \in Int /\ e.status \in Statuses
  BY DEF FillEvents
<1>2. e.delta * e.price \in Int /\ Abs(e.delta) \in Nat
  <2> DEFINE d == e.delta
             p == e.price
  <2>1. d \in Int /\ p \in Nat
    BY <1>1
  <2> HIDE DEF d, p
  <2>2. d * p \in Int /\ Abs(d) \in Nat
    BY <2>1 DEF Abs
  <2> QED BY <2>2 DEF d, p
<1>3. Fee(e) \in Nat
  <2> DEFINE n == Abs(e.delta)
             p == e.price
  <2>1. n \in Nat /\ p \in Nat
    BY <1>1, <1>2
  <2> HIDE DEF n, p
  <2>2. n * p \in Nat
    BY <2>1
  <2>3. (n * p) \div CommissionDivisor \in Nat
    BY <2>2, CommissionAssumption, FloorFacts
  <2> QED BY <2>3 DEF Fee, n, p
<1> QED BY <1>1, <1>2, <1>3

\* Which changes _rebuild lets pass.
LEMMA SoundFacts ==
    ASSUME NEW a, NEW cash, NEW equity, NEW time,
           Unsound(a, cash, equity, time) = {}
    PROVE  ~ (cash < 0) /\ ~ (equity <= 0) /\ ~ (time < a.as_of)
BY DEF Unsound

\* What one fill more adds to the lots of an instrument.
LEMMA OneMoreNet ==
    ASSUME NEW F \in SUBSET FillEvents, IsFiniteSet(F), NEW e \in FillEvents, e \notin F,
           NEW G, G = F \cup {e}, NEW i \in Instruments
    PROVE  /\ NetOf(F, i) \in Int
           /\ i = e.instrument => NetOf(G, i) = NetOf(F, i) + e.delta
           /\ i # e.instrument => NetOf(G, i) = NetOf(F, i)
<1> DEFINE U == { x \in F : x.instrument = i }
           T == { x \in G : x.instrument = i }
           g == [x \in U |-> x.delta]
           f == [x \in T |-> x.delta]
<1>1. NetOf(F, i) = SumFunction(g) /\ NetOf(G, i) = SumFunction(f)
  BY DEF NetOf
<1>2. IsFiniteSet(U) /\ e \notin U /\ U \subseteq FillEvents
  <2>1. U \subseteq F
    OBVIOUS
  <2> QED BY <2>1, FS_Subset
<1>3. g \in [U -> Int]
  BY <1>2, EventFacts
<1>4. SumFunction(g) \in Int
  <2> HIDE DEF U, g
  <2> QED BY <1>2, <1>3, TotalIsInt
<1>5. CASE i = e.instrument
  <2>1. T = U \cup {e}
    BY <1>5
  <2>2. f \in [U \cup {e} -> Int] /\ (\A x \in U : f[x] = g[x]) /\ f[e] = e.delta
    <3>1. \A x \in T : x.delta \in Int
      BY <1>2, <2>1, EventFacts
    <3> HIDE DEF U, T
    <3> QED BY <2>1, <3>1
  <2> HIDE DEF U, T, f, g
  <2>3. SumFunction(f) = SumFunction(g) + f[e]
    BY <1>2, <1>3, <2>2, TotalAdds
  <2> QED BY <1>1, <1>4, <1>5, <2>2, <2>3
<1>6. CASE i # e.instrument
  <2>1. T = U
    BY <1>6
  <2>2. f = g
    BY <2>1
  <2> QED BY <1>1, <1>4, <1>6, <2>2
<1> QED BY <1>5, <1>6

\* What it adds to the fees and to the spot paid for.
LEMMA OneMoreFill ==
    ASSUME NEW F \in SUBSET FillEvents, IsFiniteSet(F), NEW e \in FillEvents, e \notin F,
           NEW G, G = F \cup {e}
    PROVE  /\ FeesOf(F) \in Int /\ FeesOf(G) = FeesOf(F) + Fee(e)
           /\ SpentOf(F) \in Int
           /\ SpentOf(G) = IF e.instrument \in Spots THEN SpentOf(F) + e.delta * e.price
                           ELSE SpentOf(F)
<1>2. FeesOf(F) \in Int /\ FeesOf(G) = FeesOf(F) + Fee(e)
  <2> DEFINE g == [x \in F |-> Fee(x)]
             f == [x \in G |-> Fee(x)]
  <2>1. g \in [F -> Int] /\ f \in [F \cup {e} -> Int]
        /\ (\A x \in F : f[x] = g[x]) /\ f[e] = Fee(e)
    <3>1. \A x \in F \cup {e} : Fee(x) \in Int
      BY EventFacts
    <3> QED BY <3>1
  <2>2. FeesOf(F) = SumFunction(g) /\ FeesOf(G) = SumFunction(f)
    BY DEF FeesOf
  <2> HIDE DEF f, g
  <2>3. SumFunction(f) = SumFunction(g) + f[e]
    <3>1. IsFiniteSet(F) /\ e \notin F
      OBVIOUS
    <3> QED BY <2>1, <3>1, TotalAdds
  <2>4. SumFunction(g) \in Int
    BY <2>1, TotalIsInt
  <2> QED BY <2>1, <2>2, <2>3, <2>4
<1>3. /\ SpentOf(F) \in Int
      /\ SpentOf(G) = IF e.instrument \in Spots THEN SpentOf(F) + e.delta * e.price
                      ELSE SpentOf(F)
  <2> DEFINE U == { x \in F : x.instrument \in Spots }
             T == { x \in G : x.instrument \in Spots }
             g == [x \in U |-> x.delta * x.price]
             f == [x \in T |-> x.delta * x.price]
             w == e.delta * e.price
  <2>1. SpentOf(F) = SumFunction(g) /\ SpentOf(G) = SumFunction(f)
    BY DEF SpentOf
  <2>2. IsFiniteSet(U) /\ e \notin U /\ U \subseteq FillEvents
    <3>1. U \subseteq F
      OBVIOUS
    <3> QED BY <3>1, FS_Subset
  <2>3. g \in [U -> Int]
    BY <2>2, EventFacts
  <2>4. SumFunction(g) \in Int
    <3> HIDE DEF U, g
    <3> QED BY <2>2, <2>3, TotalIsInt
  <2>5. CASE e.instrument \in Spots
    <3>1. T = U \cup {e}
      BY <2>5
    <3>2. f \in [U \cup {e} -> Int] /\ (\A x \in U : f[x] = g[x]) /\ f[e] = w
      <4>1. \A x \in T : x.delta * x.price \in Int
        BY <2>2, <3>1, EventFacts
      <4> HIDE DEF U, T
      <4> QED BY <3>1, <4>1
    <3> HIDE DEF U, T, f, g, w
    <3>3. SumFunction(f) = SumFunction(g) + f[e]
      BY <2>2, <2>3, <3>2, TotalAdds
    <3>4. SpentOf(G) = SpentOf(F) + w
      BY <2>1, <3>2, <3>3
    <3> QED BY <2>1, <2>4, <2>5, <3>4 DEF w
  <2>6. CASE e.instrument \notin Spots
    <3>1. T = U
      BY <2>6
    <3>2. f = g
      BY <3>1
    <3> QED BY <2>1, <2>4, <2>6, <3>2
  <2> QED BY <2>5, <2>6
<1> QED BY <1>2, <1>3

\* One more fill keeps an account explained.
LEMMA FillIsExplained ==
    ASSUME NEW a \in Accounts, IsFiniteSet(a.applied), Explained(a),
           NEW e \in FillEvents, e \notin a.applied,
           NEW b, Fills(b) = Fills(a) \cup {e},
           \A i \in Instruments :
              b.position[i] = IF i = e.instrument THEN a.position[i] + e.delta
                              ELSE a.position[i],
           NEW gain \in Int, e.instrument \in Spots => gain = 0,
           b.realized = a.realized + gain, b.funding = a.funding,
           b.fees = a.fees + Fee(e),
           b.cash = a.cash + ((IF e.instrument \in Perps THEN gain
                               ELSE -(e.delta * e.price)) - Fee(e))
    PROVE  Explained(b)
<1> DEFINE F == Fills(a)
           G == Fills(b)
<1>1. /\ F \in SUBSET FillEvents /\ IsFiniteSet(F) /\ e \notin F /\ G = F \cup {e}
  BY FillsOf DEF Fills
<1>2. /\ e.instrument \in Instruments /\ e.delta \in Int /\ e.delta * e.price \in Int
      /\ Fee(e) \in Nat
  BY EventFacts
<1>3. /\ a.cash \in Int /\ a.realized \in Int /\ a.funding \in Int
      /\ a.fees \in Int
  BY DEF Accounts
<1>4. /\ \A i \in Instruments : a.position[i] = NetOf(F, i)
      /\ a.fees = FeesOf(F)
      /\ a.cash = StartingCash + a.realized + a.funding - a.fees - SpentOf(F)
  BY DEF Explained
<1> HIDE DEF F, G
<1>5. /\ FeesOf(F) \in Int /\ FeesOf(G) = FeesOf(F) + Fee(e)
      /\ SpentOf(F) \in Int
      /\ SpentOf(G) = IF e.instrument \in Spots THEN SpentOf(F) + e.delta * e.price
                      ELSE SpentOf(F)
  BY <1>1, OneMoreFill
<1>6. \A i \in Instruments : b.position[i] = NetOf(G, i)
  <2> TAKE i \in Instruments
  <2>1. /\ i = e.instrument => NetOf(G, i) = NetOf(F, i) + e.delta
        /\ i # e.instrument => NetOf(G, i) = NetOf(F, i)
    BY <1>1, OneMoreNet
  <2> QED BY <1>2, <1>4, <2>1
<1>7. b.fees = FeesOf(G)
  BY <1>4, <1>5
<1>8. b.cash = StartingCash + b.realized + b.funding - b.fees - SpentOf(G)
  <2> DEFINE w == e.delta * e.price
  <2>1. StartingCash \in Int
    BY BrokerAssumption
  <2>2. w \in Int
    BY <1>2
  <2>3. CASE e.instrument \in Spots
    <3>1. e.instrument \notin Perps
      BY <2>3 DEF Spots
    <3>2. b.cash = a.cash + (-w - Fee(e)) /\ gain = 0 /\ SpentOf(G) = SpentOf(F) + w
      BY <1>5, <2>3, <3>1
    <3> HIDE DEF w
    <3> QED BY <1>2, <1>3, <1>4, <1>5, <2>1, <2>2, <3>2
  <2>4. CASE e.instrument \notin Spots
    <3>1. e.instrument \in Perps
      BY <1>2, <2>4 DEF Spots
    <3>2. b.cash = a.cash + (gain - Fee(e)) /\ SpentOf(G) = SpentOf(F)
      BY <1>5, <2>4, <3>1
    <3> QED BY <1>2, <1>3, <1>4, <1>5, <2>1, <3>2
  <2> QED BY <2>3, <2>4
<1> QED BY <1>6, <1>7, <1>8 DEF Explained, G

\* A fill that fits its position, and that _rebuild lets pass, keeps an account
\* sound: the position and its entry value agree, and the events explain it.
LEMMA FillKeepsTheAccount ==
    ASSUME NEW a, AccountSound(a), NEW e \in FillEvents, e \notin a.applied,
           e.intent \in DOMAIN a.filled, e.plan <= a.plan,
           NEW h, h = a.position[e.instrument],
           h * e.delta < 0 => Abs(e.delta) <= Abs(h),
           e.instrument \in Spots => h + e.delta >= 0,
           Unsound(a, a.cash + CashFlow(a, e), a.equity - Fee(e), e.time) = {},
           NEW b, b = ApplyFill(a, e)
    PROVE  AccountSound(b)
<1> DEFINE d == e.delta
           i == e.instrument
           n == a.entry[i]
           w == e.delta * e.price
           r == h * e.delta
           released == ReleasedEntry(a, e)
           after == EntryAfter(a, e)
           gain == RealizedBy(a, e)
<1>1. /\ a \in Accounts /\ IsFiniteSet(a.applied) /\ Explained(a)
      /\ \A j \in Instruments : EntryFits(a.position[j], a.entry[j])
      /\ \A j \in Spots : a.position[j] >= 0 /\ a.entry[j] = 0
      /\ \A x \in Fills(a) : x.plan <= a.plan
  BY DEF AccountSound
<1>2. /\ a.cash \in Nat /\ a.position \in Books /\ a.entry \in Books /\ a.realized \in Int
      /\ a.funding \in Int /\ a.fees \in Nat /\ a.equity \in Nat /\ a.as_of \in Nat
      /\ a.plan \in Nat /\ a.filled \in Seq(Nat)
      /\ a.applied \in SUBSET (FillEvents \cup FundingEvents)
  BY <1>1 DEF Accounts
<1>3. /\ i \in Instruments /\ d \in Int /\ e.price \in Nat /\ w \in Int
      /\ e.time \in Int /\ Abs(d) \in Nat /\ Fee(e) \in Nat
  BY EventFacts
<1>4. h \in Int /\ n \in Int /\ EntryFits(h, n) /\ r \in Int
  <2>1. h \in Int /\ n \in Int
    BY <1>2, <1>3 DEF Books
  <2>2. EntryFits(h, n)
    BY <1>1, <1>3
  <2> HIDE DEF n, d
  <2> QED BY <1>3, <2>1, <2>2 DEF d
<1>5. /\ b.plan = a.plan /\ b.funding = a.funding /\ b.as_of = e.time
      /\ b.cash = a.cash + CashFlow(a, e)
      /\ b.equity = a.equity - Fee(e)
      /\ b.realized = a.realized + gain
      /\ b.fees = a.fees + Fee(e)
      /\ b.applied = a.applied \cup {e}
      /\ b.position = [a.position EXCEPT ![i] = @ + d]
      /\ b.entry = [a.entry EXCEPT ![i] = after]
      /\ b.filled = [a.filled EXCEPT ![e.intent] = @ + Abs(d)]
  BY <1>1 DEF ApplyFill, Accounts
<1>6. released = IF r < 0 THEN Quotient(n * Abs(d), Abs(h)) ELSE 0
  BY DEF ReleasedEntry
<1>7. gain = IF i \in Perps /\ r < 0 THEN -w - released ELSE 0
  BY DEF RealizedBy
<1>8. CashFlow(a, e) = (IF i \in Perps THEN gain ELSE -w) - Fee(e)
  BY DEF CashFlow
<1>9. after = IF i \in Spots THEN 0
              ELSE n - released + (IF r < 0 THEN 0 ELSE w)
  BY DEF EntryAfter
<1> HIDE DEF released, after, gain
<1>10. /\ released \in Int
       /\ LET v == n - released + (IF r < 0 THEN 0 ELSE w)
          IN  v \in Int /\ EntryFits(h + d, v)
  <2> DEFINE v == n - released + (IF r < 0 THEN 0 ELSE w)
  <2>1. v = n - released + (IF r < 0 THEN 0 ELSE w)
    OBVIOUS
  <2> HIDE DEF v, n
  <2>2. released \in Int /\ v \in Int /\ EntryFits(h + d, v)
    BY <1>3, <1>4, <1>6, <2>1, EntryFollows
  <2> QED BY <2>2 DEF v, n
<1> HIDE DEF d, i, n, w, r
<1>11. gain \in Int /\ (i \in Spots => gain = 0) /\ (i \in Spots => i \notin Perps)
  <2>1. i \in Spots => i \notin Perps
    BY DEF Spots
  <2> QED BY <1>3, <1>7, <1>10, <2>1
<1>12. CashFlow(a, e) \in Int
  BY <1>3, <1>8, <1>11
<1>13. ~ (b.cash < 0) /\ ~ (b.equity <= 0) /\ ~ (b.as_of < a.as_of)
  BY <1>5, SoundFacts
<1>14. /\ b.cash \in Nat /\ b.equity \in Nat \ {0} /\ b.as_of \in Nat /\ b.fees \in Nat
       /\ b.realized \in Int
  <2>1. b.cash \in Nat
    <3>1. b.cash = a.cash + CashFlow(a, e)
      BY <1>5
    <3>2. a.cash \in Int
      BY <1>2
    <3> QED BY <1>12, <1>13, <3>1, <3>2
  <2>2. b.equity \in Nat \ {0}
    <3>1. b.equity \in Int
      BY <1>2, <1>3, <1>5
    <3> QED BY <1>13, <3>1
  <2>3. b.as_of \in Nat
    BY <1>2, <1>3, <1>5, <1>13
  <2>4. b.fees \in Nat
    <3>1. b.fees = a.fees + Fee(e)
      BY <1>5
    <3>2. a.fees \in Nat /\ Fee(e) \in Nat
      BY <1>2, <1>3
    <3> QED BY <3>1, <3>2
  <2>5. b.realized \in Int
    BY <1>2, <1>5, <1>11
  <2> QED BY <2>1, <2>2, <2>3, <2>4, <2>5
<1>15. after \in Int /\ (i \in Spots => after = 0)
  BY <1>9, <1>10
<1>16. /\ b.position \in Books /\ b.entry \in Books
       /\ b.position[i] = h + d /\ b.entry[i] = after
       /\ \A j \in Instruments : j # i => b.position[j] = a.position[j] /\ b.entry[j] = a.entry[j]
  <2>1. h = a.position[i]
    BY DEF i
  <2>2. a.position[i] + d \in Int
    BY <1>3, <1>4, <2>1
  <2>3. /\ b.position \in Books /\ b.position[i] = h + d
        /\ \A j \in Instruments : j # i => b.position[j] = a.position[j]
    <3>1. b.position = [a.position EXCEPT ![i] = a.position[i] + d]
      BY <1>5
    <3>2. a.position \in [Instruments -> Int] /\ i \in Instruments
      BY <1>2, <1>3 DEF Books
    <3> QED BY <2>1, <2>2, <3>1, <3>2 DEF Books
  <2>4. /\ b.entry \in Books /\ b.entry[i] = after
        /\ \A j \in Instruments : j # i => b.entry[j] = a.entry[j]
    <3>1. b.entry = [a.entry EXCEPT ![i] = after]
      BY <1>5
    <3>2. a.entry \in [Instruments -> Int] /\ i \in Instruments
      BY <1>2, <1>3 DEF Books
    <3> QED BY <1>15, <3>1, <3>2 DEF Books
  <2> QED BY <2>3, <2>4
<1>17. EntryFits(h + d, after) \/ i \in Spots
  BY <1>9, <1>10
<1>18. b.filled \in Seq(Nat)
  <2> DEFINE k == e.intent
             m == a.filled[k] + Abs(d)
  <2>1. k \in 1..Len(a.filled)
    BY <1>2
  <2>2. m \in Nat
    <3> HIDE DEF k
    <3>1. a.filled[k] \in Nat
      <4>1. a.filled \in Seq(Nat)
        BY <1>2
      <4> QED BY <2>1, <4>1
    <3>2. Abs(d) \in Nat
      BY <1>3
    <3> QED BY <3>1, <3>2
  <2>3. b.filled = [a.filled EXCEPT ![k] = m]
    BY <1>5
  <2> HIDE DEF k, m
  <2> QED BY <1>2, <2>1, <2>2, <2>3
<1>19. b.applied \in SUBSET (FillEvents \cup FundingEvents) /\ IsFiniteSet(b.applied)
  <2>1. IsFiniteSet(a.applied \cup {e})
    BY <1>1, FS_AddElement
  <2> QED BY <1>2, <1>5, <2>1
<1>20. b \in Accounts
  <2>1. b = [ cash |-> b.cash, position |-> b.position, entry |-> b.entry,
              realized |-> b.realized, funding |-> b.funding, fees |-> b.fees,
              equity |-> b.equity, as_of |-> b.as_of, plan |-> b.plan,
              filled |-> b.filled, applied |-> b.applied ]
    BY <1>1 DEF ApplyFill, Accounts
  <2> QED BY <1>2, <1>5, <1>14, <1>16, <1>18, <1>19, <2>1 DEF Accounts
<1>21. Fills(b) = Fills(a) \cup {e}
  <2>1. "intent" \in DOMAIN e
    BY DEF FillEvents
  <2> QED BY <1>5, <2>1 DEF Fills
<1>22. Explained(b)
  <2>1. \A j \in Instruments :
          b.position[j] = IF j = e.instrument THEN a.position[j] + e.delta ELSE a.position[j]
    <3>1. h = a.position[i]
      BY DEF i
    <3> QED BY <1>16, <3>1 DEF i, d
  <2>2. b.cash = a.cash + ((IF e.instrument \in Perps THEN gain
                            ELSE -(e.delta * e.price)) - Fee(e))
    BY <1>5, <1>8 DEF i, w
  <2>3. e.instrument \in Spots => gain = 0
    BY <1>11 DEF i
  <2>4. a \in Accounts /\ IsFiniteSet(a.applied) /\ Explained(a)
    BY <1>1
  <2>5. /\ b.realized = a.realized + gain /\ b.funding = a.funding
        /\ b.fees = a.fees + Fee(e)
    BY <1>5
  <2>6. gain \in Int
    BY <1>11
  <2> QED BY <1>21, <2>1, <2>2, <2>3, <2>4, <2>5, <2>6, FillIsExplained
<1>23. /\ \A j \in Instruments : EntryFits(b.position[j], b.entry[j])
       /\ \A j \in Spots : b.position[j] >= 0 /\ b.entry[j] = 0
  <2>1. i \in Spots => h + d >= 0
    BY DEF i, d
  <2>2. EntryFits(b.position[i], b.entry[i])
    <3>1. CASE i \in Spots
      <4>1. b.entry[i] = 0
        BY <1>15, <1>16, <3>1
      <4> QED BY <4>1 DEF EntryFits
    <3>2. CASE i \notin Spots
      BY <1>16, <1>17, <3>2
    <3> QED BY <3>1, <3>2
  <2>3. \A j \in Spots : j \in Instruments
    BY DEF Spots
  <2>4. i \in Spots => b.position[i] >= 0 /\ b.entry[i] = 0
    BY <1>15, <1>16, <2>1
  <2> QED BY <1>1, <1>16, <2>2, <2>3, <2>4
<1>24. \A x \in Fills(b) : x.plan <= b.plan
  BY <1>1, <1>5, <1>21
<1> QED BY <1>19, <1>20, <1>22, <1>23, <1>24 DEF AccountSound

\* A fill of lots that the order still wants keeps an account on its plan.
LEMMA FillOnPlan ==
    ASSUME NEW p, PlanSound(p), NEW a \in Accounts, IsFiniteSet(a.applied), OnPlan(a, p),
           NEW e \in FillEvents, e \notin a.applied,
           NEW k \in DOMAIN p.intents, e.intent = k,
           e.instrument = p.intents[k].instrument,
           a.filled[k] < Abs(p.intents[k].delta),
           NEW n \in Nat, a.filled[k] + n <= Abs(p.intents[k].delta),
           e.delta = IF p.intents[k].delta > 0 THEN n ELSE -n,
           e.status = "filled" => a.filled[k] + n = Abs(p.intents[k].delta),
           n > 0 => ParentIsFilled(a, p, k),
           NEW b, b = ApplyFill(a, e)
    PROVE  /\ OnPlan(b, p) /\ b.plan = a.plan
           /\ DOMAIN b.filled = DOMAIN p.intents
           /\ b.filled[k] = a.filled[k] + n
           /\ \A l \in DOMAIN p.intents : l # k => b.filled[l] = a.filled[l]
           /\ b.position[e.instrument] = a.position[e.instrument] + e.delta
           /\ \A i \in Instruments : i # e.instrument => b.position[i] = a.position[i]
<1>1. DOMAIN a.filled = DOMAIN p.intents
  BY DEF OnPlan
<1>2. /\ b.plan = a.plan
       /\ b.applied = a.applied \cup {e}
       /\ b.position = [a.position EXCEPT ![e.instrument] = @ + e.delta]
       /\ b.filled = [a.filled EXCEPT ![e.intent] = @ + Abs(e.delta)]
  BY DEF ApplyFill, Accounts
<1>3. /\ DOMAIN a.filled = DOMAIN p.intents
      /\ \A l \in DOMAIN p.intents :
           /\ a.filled[l] <= Abs(p.intents[l].delta)
           /\ a.filled[l] > 0 => \A j \in ParentOf(p.intents, l) :
                                   a.filled[j] = Abs(p.intents[j].delta)
      /\ \A i \in Instruments :
           a.position[i] = p.start.position[i]
             + SumFunction([l \in LegsOf(p.intents, i) |->
                 IF p.intents[l].delta > 0 THEN a.filled[l] ELSE -a.filled[l]])
      /\ \A x \in Fills(a) : x.plan = p.id /\ x.status = "filled" =>
           x.intent \in DOMAIN p.intents /\ a.filled[x.intent] = Abs(p.intents[x.intent].delta)
  BY DEF OnPlan
<1>4. /\ p.start.position \in Books /\ PlanShape(p.start.position, p.intents)
      /\ DOMAIN p.intents = 1..Len(p.intents) /\ Len(p.intents) \in Nat
      /\ \A l \in DOMAIN p.intents :
           /\ p.intents[l].instrument \in Instruments
           /\ p.intents[l].delta \in Int /\ Abs(p.intents[l].delta) \in Nat \ {0}
  BY PlanParts DEF PlanSound
<1>5. a.position \in Books /\ a.filled \in Seq(Nat)
  BY DEF Accounts
<1>6. \A l \in DOMAIN p.intents : a.filled[l] \in Nat
  BY <1>3, <1>5
<1>7. Abs(e.delta) = n
  BY DEF Abs
<1>8. /\ DOMAIN b.filled = DOMAIN p.intents
      /\ b.filled[k] = a.filled[k] + n
      /\ \A l \in DOMAIN p.intents : l # k => b.filled[l] = a.filled[l]
  BY <1>3, <1>7, <1>2
<1>9. \A l \in DOMAIN p.intents : \A j \in ParentOf(p.intents, l) :
        j \in DOMAIN p.intents /\ j # l
  <2> TAKE l \in DOMAIN p.intents
  <2> TAKE j \in ParentOf(p.intents, l)
  <2>1. j \in DOMAIN p.intents /\ Opens(p.start.position, p.intents, j, l)
    BY <1>4, ParentFacts
  <2>2. j \in Nat /\ l \in Nat /\ j < l
    BY <1>4, <2>1 DEF Opens
  <2> QED BY <2>1, <2>2
<1>10. \A l \in DOMAIN p.intents :
        /\ b.filled[l] <= Abs(p.intents[l].delta)
        /\ b.filled[l] > 0 => \A j \in ParentOf(p.intents, l) :
                                b.filled[j] = Abs(p.intents[j].delta)
  <2> TAKE l \in DOMAIN p.intents
  <2>1. CASE l = k
    <3>1. b.filled[k] > 0 => ParentIsFilled(a, p, k)
      <4>1. CASE n > 0
        BY <4>1
      <4>2. CASE n = 0
        BY <1>3, <1>6, <1>8, <4>2 DEF ParentIsFilled
      <4> QED BY <4>1, <4>2
    <3> QED BY <1>8, <1>9, <2>1, <3>1 DEF ParentIsFilled
  <2>2. CASE l # k
    <3> SUFFICES ASSUME b.filled[l] > 0, NEW j \in ParentOf(p.intents, l)
        PROVE b.filled[j] = Abs(p.intents[j].delta)
      BY <1>3, <1>8, <2>2
    <3>1. a.filled[j] = Abs(p.intents[j].delta)
      BY <1>3, <1>8, <2>2
    <3>2. j # k
      BY <1>4, <1>6, <3>1
    <3> QED BY <1>8, <1>9, <3>1, <3>2
  <2> QED BY <2>1, <2>2
<1>11. ASSUME NEW i \in Instruments
      PROVE  b.position[i] = p.start.position[i]
               + SumFunction([l \in LegsOf(p.intents, i) |->
                   IF p.intents[l].delta > 0 THEN b.filled[l] ELSE -b.filled[l]])
  <2> DEFINE L == LegsOf(p.intents, i)
             f == [l \in L |-> IF p.intents[l].delta > 0 THEN a.filled[l] ELSE -a.filled[l]]
             g == [l \in L |-> IF p.intents[l].delta > 0 THEN b.filled[l] ELSE -b.filled[l]]
             c == p.start.position[i]
  <2>1. L \subseteq DOMAIN p.intents /\ IsFiniteSet(L)
    BY <1>4, LegCases
  <2>2. k \in L <=> i = e.instrument
    BY DEF LegsOf
  <2>3. a.position[i] = c + SumFunction(f)
    BY <1>3
  <2>4. c \in Int /\ a.position[i] \in Int
    BY <1>4, <1>5 DEF Books
  <2> HIDE DEF L
  <2>5. f \in [L -> Int] /\ g \in [L -> Int]
    <3>1. \A l \in L : a.filled[l] \in Nat /\ b.filled[l] \in Nat
      BY <1>6, <1>8, <2>1
    <3> QED BY <3>1
  <2>6. SumFunction(f) \in Int
    <3> HIDE DEF f
    <3> QED BY <2>1, <2>5, TotalIsInt
  <2>7. CASE i = e.instrument
    <3>1. k \in L
      BY <2>2, <2>7
    <3>2. \A l \in L : l # k => f[l] = g[l]
      BY <1>8, <2>1
    <3>3. f[k] \in Int /\ g[k] = f[k] + e.delta
      <4>1. f[k] = IF p.intents[k].delta > 0 THEN a.filled[k] ELSE -a.filled[k]
        BY <3>1
      <4>2. g[k] = IF p.intents[k].delta > 0 THEN a.filled[k] + n ELSE -(a.filled[k] + n)
        BY <1>8, <3>1
      <4>3. a.filled[k] \in Nat
        BY <1>6
      <4> HIDE DEF f, g
      <4> QED BY <4>1, <4>2, <4>3
    <3> HIDE DEF f, g, c
    <3>4. SumFunction(g) = SumFunction(f) + g[k] - f[k]
      BY <2>1, <2>5, <3>1, <3>2, TotalChangesAt
    <3>5. e.delta \in Int
      BY EventFacts
    <3>6. b.position[i] = a.position[i] + e.delta
      BY <1>5, <1>2, <2>7 DEF Books
    <3>7. b.position[i] = c + SumFunction(g)
      BY <2>3, <2>4, <2>6, <3>3, <3>4, <3>5, <3>6
    <3> QED BY <3>7 DEF g, c, L
  <2>8. CASE i # e.instrument
    <3>1. k \notin L
      BY <2>2, <2>8
    <3>2. g = f
      BY <1>8, <2>1, <3>1
    <3>3. b.position[i] = a.position[i]
      BY <1>5, <1>2, <2>8 DEF Books
    <3> QED BY <2>3, <3>2, <3>3 DEF L
  <2> QED BY <2>7, <2>8
<1>12. ASSUME NEW x \in Fills(b), x.plan = p.id, x.status = "filled"
       PROVE  x.intent \in DOMAIN p.intents /\ b.filled[x.intent] = Abs(p.intents[x.intent].delta)
  <2>1. CASE x = e
    <3>1. x.intent = k /\ a.filled[k] + n = Abs(p.intents[k].delta)
      BY <1>12, <2>1
    <3> QED BY <1>8, <3>1
  <2>2. CASE x # e
    <3>1. x \in Fills(a)
      BY <1>2, <2>2 DEF Fills
    <3>2. x.intent \in DOMAIN p.intents /\ a.filled[x.intent] = Abs(p.intents[x.intent].delta)
      BY <1>3, <1>12, <3>1
    <3>3. x.intent # k
      BY <1>4, <1>6, <3>2
    <3> QED BY <1>8, <3>2, <3>3
  <2> QED BY <2>1, <2>2
<1>13. OnPlan(b, p)
  BY <1>8, <1>10, <1>11, <1>12 DEF OnPlan
<1>14. /\ b.position[e.instrument] = a.position[e.instrument] + e.delta
       /\ \A i \in Instruments : i # e.instrument => b.position[i] = a.position[i]
  BY <1>4, <1>5, <1>2 DEF Books
<1> QED BY <1>8, <1>2, <1>13, <1>14

-----------------------------------------------------------------------------
(***************************************************************************)
(* Every action keeps the invariant                                        *)
(***************************************************************************)

\* Executing an intent: the account stays sound and on its plan, and its
\* progress goes up by the fill, unless the event was applied before.
LEMMA ExecuteFacts ==
    ASSUME BrokerInv, Working, Wanted # 0,
           FillHalts(call.working, Intent, FillEvent) = {},
           NEW a, a = call.working, NEW k, k = call.next,
           NEW b, b = ApplyFill(a, FillEvent)
    PROVE  /\ AccountSound(b) /\ OnPlan(b, plan) /\ b.plan = plan.id
           /\ DOMAIN b.filled = DOMAIN plan.intents
           /\ \A l \in DOMAIN plan.intents : l # k => b.filled[l] = a.filled[l]
           /\ b.filled[k] = a.filled[k] \/ b.filled[k] = a.filled[k] + FilledLots
           /\ FilledLots = Wanted => b.filled[k] = a.filled[k] + FilledLots
           /\ \A i \in Instruments : i # Intent.instrument => b.position[i] = a.position[i]
           /\ \/ b.position[Intent.instrument] = a.position[Intent.instrument]
              \/ b.position[Intent.instrument] = a.position[Intent.instrument] + FillEvent.delta
<1> DEFINE e == FillEvent
           n == FilledLots
           h == a.position[Intent.instrument]
<1>1. /\ PlanSound(plan) /\ AccountSound(a) /\ OnPlan(a, plan) /\ a.plan = plan.id
      /\ plan.id \in Nat
      /\ k \in DOMAIN plan.intents /\ Intent = plan.intents[k]
      /\ Intent.instrument \in Instruments /\ Intent.delta \in Int
      /\ a.position \in Books /\ h \in Int
      /\ a.filled[k] \in Nat
  BY CallParts
<1>2. /\ Wanted \in Nat \ {0} /\ Abs(Intent.delta) = a.filled[k] + Wanted
      /\ n \in Nat /\ n <= Wanted
      /\ e \in FillEvents /\ e.plan = plan.id /\ e.intent = k
      /\ e.instrument = Intent.instrument
      /\ e.delta = IF Intent.delta > 0 THEN n ELSE -n
      /\ e.status = "filled" <=> n = Wanted
  BY FillFacts
<1>3. a \in Accounts /\ IsFiniteSet(a.applied) /\ DOMAIN a.filled = DOMAIN plan.intents
  BY <1>1 DEF AccountSound, OnPlan
<1>4. e.delta \in Int /\ Abs(e.delta) = n
  BY <1>2 DEF Abs
<1> HIDE DEF e, n, h
<1>5. CASE e \in a.applied
  <2>1. b = a
    BY <1>5 DEF ApplyFill, e
  <2>2. n # Wanted
    <3> SUFFICES ASSUME n = Wanted PROVE FALSE
      OBVIOUS
    <3>1. e \in Fills(a)
      BY <1>2, <1>3, <1>5, FillsOf
    <3>2. a.filled[k] = Abs(plan.intents[k].delta)
      BY <1>1, <1>2, <3>1 DEF OnPlan
    <3> QED BY <1>1, <1>2, <3>2
  <2> QED BY <1>1, <1>3, <2>1, <2>2 DEF n
<1>6. CASE e \notin a.applied
  <2>1. Unsound(a, a.cash + CashFlow(a, e), a.equity - Fee(e), e.time) = {}
    BY <1>6 DEF FillHalts, e
  <2>2. /\ h * e.delta < 0 => Abs(e.delta) <= Abs(h)
        /\ Intent.instrument \in Spots => h + e.delta >= 0
        /\ n > 0 => ParentIsFilled(a, plan, k)
    <3>1. CASE n > 0
      <4>1. /\ h \in Int
            /\ Intent.reduce_only => Closes(h, e.delta)
            /\ ~ Intent.reduce_only => Extends(h, e.delta)
            /\ Intent.instrument \in Spots => h + e.delta >= 0
            /\ ParentIsFilled(a, plan, k)
        BY <3>1, FillFits DEF e, n, h
      <4>2. h * e.delta < 0 => Abs(e.delta) <= Abs(h)
        <5> DEFINE d == e.delta
        <5>1. d \in Int /\ (Closes(h, d) \/ Extends(h, d))
          BY <1>4, <4>1
        <5> HIDE DEF d
        <5>2. h * d < 0 => Abs(d) <= Abs(h)
          BY <4>1, <5>1, SignFacts
        <5> QED BY <5>2 DEF d
      <4> QED BY <4>1, <4>2
    <3>2. CASE n = 0
      <4>1. e.delta = 0 /\ Abs(e.delta) = 0 /\ h * e.delta = 0
        BY <1>1, <1>4, <3>2 DEF h, Abs
      <4>2. h \in Int /\ Abs(h) \in Nat
        BY <1>1 DEF h, Abs
      <4>3. Intent.instrument \in Spots => h >= 0
        BY <1>1 DEF AccountSound, h
      <4> QED BY <3>2, <4>1, <4>2, <4>3
    <3> QED BY <1>2, <3>1, <3>2
  <2>3. AccountSound(b)
    <3>1. e.intent \in DOMAIN a.filled /\ e.plan <= a.plan
      BY <1>1, <1>2, <1>3
    <3>2. h = a.position[e.instrument]
      BY <1>2 DEF h
    <3>3. e.instrument \in Spots => h + e.delta >= 0
      BY <1>2, <2>2
    <3>4. b = ApplyFill(a, e)
      BY DEF e
    <3> QED BY <1>1, <1>2, <1>6, <2>1, <2>2, <3>1, <3>2, <3>3, <3>4, FillKeepsTheAccount
  <2>4. /\ a.filled[k] < Abs(plan.intents[k].delta)
        /\ a.filled[k] + n <= Abs(plan.intents[k].delta)
        /\ e.status = "filled" => a.filled[k] + n = Abs(plan.intents[k].delta)
        /\ e.instrument = plan.intents[k].instrument
        /\ e.delta = IF plan.intents[k].delta > 0 THEN n ELSE -n
    BY <1>1, <1>2
  <2>5. PlanSound(plan) /\ OnPlan(a, plan) /\ k \in DOMAIN plan.intents
    BY <1>1
  <2>6. e \in FillEvents /\ e.intent = k /\ n \in Nat
    BY <1>2
  <2>7. n > 0 => ParentIsFilled(a, plan, k)
    BY <2>2
  <2>8. b = ApplyFill(a, e)
    BY DEF e
  <2>9. /\ OnPlan(b, plan) /\ b.plan = a.plan
        /\ DOMAIN b.filled = DOMAIN plan.intents
        /\ b.filled[k] = a.filled[k] + n
        /\ \A l \in DOMAIN plan.intents : l # k => b.filled[l] = a.filled[l]
        /\ b.position[e.instrument] = a.position[e.instrument] + e.delta
        /\ \A i \in Instruments : i # e.instrument => b.position[i] = a.position[i]
    BY <1>3, <1>6, <2>4, <2>5, <2>6, <2>7, <2>8, FillOnPlan
  <2> QED BY <1>1, <1>2, <2>3, <2>9 DEF n, e
<1> QED BY <1>5, <1>6

\* ExecuteIntent keeps the invariant: account, progress, liquidity and next
\* move together.
LEMMA ExecuteKeeps ==
    ASSUME BrokerInv, ExecuteIntent
    PROVE  BrokerInv'
<1> DEFINE k == call.next
           a == call.working
           b == ApplyFill(a, FillEvent)
           n == FilledLots
           s == Intent.instrument
           d == FillEvent.delta
           progress == [call.progress EXCEPT ![k] = @ + n]
           liquidity == [call.liquidity EXCEPT ![s] = @ - n]
           latest == Max({call.latest, ObservedAt})
<1>1. /\ Working /\ Wanted # 0 /\ FillHalts(a, Intent, FillEvent) = {}
      /\ UNCHANGED <<account, plan, outcome>>
  BY DEF ExecuteIntent
<1>2. /\ PlanSound(plan) /\ CallSound(call, plan, account) /\ call \in Calls
      /\ k \in DOMAIN plan.intents /\ k \in Nat \ {0}
      /\ Intent = plan.intents[k] /\ s \in Instruments
      /\ Intent.delta \in Int
      /\ a.plan = plan.id /\ a.position \in Books /\ a.position[s] \in Int
      /\ call.liquidity[s] \in Nat
      /\ \A l \in DOMAIN plan.intents : a.filled[l] \in Nat /\ call.progress[l] \in Nat
  BY <1>1, CallParts
<1>3. /\ n \in Nat /\ n <= Wanted /\ Wanted \in Nat \ {0}
      /\ n <= call.liquidity[s]
      /\ call.progress[k] = a.filled[k]
      /\ Abs(Intent.delta) = a.filled[k] + Wanted
      /\ d = IF Intent.delta > 0 THEN n ELSE -n
      /\ ObservedAt \in Int
  BY <1>1, FillFacts
<1>4. /\ AccountSound(b) /\ OnPlan(b, plan) /\ b.plan = plan.id
      /\ DOMAIN b.filled = DOMAIN plan.intents
      /\ \A l \in DOMAIN plan.intents : l # k => b.filled[l] = a.filled[l]
      /\ b.filled[k] = a.filled[k] \/ b.filled[k] = a.filled[k] + n
      /\ n = Wanted => b.filled[k] = a.filled[k] + n
      /\ \A i \in Instruments : i # s => b.position[i] = a.position[i]
      /\ b.position[s] = a.position[s] \/ b.position[s] = a.position[s] + d
  BY <1>1, ExecuteFacts
<1>5. call' = [call EXCEPT !.working = b, !.progress = progress, !.liquidity = liquidity,
                           !.latest = latest, !.next = k + 1]
  BY DEF ExecuteIntent
<1>6. /\ call.quotes \in QuoteBooks /\ call.liquidity \in [Instruments -> Nat]
      /\ call.progress \in Seq(Nat) /\ call.latest \in Nat
  BY <1>2 DEF Calls
<1>7. latest \in Nat
  <2> DEFINE x == call.latest
             y == ObservedAt
  <2>1. x \in Int /\ y \in Int /\ x >= 0
    BY <1>3, <1>6
  <2> HIDE DEF x, y
  <2>2. Max({x, y}) \in {x, y} /\ Max({x, y}) >= x
    BY <2>1, MaxOfTwo
  <2> QED BY <2>1, <2>2 DEF latest, x, y
<1>8. DOMAIN call.progress = DOMAIN plan.intents
  BY <1>2 DEF CallSound
<1>9. /\ progress \in Seq(Nat) /\ DOMAIN progress = DOMAIN plan.intents
      /\ progress[k] = a.filled[k] + n
      /\ \A l \in DOMAIN plan.intents : l # k => progress[l] = call.progress[l]
  <2> DEFINE m == call.progress[k] + n
  <2>1. m \in Nat /\ m = a.filled[k] + n
    BY <1>2, <1>3
  <2>2. progress = [call.progress EXCEPT ![k] = m]
    OBVIOUS
  <2> HIDE DEF m, progress, k
  <2>3. progress \in Seq(Nat)
    BY <1>2, <1>6, <1>8, <2>1, <2>2
  <2>4. DOMAIN progress = DOMAIN plan.intents /\ progress[k] = m
    BY <1>2, <1>6, <1>8, <2>1, <2>2
  <2>5. \A l \in DOMAIN plan.intents : l # k => progress[l] = call.progress[l]
    BY <1>8, <2>2
  <2> QED BY <2>1, <2>3, <2>4, <2>5
<1>10. /\ liquidity \in [Instruments -> Nat]
       /\ liquidity[s] = call.liquidity[s] - n
       /\ \A i \in Instruments : i # s => liquidity[i] = call.liquidity[i]
  <2> DEFINE m == call.liquidity[s] - n
  <2>1. m \in Nat
    BY <1>2, <1>3
  <2>2. liquidity = [call.liquidity EXCEPT ![s] = m]
    OBVIOUS
  <2> HIDE DEF m, liquidity, s
  <2>3. liquidity \in [Instruments -> Nat] /\ liquidity[s] = m
    BY <1>2, <1>6, <2>1, <2>2
  <2>4. \A i \in Instruments : i # s => liquidity[i] = call.liquidity[i]
    BY <1>6, <2>2
  <2> QED BY <2>3, <2>4 DEF m
<1> HIDE DEF k, a, b, n, s, d, progress, liquidity, latest
<1>11. call' = [ working |-> b, quotes |-> call.quotes, liquidity |-> liquidity,
                 progress |-> progress, latest |-> latest, next |-> k + 1 ]
  BY <1>2, <1>5 DEF Calls
<1>12. b \in Accounts /\ a.plan = plan.id /\ AccountFits(b, plan)
  <2>1. plan.id <= plan.id
    BY <1>2, PlanParts
  <2> QED BY <1>2, <1>4, <2>1 DEF AccountSound, AccountFits
<1>13. call' \in Calls
  <2>1. k + 1 \in Nat
    BY <1>2
  <2> QED BY <1>6, <1>7, <1>9, <1>10, <1>11, <1>12, <2>1 DEF Calls
<1>14. /\ call'.working = b /\ call'.quotes = call.quotes /\ call'.liquidity = liquidity
       /\ call'.progress = progress /\ call'.next = k + 1
  BY <1>11
<1>15. \A l \in DOMAIN plan.intents :
        /\ a.filled[l] <= call.progress[l]
        /\ call.progress[l] <= Abs(plan.intents[l].delta)
        /\ l >= k => call.progress[l] = a.filled[l]
        /\ call.progress[l] = Abs(plan.intents[l].delta) => a.filled[l] = call.progress[l]
        /\ account.plan = plan.id => account.filled[l] <= a.filled[l]
  BY <1>2 DEF CallSound, a, k
<1>16. ASSUME NEW l \in DOMAIN plan.intents
       PROVE  /\ b.filled[l] <= progress[l]
              /\ progress[l] <= Abs(plan.intents[l].delta)
              /\ l >= k + 1 => progress[l] = b.filled[l]
              /\ progress[l] = Abs(plan.intents[l].delta) => b.filled[l] = progress[l]
              /\ account.plan = plan.id => account.filled[l] <= b.filled[l]
  <2>1. CASE l = k
    <3>1. account.plan = plan.id => account.filled[l] \in Int
      <4>1. AccountFits(account, plan)
        BY DEF BrokerInv
      <4>2. account.plan = plan.id => DOMAIN account.filled = DOMAIN plan.intents
        BY <4>1 DEF AccountFits, OnPlan
      <4>3. account.filled \in Seq(Nat)
        BY <4>1 DEF AccountFits, AccountSound, Accounts
      <4> QED BY <4>2, <4>3
    <3>2. a.filled[k] \in Nat /\ (k \in Nat) /\ Abs(plan.intents[k].delta) = a.filled[k] + Wanted
      BY <1>2, <1>3
    <3>3. progress[k] = a.filled[k] + n
      BY <1>9
    <3>4. b.filled[k] = a.filled[k] \/ b.filled[k] = a.filled[k] + n
      BY <1>4
    <3>5. n = Wanted => b.filled[k] = a.filled[k] + n
      BY <1>4
    <3>6. account.plan = plan.id => account.filled[k] <= a.filled[k]
      BY <1>2, <1>15
    <3>7. b.filled[k] <= progress[k] /\ progress[k] <= Abs(plan.intents[k].delta)
      BY <1>3, <3>2, <3>3, <3>4
    <3>8. progress[k] = Abs(plan.intents[k].delta) => b.filled[k] = progress[k]
      BY <1>3, <3>2, <3>3, <3>5
    <3>9. account.plan = plan.id => account.filled[k] <= b.filled[k]
      BY <1>3, <2>1, <3>1, <3>2, <3>4, <3>6
    <3>10. ~ (k >= k + 1)
      BY <3>2
    <3> QED BY <2>1, <3>7, <3>8, <3>9, <3>10
  <2>2. CASE l # k
    <3>1. l \in Nat
      BY <1>2, PlanParts
    <3>2. l >= k + 1 => l >= k
      BY <1>2, <3>1
    <3> QED BY <1>4, <1>9, <1>15, <2>2, <3>2
  <2> QED BY <2>1, <2>2
<1>17. ASSUME NEW i \in Instruments
       PROVE  Abs(b.position[i] - account.position[i]) + liquidity[i] <= Capacity(call.quotes[i])
  <2> DEFINE x == a.position[i]
             y == account.position[i]
             z == b.position[i]
             c == Capacity(call.quotes[i])
             q == call.liquidity[i]
  <2>1. Abs(x - y) + q <= c
    BY <1>2 DEF CallSound, a
  <2>2. x \in Int /\ y \in Int /\ q \in Nat /\ c \in Nat
    <3>1. account.position \in Books
      BY DEF BrokerInv, AccountFits, AccountSound, Accounts
    <3>2. c \in Nat
      BY <1>6, CapacityFacts
    <3> QED BY <1>2, <1>6, <3>1, <3>2 DEF Books
  <2>3. CASE i = s
    <3>1. liquidity[i] = q - n
      BY <1>10, <2>3
    <3>2. z = x \/ z = x + d
      BY <1>4, <2>3
    <3>3. d \in Int /\ Abs(d) = n
      BY <1>3 DEF Abs
    <3> HIDE DEF x, y, z, c, q
    <3> DEFINE u == x - y
               v == z - y
    <3>4. u \in Int /\ v \in Int /\ (v = u \/ v = u + d)
      BY <2>2, <3>2, <3>3
    <3>5. Abs(u) + q <= c
      BY <2>1
    <3> HIDE DEF u, v
    <3>6. Abs(u) \in Nat /\ Abs(v) \in Nat /\ Abs(u + d) <= Abs(u) + Abs(d)
      BY <3>3, <3>4, AbsFacts
    <3>7. Abs(v) <= Abs(u) + n
      BY <1>3, <3>3, <3>4, <3>6
    <3>8. Abs(v) + (q - n) <= c
      BY <1>3, <2>2, <3>5, <3>6, <3>7
    <3> QED BY <3>1, <3>8 DEF z, y, c, v
  <2>4. CASE i # s
    BY <1>4, <1>10, <2>1, <2>4
  <2> QED BY <2>3, <2>4
<1>18. CallSound(call', plan, account)
  <2>1. k + 1 \in 1..(Len(plan.intents) + 1)
    BY <1>2, PlanParts
  <2>2. plan.id # NoPlan
    BY <1>2 DEF CallSound
  <2> QED BY <1>4, <1>9, <1>12, <1>13, <1>14, <1>16, <1>17, <2>1, <2>2 DEF CallSound
<1>19. plan' = plan /\ account' = account /\ outcome' = outcome
  BY <1>1
<1>20. PlanSound(plan') /\ AccountFits(account', plan') /\ CallSound(call', plan', account')
  BY <1>18, <1>19 DEF BrokerInv
<1>21. GuardsNeverGoOff'
  BY <1>19 DEF BrokerInv, GuardsNeverGoOff
<1> QED BY <1>20, <1>21 DEF BrokerInv

\* What an account owes to its plan depends on positions, progress and events.
LEMMA OnPlanDependsOn ==
    ASSUME NEW p, NEW a, OnPlan(a, p), NEW b,
           b.position = a.position, b.filled = a.filled, Fills(b) = Fills(a)
    PROVE  OnPlan(b, p)
BY DEF OnPlan

\* Passing over an intent keeps the invariant: earlier calls have filled it.
LEMMA SkipKeeps ==
    ASSUME BrokerInv, SkipIntent
    PROVE  BrokerInv'
<1> DEFINE k == call.next
<1>1. /\ Working /\ call' = [call EXCEPT !.next = k + 1]
      /\ account' = account /\ plan' = plan /\ outcome' = outcome
  BY DEF SkipIntent
<1>2. /\ CallSound(call, plan, account) /\ call \in Calls
      /\ k \in DOMAIN plan.intents /\ k \in Nat \ {0} /\ PlanSound(plan)
  BY <1>1, CallParts
<1>3. /\ call' \in Calls /\ call'.next = k + 1
      /\ call'.working = call.working /\ call'.quotes = call.quotes
      /\ call'.liquidity = call.liquidity /\ call'.progress = call.progress
  <2>1. k + 1 \in Nat
    BY <1>2
  <2> HIDE DEF k
  <2> QED BY <1>1, <1>2, <2>1 DEF Calls
<1>4. DOMAIN plan.intents = 1..Len(plan.intents) /\ Len(plan.intents) \in Nat
  BY <1>2, PlanParts
<1>5. \A l \in DOMAIN plan.intents : l >= k + 1 => l >= k
  BY <1>2, <1>4
<1>6. k + 1 \in 1..(Len(plan.intents) + 1)
  BY <1>2, <1>4
<1> HIDE DEF k
<1>7. k = call.next
  BY DEF k
<1>8. CallSound(call', plan, account)
  BY <1>2, <1>3, <1>5, <1>6, <1>7 DEF CallSound
<1>9. /\ PlanSound(plan') /\ AccountFits(account', plan')
      /\ CallSound(call', plan', account')
  BY <1>1, <1>8 DEF BrokerInv
<1>10. GuardsNeverGoOff'
  BY <1>1 DEF BrokerInv, GuardsNeverGoOff
<1> QED BY <1>9, <1>10 DEF BrokerInv

\* A call that is broken off leaves the account and the plan alone.
LEMMA DroppedCallKeeps ==
    ASSUME BrokerInv, call' = NoCall, account' = account, plan' = plan,
           outcome' \in {"cash", "equity", "clock"}
    PROVE  BrokerInv'
<1>1. PlanSound(plan') /\ AccountFits(account', plan')
  BY DEF BrokerInv
<1>2. GuardsNeverGoOff'
  BY DEF GuardsNeverGoOff
<1> QED BY <1>1, <1>2 DEF BrokerInv

\* A halt keeps the invariant, and is one of the three that may happen: the
\* guards against a wrong plan find nothing (NothingMisfits).
LEMMA HaltsKeep ==
    ASSUME BrokerInv, HaltIntent \/ HaltMark
    PROVE  BrokerInv'
<1>1. \A a, cash, equity, time :
        Unsound(a, cash, equity, time) \subseteq {"cash", "equity", "clock"}
  BY DEF Unsound
<1>2. CASE HaltIntent
  <2> DEFINE a == call.working
             e == FillEvent
  <2>1. /\ Working /\ Wanted # 0 /\ outcome' \in FillHalts(a, Intent, e)
        /\ call' = NoCall /\ account' = account /\ plan' = plan
    BY <1>2 DEF HaltIntent
  <2>2. Executed(e) => Misfit(a, Intent, e) = {}
    BY <2>1, NothingMisfits
  <2> HIDE DEF a, e
  <2>3. FillHalts(a, Intent, e) \subseteq {"cash", "equity", "clock"}
    BY <1>1, <2>2 DEF FillHalts
  <2> QED BY <2>1, <2>3, DroppedCallKeeps
<1>3. CASE HaltMark
  <2>1. /\ outcome' \in MarkHalts(call.working, call.latest, plan.prices)
        /\ call' = NoCall /\ account' = account /\ plan' = plan
    BY <1>3 DEF HaltMark
  <2>2. outcome' \in {"cash", "equity", "clock"}
    BY <1>1, <2>1 DEF MarkHalts
  <2> QED BY <2>1, <2>2, DroppedCallKeeps
<1> QED BY <1>2, <1>3

\* A marked equity is a whole number.
LEMMA EquityIsInt ==
    ASSUME NEW a \in Accounts, NEW prices \in [Instruments -> Nat \ {0}]
    PROVE  MarkedEquity(a, prices) \in Int
<1> DEFINE f == [i \in Instruments |-> a.position[i] * prices[i] - a.entry[i]]
<1>1. a.cash \in Int /\ a.position \in Books /\ a.entry \in Books
  BY DEF Accounts
<1>2. f \in [Instruments -> Int]
  <2> SUFFICES ASSUME NEW i \in Instruments
      PROVE a.position[i] * prices[i] - a.entry[i] \in Int
    OBVIOUS
  <2> DEFINE x == a.position[i]
             y == prices[i]
             z == a.entry[i]
  <2>1. x \in Int /\ y \in Int /\ z \in Int
    BY <1>1 DEF Books
  <2> HIDE DEF x, y, z
  <2>2. x * y - z \in Int
    BY <2>1
  <2> QED BY <2>2 DEF x, y, z
<1> HIDE DEF f
<1>3. SumFunction(f) \in Int
  BY <1>2, InstrumentsFinite, TotalIsInt
<1> QED BY <1>1, <1>3 DEF MarkedEquity, f

\* A call that ends hands its account over, marked.
LEMMA FinishKeeps ==
    ASSUME BrokerInv, FinishCall
    PROVE  BrokerInv'
<1> DEFINE a == call.working
           b == Marked
           worth == MarkedEquity(a, plan.prices)
<1>1. /\ call # NoCall /\ MarkHalts(a, call.latest, plan.prices) = {}
      /\ account' = b /\ outcome' = Reconcile(b) /\ call' = NoCall /\ plan' = plan
  BY DEF FinishCall, Finished
<1>2. /\ PlanSound(plan) /\ CallSound(call, plan, account)
  BY <1>1 DEF BrokerInv
<1>3. /\ call \in Calls /\ AccountFits(a, plan) /\ a.plan = plan.id
  BY <1>2 DEF CallSound
<1>4. call.latest \in Nat
  BY <1>3 DEF Calls
<1>5. AccountSound(a) /\ OnPlan(a, plan) /\ a \in Accounts
  BY <1>3 DEF AccountFits, AccountSound
<1>6. worth \in Int
  <2>1. plan.prices \in [Instruments -> Nat \ {0}]
    BY <1>2, PlanParts
  <2> QED BY <1>5, <2>1, EquityIsInt
<1>7. ~ (worth <= 0)
  BY <1>1, SoundFacts DEF MarkHalts
<1>8. worth \in Nat \ {0}
  <2> HIDE DEF worth
  <2> QED BY <1>6, <1>7
<1>9. b = [a EXCEPT !.equity = worth, !.as_of = call.latest]
  BY DEF Marked, Mark
<1> HIDE DEF worth, a, b
<1>10. /\ b \in Accounts /\ b.plan = a.plan /\ b.filled = a.filled
       /\ b.position = a.position /\ b.entry = a.entry /\ b.fees = a.fees /\ b.cash = a.cash
       /\ b.realized = a.realized /\ b.funding = a.funding /\ b.applied = a.applied
  BY <1>4, <1>5, <1>8, <1>9 DEF Accounts
<1>11. Explained(b) /\ Fills(b) = Fills(a)
  BY <1>5, <1>10, ExplainedDependsOn DEF AccountSound
<1>12. AccountSound(b)
  BY <1>5, <1>10, <1>11 DEF AccountSound
<1>13. OnPlan(b, plan)
  BY <1>5, <1>10, <1>11, OnPlanDependsOn
<1>14. AccountFits(b, plan)
  BY <1>3, <1>10, <1>12, <1>13 DEF AccountFits
<1>15. GuardsNeverGoOff'
  BY <1>1 DEF Reconcile, GuardsNeverGoOff
<1>16. PlanSound(plan') /\ AccountFits(account', plan')
  BY <1>1, <1>2, <1>14
<1> QED BY <1>1, <1>15, <1>16 DEF BrokerInv

\* Funding moves cash alone.
LEMMA FundingKeeps ==
    ASSUME BrokerInv, NEW f \in FundingEvents, PayFunding(f)
    PROVE  BrokerInv'
<1> DEFINE a == account
           b == ApplyFunding(a, f)
           pay == FundingPayment(a, f)
<1>1. /\ call = NoCall /\ FundingHalts(a, f) = {} /\ account' = b
      /\ plan' = plan /\ call' = call /\ outcome' = outcome
  BY DEF PayFunding
<1>2. PlanSound(plan) /\ AccountFits(a, plan) /\ AccountSound(a) /\ a \in Accounts
  BY DEF BrokerInv, AccountFits, AccountSound
<1>3. f.instrument \in Perps /\ f.rate \in Int /\ f.time \in Nat /\ "intent" \notin DOMAIN f
  BY BrokerAssumption
<1>4. pay \in Int
  <2> DEFINE x == a.position[f.instrument]
             y == f.rate
  <2>1. f.instrument \in Instruments
    BY <1>3, InstrumentsFinite
  <2>2. x \in Int /\ y \in Int
    BY <1>2, <1>3, <2>1 DEF Accounts, Books
  <2> HIDE DEF x, y
  <2>3. -(x * y) \in Int
    BY <2>2
  <2> QED BY <2>3 DEF FundingPayment, x, y
<1>5. AccountFits(b, plan)
  <2>1. CASE f \in a.applied
    BY <1>2, <2>1 DEF ApplyFunding
  <2>2. CASE f \notin a.applied
    <3>1. /\ ~ (a.cash + pay < 0) /\ ~ (a.equity + pay <= 0)
      <4>1. Unsound(a, a.cash + pay, a.equity + pay, f.time) = {}
        BY <1>1, <2>2 DEF FundingHalts
      <4> QED BY <4>1, SoundFacts
    <3>2. b = [a EXCEPT !.cash = @ + pay, !.funding = @ + pay, !.equity = @ + pay,
                        !.as_of = f.time, !.applied = @ \cup {f}]
      BY <2>2 DEF ApplyFunding
    <3> HIDE DEF pay
    <3>3. /\ a.cash \in Nat /\ a.funding \in Int /\ a.equity \in Nat /\ a.fees \in Nat
          /\ a.realized \in Int
          /\ a.applied \in SUBSET (FillEvents \cup FundingEvents)
      BY <1>2 DEF Accounts
    <3> DEFINE cash == a.cash + pay
               funding == a.funding + pay
               equity == a.equity + pay
               applied == a.applied \cup {f}
    <3>4. cash \in Nat /\ funding \in Int /\ equity \in Nat \ {0}
      BY <1>4, <3>1, <3>3
    <3>5. applied \in SUBSET (FillEvents \cup FundingEvents) /\ IsFiniteSet(applied)
      <4>1. IsFiniteSet(a.applied)
        BY <1>2 DEF AccountSound
      <4>2. IsFiniteSet(a.applied \cup {f})
        BY <4>1, FS_AddElement
      <4> QED BY <3>3, <4>2
    <3>6. b = [a EXCEPT !.cash = cash, !.funding = funding, !.equity = equity,
                        !.as_of = f.time, !.applied = applied]
      BY <3>2
    <3> HIDE DEF a, b, cash, funding, equity, applied
    <3>7. /\ b \in Accounts /\ b.plan = a.plan /\ b.filled = a.filled
          /\ b.position = a.position /\ b.entry = a.entry /\ b.fees = a.fees
          /\ b.realized = a.realized
          /\ b.cash = cash /\ b.funding = funding /\ b.applied = applied
      BY <1>2, <1>3, <3>4, <3>5, <3>6 DEF Accounts
    <3>8. Fills(b) = Fills(a)
      BY <1>3, <3>7 DEF Fills, applied
    <3>9. Explained(b)
      <4>1. /\ \A i \in Instruments : a.position[i] = NetOf(Fills(a), i)
            /\ a.fees = FeesOf(Fills(a))
            /\ a.cash = StartingCash + a.realized + a.funding - a.fees - SpentOf(Fills(a))
        BY <1>2 DEF AccountSound, Explained
      <4>2. SpentOf(Fills(a)) \in Int /\ StartingCash \in Int
        <5> DEFINE U == { x \in Fills(a) : x.instrument \in Spots }
                   g == [x \in U |-> x.delta * x.price]
        <5>1. Fills(a) \in SUBSET FillEvents /\ IsFiniteSet(Fills(a))
          BY <1>2, FillsOf DEF AccountSound
        <5>2. IsFiniteSet(U) /\ U \subseteq FillEvents
          <6>1. U \subseteq Fills(a)
            OBVIOUS
          <6> QED BY <5>1, <6>1, FS_Subset
        <5>3. g \in [U -> Int]
          BY <5>2, EventFacts
        <5>4. SumFunction(g) \in Int
          <6> HIDE DEF U, g
          <6> QED BY <5>2, <5>3, TotalIsInt
        <5> QED BY <5>4, BrokerAssumption DEF SpentOf
      <4>3. b.cash = StartingCash + b.realized + b.funding - b.fees - SpentOf(Fills(b))
        BY <1>4, <3>3, <3>7, <3>8, <4>1, <4>2 DEF cash, funding
      <4> QED BY <3>7, <3>8, <4>1, <4>3 DEF Explained
    <3>10. AccountSound(b)
      <4>1. IsFiniteSet(b.applied)
        BY <3>5, <3>7
      <4> QED BY <1>2, <3>7, <3>8, <3>9, <4>1 DEF AccountSound
    <3>11. a.plan = plan.id => OnPlan(b, plan)
      BY <1>2, <3>7, <3>8, OnPlanDependsOn DEF AccountFits
    <3> QED BY <1>2, <3>7, <3>10, <3>11 DEF AccountFits
  <2> QED BY <2>1, <2>2
<1> HIDE DEF b
<1>6. PlanSound(plan') /\ AccountFits(account', plan')
  BY <1>1, <1>2, <1>5
<1>7. GuardsNeverGoOff' /\ call' = NoCall
  BY <1>1 DEF BrokerInv, GuardsNeverGoOff
<1> QED BY <1>6, <1>7 DEF BrokerInv

\* How often a plan was executed is of no account to the accounts.
LEMMA CallsAside ==
    ASSUME NEW p, PlanSound(p), p.calls < MaxCalls,
           NEW q, q = [p EXCEPT !.calls = @ + 1]
    PROVE  /\ PlanSound(q)
           /\ \A a : AccountFits(a, p) => AccountFits(a, q)
           /\ \A c, a : CallSound(c, p, a) => CallSound(c, q, a)
<1> DEFINE n == p.calls + 1
<1>1. p \in Plans /\ p.calls \in Nat /\ MaxCalls \in Nat
  BY BrokerAssumption DEF PlanSound, Plans
<1>2. n \in Nat /\ n <= MaxCalls
  BY <1>1
<1>3. q = [p EXCEPT !.calls = n]
  OBVIOUS
<1> HIDE DEF n
<1>4. /\ q \in Plans /\ q.calls = n
      /\ q.id = p.id /\ q.created = p.created /\ q.intents = p.intents
      /\ q.start = p.start /\ q.prices = p.prices /\ q.data = p.data
  BY <1>1, <1>2, <1>3 DEF Plans
<1>5. WithinBudget(q)
  <2>1. Projected(q) = Projected(p)
    BY <1>4 DEF Projected
  <2> QED BY <1>4, <2>1 DEF PlanSound, WithinBudget
<1>6. PlanSound(q)
  BY <1>2, <1>4, <1>5 DEF PlanSound
<1>7. \A a : OnPlan(a, p) => OnPlan(a, q)
  BY <1>4 DEF OnPlan
<1>8. \A a : AccountFits(a, p) => AccountFits(a, q)
  BY <1>4, <1>7 DEF AccountFits
<1>9. \A c, a : CallSound(c, p, a) => CallSound(c, q, a)
  BY <1>4, <1>8 DEF CallSound
<1> QED BY <1>6, <1>8, <1>9

\* A new cycle keeps the invariant: its plan starts from the account that
\* stands, and the risk layer has nothing to refuse in it.
LEMMA BeginKeeps ==
    ASSUME BrokerInv,
           NEW weights \in TargetBooks, NEW prices \in PriceBooks, NEW data \in DataStates,
           NEW quotes \in QuoteBooks, BeginCycle(weights, prices, data, quotes)
    PROVE  BrokerInv'
<1> DEFINE p == BuildPlan(account, weights, prices, data)
<1>1. call = NoCall /\ plan.id < MaxCycles
  BY DEF BeginCycle
<1>2. PlanSound(plan) /\ AccountFits(account, plan) /\ AccountSound(account)
      /\ account.plan \in Nat /\ account.plan <= plan.id /\ plan.id \in Nat
  <2>1. PlanSound(plan) /\ AccountFits(account, plan) /\ AccountSound(account)
    BY DEF BrokerInv, AccountFits
  <2>2. account.plan \in Nat
    BY <2>1 DEF AccountSound, Accounts
  <2> QED BY <2>1, <2>2, PlanParts DEF AccountFits
<1>3. /\ PlanSound(p) /\ p.id = plan.id + 1 /\ p.start = account
      /\ ~ EscapedRisk(p, RiskDecision(account, weights, prices, data))
  <2>1. p = BuildPlan(account, weights, prices, data)
    OBVIOUS
  <2> HIDE DEF p
  <2> QED BY <1>1, <1>2, <2>1, BuildPlanFacts
<1>4. plan' = p /\ StartCall(p, quotes)
  BY <1>3 DEF BeginCycle
<1> HIDE DEF p
<1>5. AccountFits(account, p) /\ p.id # NoPlan
  <2>1. account.plan < p.id /\ account.plan # p.id /\ account.plan <= p.id /\ p.id # 0
    BY <1>2, <1>3
  <2> QED BY <1>2, <1>3, <2>1 DEF AccountFits, NoPlan
<1>6. /\ AccountFits(account', p)
      /\ call' # NoCall => CallSound(call', p, account')
      /\ outcome' \in {outcome, "complete"}
  BY <1>1, <1>3, <1>4, <1>5, StartCallFacts
<1>7. GuardsNeverGoOff'
  BY <1>6 DEF BrokerInv, GuardsNeverGoOff
<1>8. PlanSound(plan') /\ AccountFits(account', plan')
      /\ (call' # NoCall => CallSound(call', plan', account'))
  BY <1>3, <1>4, <1>6
<1> QED BY <1>7, <1>8 DEF BrokerInv

\* Executing the last plan again keeps the invariant.
LEMMA ResumeKeeps ==
    ASSUME BrokerInv, NEW quotes \in QuoteBooks, Resume(quotes)
    PROVE  BrokerInv'
<1> DEFINE q == [plan EXCEPT !.calls = @ + 1]
<1>1. /\ call = NoCall /\ plan.id # NoPlan /\ plan.calls < MaxCalls
      /\ plan' = q /\ StartCall(plan, quotes)
  BY DEF Resume
<1>2. PlanSound(plan) /\ AccountFits(account, plan)
  BY DEF BrokerInv
<1>3. /\ AccountFits(account', plan)
      /\ call' # NoCall => CallSound(call', plan, account')
      /\ outcome' \in {outcome, "complete"}
  BY <1>1, <1>2, StartCallFacts
<1>4. /\ PlanSound(q)
      /\ \A a : AccountFits(a, plan) => AccountFits(a, q)
      /\ \A c, a : CallSound(c, plan, a) => CallSound(c, q, a)
  BY <1>1, <1>2, CallsAside
<1> HIDE DEF q
<1>5. PlanSound(plan') /\ AccountFits(account', plan')
      /\ (call' # NoCall => CallSound(call', plan', account'))
  BY <1>1, <1>3, <1>4
<1>6. GuardsNeverGoOff'
  BY <1>3 DEF BrokerInv, GuardsNeverGoOff
<1> QED BY <1>5, <1>6 DEF BrokerInv

\* A fresh account is explained by no event at all.
LEMMA FreshAccountIsSound ==
    ASSUME NEW a, a = FreshAccount(StartingCash)
    PROVE  /\ AccountSound(a) /\ a.plan = NoPlan /\ a.equity = StartingCash
           /\ a.filled = << >>
           /\ \A i \in Instruments : a.position[i] = 0
<1> DEFINE zero == [i \in Instruments |-> 0]
           none == [k \in {} |-> 0]
<1>1. StartingCash \in Nat \ {0}
  BY BrokerAssumption
<1>2. zero \in Books /\ \A i \in Instruments : zero[i] = 0
  BY DEF Books
<1> HIDE DEF zero
<1>3. a = [ cash |-> StartingCash, position |-> zero, entry |-> zero, realized |-> 0,
            funding |-> 0, fees |-> 0, equity |-> StartingCash, as_of |-> 0,
            plan |-> NoPlan, filled |-> << >>, applied |-> {} ]
  BY DEF FreshAccount, zero
<1>4. << >> \in Seq(Nat)
  OBVIOUS
<1>5. a \in Accounts
  BY <1>1, <1>2, <1>3, <1>4 DEF Accounts, NoPlan
<1>6. /\ a.cash = StartingCash /\ a.position = zero /\ a.entry = zero /\ a.realized = 0
      /\ a.funding = 0 /\ a.fees = 0 /\ a.equity = StartingCash
      /\ a.plan = NoPlan /\ a.filled = << >> /\ a.applied = {}
  BY <1>3
<1>7. Fills(a) = {}
  BY <1>6 DEF Fills
<1>8. FeesOf({}) = 0 /\ SpentOf({}) = 0 /\ \A i \in Instruments : NetOf({}, i) = 0
  <2>1. \A f : DOMAIN f = {} => SumFunction(f) = 0
    BY TotalOfNothing
  <2>2. FeesOf({}) = 0
    BY <2>1 DEF FeesOf
  <2>3. SpentOf({}) = 0
    BY <2>1 DEF SpentOf
  <2>4. ASSUME NEW i \in Instruments PROVE NetOf({}, i) = 0
    BY <2>1 DEF NetOf
  <2> QED BY <2>2, <2>3, <2>4
<1>9. Explained(a)
  <2>1. StartingCash = StartingCash + 0 + 0 - 0 - 0
    BY <1>1
  <2> QED BY <1>2, <1>6, <1>7, <1>8, <2>1 DEF Explained
<1>10. \A i \in Spots : i \in Instruments
  BY DEF Spots
<1>11. IsFiniteSet(a.applied)
  BY <1>6, FS_EmptySet
<1>12. \A i \in Instruments : EntryFits(a.position[i], a.entry[i])
  BY <1>2, <1>6 DEF EntryFits
<1>13. \A i \in Spots : a.position[i] >= 0 /\ a.entry[i] = 0
  BY <1>2, <1>6, <1>10
<1>14. AccountSound(a)
  BY <1>5, <1>7, <1>9, <1>11, <1>12, <1>13 DEF AccountSound
<1> QED BY <1>2, <1>6, <1>14

\* The fresh account and the empty plan satisfy the invariant.
LEMMA InitHolds ==
    ASSUME Init
    PROVE  BrokerInv
<1> DEFINE a == FreshAccount(StartingCash)
           p == NoPlanYet
           d == CHOOSE d \in DataStates : TRUE
           ones == [i \in Instruments |-> 1]
<1>1. account = a /\ plan = p /\ call = NoCall /\ outcome = "none"
  BY DEF Init
<1>2. /\ AccountSound(a) /\ a.plan = NoPlan /\ a.equity = StartingCash
      /\ a.filled = << >>
      /\ \A i \in Instruments : a.position[i] = 0
  <2>1. a = FreshAccount(StartingCash)
    OBVIOUS
  <2> HIDE DEF a
  <2> QED BY <2>1, FreshAccountIsSound
<1>3. d \in DataStates
  BY BrokerAssumption
<1>4. ones \in [Instruments -> Nat \ {0}]
  OBVIOUS
<1> HIDE DEF a, d, ones
<1>5. p = [ id |-> NoPlan, created |-> 0, intents |-> << >>, start |-> a, prices |-> ones,
            data |-> d, calls |-> 0 ]
  BY DEF NoPlanYet, a, d, ones
<1> HIDE DEF p
<1>6. << >> \in Seq(Orders)
  OBVIOUS
<1>7. a \in Accounts
  BY <1>2 DEF AccountSound
<1>8. p \in Plans
  BY <1>3, <1>4, <1>5, <1>6, <1>7 DEF Plans, NoPlan
<1>9. /\ p.id = NoPlan /\ p.intents = << >> /\ p.start = a /\ p.prices = ones /\ p.calls = 0
  BY <1>5
<1>10. DOMAIN p.intents = {}
  BY <1>9
<1>11. ASSUME NEW i \in Instruments, NEW f, DOMAIN f = LegsOf(p.intents, i)
       PROVE  SumFunction(f) = 0
  <2>1. LegsOf(p.intents, i) = {}
    BY <1>10 DEF LegsOf
  <2> QED BY <1>11, <2>1, TotalOfNothing
<1>12. PlanShape(p.start.position, p.intents)
  BY <1>6, <1>9, <1>10 DEF PlanShape
<1>13. WithinBudget(p)
  <2> DEFINE book == [i \in Instruments |-> 100 * Projected(p)[i] * p.prices[i]]
  <2>1. ASSUME NEW i \in Instruments PROVE Projected(p)[i] = 0
    <3>1. SumFunction([k \in LegsOf(p.intents, i) |-> p.intents[k].delta]) = 0
      BY <1>11
    <3>2. Projected(p)[i] = p.start.position[i]
             + SumFunction([k \in LegsOf(p.intents, i) |-> p.intents[k].delta])
      BY DEF Projected
    <3> QED BY <1>2, <1>9, <3>1, <3>2
  <2>2. \A i \in Instruments : p.prices[i] \in Int
    BY <1>4, <1>9
  <2>3. ASSUME NEW i \in Instruments PROVE 100 * Projected(p)[i] * p.prices[i] = 0
    BY <2>1, <2>2
  <2>4. book \in Books /\ \A i \in Instruments : book[i] = 0
    BY <2>3 DEF Books
  <2>5. p.start.equity \in Nat \ {0}
    BY <1>2, <1>9, BrokerAssumption
  <2> HIDE DEF book
  <2>6. /\ Gross(book) <= GrossCap * p.start.equity
        /\ Requirement(book) <= Budget(p.start.equity)
    BY <2>4, <2>5, EmptyBookFits
  <2> QED BY <2>6 DEF WithinBudget, book
<1>14. PlanSound(p)
  <2>1. 0 <= MaxCycles /\ 0 <= MaxCalls
    BY BrokerAssumption
  <2> QED BY <1>2, <1>8, <1>9, <1>12, <1>13, <2>1 DEF PlanSound, NoPlan
<1>15. OnPlan(a, p)
  <2>1. a.applied = {}
    BY DEF a, FreshAccount
  <2>2. Fills(a) = {}
    BY <2>1 DEF Fills
  <2>3. DOMAIN a.filled = DOMAIN p.intents
    BY <1>2, <1>9
  <2>4. ASSUME NEW i \in Instruments
        PROVE  a.position[i] = p.start.position[i]
                 + SumFunction([k \in LegsOf(p.intents, i) |->
                     IF p.intents[k].delta > 0 THEN a.filled[k] ELSE -a.filled[k]])
    <3>1. SumFunction([k \in LegsOf(p.intents, i) |->
             IF p.intents[k].delta > 0 THEN a.filled[k] ELSE -a.filled[k]]) = 0
      BY <1>11
    <3> QED BY <1>2, <1>9, <3>1
  <2> QED BY <1>10, <2>2, <2>3, <2>4 DEF OnPlan
<1>16. AccountFits(a, p)
  <2>1. a.plan <= p.id
    BY <1>2, <1>9 DEF NoPlan
  <2> QED BY <1>2, <1>9, <1>15, <2>1 DEF AccountFits
<1>17. GuardsNeverGoOff
  BY <1>1 DEF GuardsNeverGoOff
<1> QED BY <1>1, <1>14, <1>16, <1>17 DEF BrokerInv

\* The invariant speaks of the variables only.
LEMMA NothingChanges ==
    ASSUME BrokerInv, UNCHANGED vars
    PROVE  BrokerInv'
<1>1. account' = account /\ plan' = plan /\ call' = call /\ outcome' = outcome
  BY DEF vars
<1>2. PlanSound(plan') /\ AccountFits(account', plan')
      /\ (call' # NoCall => CallSound(call', plan', account'))
  BY <1>1 DEF BrokerInv
<1>3. GuardsNeverGoOff'
  BY <1>1 DEF BrokerInv, GuardsNeverGoOff
<1> QED BY <1>2, <1>3 DEF BrokerInv

-----------------------------------------------------------------------------
(***************************************************************************)
(* The properties of the runs                                              *)
(***************************************************************************)

\* BrokerInv holds in every state, for all markets, limits, quotes and events
\* the assumptions allow.
THEOREM BrokerInvariance == Spec => []BrokerInv
<1>1. Init => BrokerInv
  BY InitHolds
<1>2. BrokerInv /\ [Next]_vars => BrokerInv'
  <2> SUFFICES ASSUME BrokerInv, [Next]_vars PROVE BrokerInv'
    OBVIOUS
  <2>1. ASSUME NEW weights \in TargetBooks, NEW prices \in PriceBooks, NEW data \in DataStates,
               NEW quotes \in QuoteBooks, BeginCycle(weights, prices, data, quotes)
        PROVE  BrokerInv'
    BY <2>1, BeginKeeps
  <2>2. ASSUME NEW quotes \in QuoteBooks, Resume(quotes) PROVE BrokerInv'
    BY <2>2, ResumeKeeps
  <2>3. CASE SkipIntent
    BY <2>3, SkipKeeps
  <2>4. CASE ExecuteIntent
    BY <2>4, ExecuteKeeps
  <2>5. CASE HaltIntent
    BY <2>5, HaltsKeep
  <2>6. CASE FinishCall
    BY <2>6, FinishKeeps
  <2>7. CASE HaltMark
    BY <2>7, HaltsKeep
  <2>8. ASSUME NEW f \in FundingEvents, PayFunding(f) PROVE BrokerInv'
    BY <2>8, FundingKeeps
  <2>9. CASE UNCHANGED vars
    BY <2>9, NothingChanges
  <2> QED BY <2>1, <2>2, <2>3, <2>4, <2>5, <2>6, <2>7, <2>8, <2>9 DEF Next
<1> QED BY <1>1, <1>2, PTL DEF Spec

\* The accounts that stand are sound, and work on no plan but the last one.
LEMMA StandingIsSound ==
    ASSUME BrokerInv, NEW a \in Standing
    PROVE  AccountFits(a, plan)
<1>1. a = account \/ (call # NoCall /\ a = call.working)
  BY DEF Standing
<1>2. CASE a = account
  BY <1>2 DEF BrokerInv
<1>3. CASE call # NoCall /\ a = call.working
  BY <1>3 DEF BrokerInv, CallSound
<1> QED BY <1>1, <1>2, <1>3

\* A sound account has the type the runs check.
LEMMA SoundAccountIsOK ==
    ASSUME NEW a, AccountFits(a, plan), PlanSound(plan)
    PROVE  AccountOK(a)
<1>1. /\ a.cash \in Nat /\ a.equity \in Nat \ {0} /\ a.fees \in Nat
      /\ a.realized \in Int /\ a.funding \in Int
      /\ a.position \in [Instruments -> Int] /\ a.entry \in [Instruments -> Int]
      /\ a.as_of \in Nat /\ a.plan \in Nat
  BY DEF AccountFits, AccountSound, Accounts, Books
<1>2. /\ \A i \in Spots : a.position[i] >= 0 /\ a.entry[i] = 0
      /\ \A i \in Instruments : EntryFits(a.position[i], a.entry[i])
  BY DEF AccountFits, AccountSound
<1>3. ASSUME NEW i \in Perps PROVE a.position[i] * a.entry[i] >= 0
  <2> DEFINE x == a.position[i]
             y == a.entry[i]
  <2>1. i \in Instruments
    BY InstrumentsFinite
  <2>2. x \in Int /\ y \in Int /\ EntryFits(x, y)
    BY <1>1, <1>2, <2>1
  <2> HIDE DEF x, y
  <2>3. CASE x > 0 /\ y >= 0
    <3>1. x * y >= 0
      BY <2>2, <2>3
    <3> QED BY <3>1 DEF x, y
  <2>4. CASE x < 0 /\ y <= 0
    <3>1. (-x) * (-y) >= 0 /\ (-x) * (-y) = x * y
      BY <2>2, <2>4
    <3> QED BY <3>1 DEF x, y
  <2>5. CASE x = 0
    <3>1. x * y = 0
      BY <2>2, <2>5
    <3> QED BY <3>1 DEF x, y
  <2> QED BY <2>2, <2>3, <2>4, <2>5 DEF EntryFits
<1>4. a.plan \in 0..MaxCycles
  <2>1. a.plan <= plan.id /\ plan.id <= MaxCycles /\ plan.id \in Nat /\ MaxCycles \in Nat
    BY PlanParts, BrokerAssumption DEF AccountFits, PlanSound
  <2> QED BY <1>1, <2>1
<1> QED BY <1>1, <1>2, <1>3, <1>4 DEF AccountOK

\* The broker's state keeps its type: cash is never negative, equity stays
\* positive, spot is never sold short (PaperAccount, execute_paper_plan).
THEOREM BrokerTypeCorrect == Spec => []BrokerTypeOK
<1>1. BrokerInv => BrokerTypeOK
  <2> SUFFICES ASSUME BrokerInv PROVE BrokerTypeOK
    OBVIOUS
  <2>1. PlanSound(plan) /\ AccountFits(account, plan)
    BY DEF BrokerInv
  <2>2. AccountOK(account)
    BY <2>1, SoundAccountIsOK
  <2>3. plan.id \in 0..MaxCycles /\ plan.calls \in 0..MaxCalls
    <3>1. plan.id \in Nat /\ plan.calls \in Nat /\ plan.id <= MaxCycles /\ plan.calls <= MaxCalls
      BY <2>1, PlanParts DEF PlanSound
    <3>2. MaxCycles \in Nat /\ MaxCalls \in Nat
      BY BrokerAssumption
    <3> QED BY <3>1, <3>2
  <2>4. call # NoCall => /\ AccountOK(call.working)
                         /\ call.next \in 1..(Len(plan.intents) + 1)
                         /\ DOMAIN call.progress = DOMAIN plan.intents
    <3> SUFFICES ASSUME call # NoCall
        PROVE  /\ AccountOK(call.working)
               /\ call.next \in 1..(Len(plan.intents) + 1)
               /\ DOMAIN call.progress = DOMAIN plan.intents
      OBVIOUS
    <3>1. CallSound(call, plan, account)
      BY DEF BrokerInv
    <3>2. AccountOK(call.working)
      BY <2>1, <3>1, SoundAccountIsOK DEF CallSound
    <3> QED BY <3>1, <3>2 DEF CallSound
  <2>5. outcome \in {"none", "complete", "ok", "warn", "halt", "escaped", "cash",
                     "equity", "clock", "plan", "overfill", "status", "direction",
                     "crossing"}
    BY DEF BrokerInv, GuardsNeverGoOff
  <2> QED BY <2>2, <2>3, <2>4, <2>5 DEF BrokerTypeOK
<1> QED BY <1>1, BrokerInvariance, PTL

\* The accounting identity: positions, fees and cash are what the applied
\* events add up to, whatever was resumed, repeated or broken off
\* (apply_fill_event, apply_funding_event).
THEOREM EventsAlwaysExplainTheAccount == Spec => []EventsExplainTheAccount
<1>1. BrokerInv => EventsExplainTheAccount
  <2> SUFFICES ASSUME BrokerInv, NEW a \in Standing
      PROVE  /\ \A i \in Instruments :
                  a.position[i] =
                      SumFunction([e \in { e \in Fills(a) : e.instrument = i } |-> e.delta])
             /\ a.fees = SumFunction([e \in Fills(a) |-> Fee(e)])
             /\ a.cash = StartingCash + a.realized + a.funding - a.fees
                          - SumFunction([e \in { e \in Fills(a) : e.instrument \in Spots }
                                           |-> e.delta * e.price])
    BY DEF EventsExplainTheAccount
  <2>1. Explained(a)
    BY StandingIsSound DEF AccountFits, AccountSound
  <2> QED BY <2>1 DEF Explained, NetOf, FeesOf, SpentOf
<1> QED BY <1>1, BrokerInvariance, PTL

\* Positions stand where the progress of the plan has brought them, no order is
\* overfilled, and an opening leg waits for its close (execute_paper_plan).
THEOREM ProgressAlwaysExplainsPositions == Spec => []ProgressExplainsPositions
<1>1. BrokerInv => ProgressExplainsPositions
  <2> SUFFICES ASSUME BrokerInv, NEW a \in Standing, a.plan = plan.id
      PROVE  /\ \A i \in Instruments :
                  a.position[i] = plan.start.position[i]
                      + SumFunction([k \in LegsOf(plan.intents, i) |-> SignedFill(a, k)])
             /\ \A k \in DOMAIN plan.intents :
                  /\ a.filled[k] <= Abs(plan.intents[k].delta)
                  /\ a.filled[k] > 0 => \A j \in ParentOf(plan.intents, k) :
                                          a.filled[j] = Abs(plan.intents[j].delta)
    BY DEF ProgressExplainsPositions
  <2>1. OnPlan(a, plan)
    BY StandingIsSound DEF AccountFits
  <2> QED BY <2>1 DEF OnPlan, SignedFill
<1> QED BY <1>1, BrokerInvariance, PTL

\* No call moves a position by more than the usable liquidity of its quote,
\* close and opening taken together (_quote_capacities).
THEOREM LiquidityIsAlwaysShared == Spec => []LiquidityIsShared
<1>1. BrokerInv => LiquidityIsShared
  <2> SUFFICES ASSUME BrokerInv, call # NoCall, NEW i \in Instruments
      PROVE  Abs(call.working.position[i] - account.position[i]) <= Capacity(call.quotes[i])
    BY DEF LiquidityIsShared
  <2> DEFINE x == call.working.position[i]
             y == account.position[i]
             c == Capacity(call.quotes[i])
             q == call.liquidity[i]
  <2>1. CallSound(call, plan, account) /\ AccountFits(account, plan)
    BY DEF BrokerInv
  <2>2. Abs(x - y) + q <= c /\ call \in Calls
    BY <2>1 DEF CallSound
  <2>3. call.working \in Accounts /\ account \in Accounts
    BY <2>1, <2>2 DEF AccountFits, AccountSound, Calls
  <2>4. x \in Int /\ y \in Int /\ q \in Nat
    BY <2>2, <2>3 DEF Accounts, Books, Calls
  <2>5. c \in Nat
    BY <2>2, CapacityFacts DEF Calls
  <2> DEFINE u == Abs(x - y)
  <2>6. u \in Nat
    BY <2>4 DEF Abs
  <2>7. u + q <= c /\ q \in Nat
    BY <2>2, <2>4
  <2> HIDE DEF u, c, q
  <2>8. u <= c
    BY <2>5, <2>6, <2>7
  <2> QED BY <2>8 DEF u, c
<1> QED BY <1>1, BrokerInvariance, PTL

\* Whatever a strategy asks for, an executed plan keeps inside the gross cap
\* and the reserve (apply_pretrade_risk, build_execution_plan).
THEOREM PlansAlwaysFitTheBudget == Spec => []PlansFitTheBudget
<1>1. BrokerInv => PlansFitTheBudget
  BY DEF BrokerInv, PlanSound, WithinBudget, PlansFitTheBudget
<1> QED BY <1>1, BrokerInvariance, PTL

\* The guards of apply_fill_event and run_paper_cycle against wrong plans,
\* overfilling, crossing fills and escaped risk never go off.
THEOREM GuardsAreNeverNeeded == Spec => []GuardsNeverGoOff
<1>1. BrokerInv => GuardsNeverGoOff
  BY DEF BrokerInv
<1> QED BY <1>1, BrokerInvariance, PTL

-----------------------------------------------------------------------------
(***************************************************************************)
(* The chronology of the account                                           *)
(***************************************************************************)

\* Times of events and clocks are numbers.
TimesAreInts(a) ==
    a.as_of \in Int /\ \A e \in a.applied : e.time \in Int

\* A sound account has them.
LEMMA AccountTimes ==
    ASSUME NEW a \in Accounts
    PROVE  TimesAreInts(a)
<1>1. a.as_of \in Nat /\ a.applied \subseteq FillEvents \cup FundingEvents
  BY DEF Accounts
<1>2. \A e \in FillEvents : e.time \in Int
  BY DEF FillEvents
<1>3. \A f \in FundingEvents : f.time \in Int
  BY BrokerAssumption
<1> QED BY <1>1, <1>2, <1>3 DEF TimesAreInts

\* What follows what follows an account follows the account.
LEMMA FollowsOn ==
    ASSUME NEW a, NEW b, NEW c, TimesAreInts(a), TimesAreInts(b), TimesAreInts(c),
           Follows(b, a), Follows(c, b)
    PROVE  Follows(c, a)
<1>1. a.as_of \in Int /\ b.as_of \in Int /\ c.as_of \in Int
      /\ a.as_of <= b.as_of /\ b.as_of <= c.as_of
  BY DEF TimesAreInts, Follows
<1>2. a.as_of <= c.as_of
  BY <1>1
<1>3. ASSUME NEW e \in c.applied \ a.applied PROVE e.time \in a.as_of..c.as_of
  <2>1. e.time \in Int
    BY DEF TimesAreInts
  <2>2. CASE e \in b.applied
    <3>1. e.time \in a.as_of..b.as_of
      BY <1>3, <2>2 DEF Follows
    <3> QED BY <1>1, <2>1, <3>1
  <2>3. CASE e \notin b.applied
    <3>1. e.time \in b.as_of..c.as_of
      BY <1>3, <2>3 DEF Follows
    <3> QED BY <1>1, <2>1, <3>1
  <2> QED BY <2>2, <2>3
<1> QED BY <1>2, <1>3 DEF Follows

\* An account whose clock moves on and that applies no event.
LEMMA FollowsByClock ==
    ASSUME NEW a, NEW b, TimesAreInts(a), b.applied = a.applied,
           b.as_of \in Int, ~ (b.as_of < a.as_of)
    PROVE  Follows(b, a)
BY DEF Follows, TimesAreInts

\* An account that applies an event that is not older than itself.
LEMMA FollowsByEvent ==
    ASSUME NEW a, NEW b, NEW e, TimesAreInts(a), b.applied = a.applied \cup {e},
           e.time \in Int, b.as_of = e.time, ~ (e.time < a.as_of)
    PROVE  Follows(b, a)
BY DEF Follows, TimesAreInts

\* A fill that goes through.
LEMMA FillFollows ==
    ASSUME NEW a \in Accounts, NEW intent, NEW e, e.time \in Int,
           FillHalts(a, intent, e) = {},
           NEW b, b = ApplyFill(a, e)
    PROVE  Follows(b, a)
<1>1. TimesAreInts(a)
  BY AccountTimes
<1>2. CASE e \in a.applied
  <2>1. b = a
    BY <1>2 DEF ApplyFill
  <2> QED BY <1>1, <2>1 DEF Follows, TimesAreInts
<1>3. CASE e \notin a.applied
  <2>1. Unsound(a, a.cash + CashFlow(a, e), a.equity - Fee(e), e.time) = {}
    BY <1>3 DEF FillHalts
  <2>2. ~ (e.time < a.as_of)
    BY <2>1, SoundFacts
  <2>3. b.as_of = e.time /\ b.applied = a.applied \cup {e}
    BY <1>3 DEF ApplyFill, Accounts
  <2> QED BY <1>1, <2>2, <2>3, FollowsByEvent
<1> QED BY <1>2, <1>3

\* A funding event that goes through.
LEMMA FundingFollows ==
    ASSUME NEW a \in Accounts, NEW f \in FundingEvents, FundingHalts(a, f) = {},
           NEW b, b = ApplyFunding(a, f)
    PROVE  Follows(b, a)
<1>1. TimesAreInts(a) /\ f.time \in Int
  BY AccountTimes, BrokerAssumption
<1>2. CASE f \in a.applied
  <2>1. b = a
    BY <1>2 DEF ApplyFunding
  <2> QED BY <1>1, <2>1 DEF Follows, TimesAreInts
<1>3. CASE f \notin a.applied
  <2>1. Unsound(a, a.cash + FundingPayment(a, f), a.equity + FundingPayment(a, f), f.time) = {}
    BY <1>3 DEF FundingHalts
  <2>2. ~ (f.time < a.as_of)
    BY <2>1, SoundFacts
  <2>3. b.as_of = f.time /\ b.applied = a.applied \cup {f}
    BY <1>3 DEF ApplyFunding, Accounts
  <2> QED BY <1>1, <2>2, <2>3, FollowsByEvent
<1> QED BY <1>2, <1>3

\* Taking up a plan does not turn the clock back.
LEMMA ActivateFollows ==
    ASSUME NEW a \in Accounts, NEW p, p.created \in Nat, NEW b, b = Activate(a, p)
    PROVE  Follows(b, a)
<1>1. TimesAreInts(a)
  BY AccountTimes
<1>2. CASE a.plan = p.id
  <2>1. b = a
    BY <1>2 DEF Activate
  <2> QED BY <1>1, <2>1 DEF Follows, TimesAreInts
<1>3. CASE a.plan # p.id
  <2> DEFINE x == a.as_of
             y == p.created
             t == Max({x, y})
  <2>1. b.as_of = t /\ b.applied = a.applied
    BY <1>3 DEF Activate, Accounts
  <2>2. x \in Int /\ y \in Int
    BY <1>1 DEF TimesAreInts
  <2> HIDE DEF x, y
  <2>3. t \in {x, y} /\ x <= t
    BY <2>2, MaxOfTwo
  <2> HIDE DEF t
  <2>4. t \in Int /\ ~ (t < x)
    BY <2>2, <2>3
  <2> QED BY <1>1, <2>1, <2>4, FollowsByClock DEF x
<1> QED BY <1>2, <1>3

\* The copy a call works on follows the account that stands.
CallFollows == call # NoCall => Follows(call.working, account)

\* What stands is of the right type, whether a call runs or not.
LEMMA StandingTimes ==
    ASSUME BrokerInv
    PROVE  /\ account \in Accounts /\ TimesAreInts(account)
           /\ call # NoCall =>
                /\ call.working \in Accounts /\ TimesAreInts(call.working)
                /\ call.latest \in Int
<1>1. account \in Accounts
  BY DEF BrokerInv, AccountFits, AccountSound
<1>2. call # NoCall => call.working \in Accounts /\ call.latest \in Int
  BY DEF BrokerInv, CallSound, Calls
<1> QED BY <1>1, <1>2, AccountTimes

\* Account chronology: nothing a call or a funding event adds to the account is
\* dated before the account it found or after the account it leaves (_rebuild,
\* latest_time of execute_paper_plan, activate_paper_plan).
THEOREM TheAccountIsChronological == Spec => AccountIsChronological
<1>1. Init => CallFollows
  BY DEF Init, CallFollows
<1>2. BrokerInv /\ BrokerInv' /\ CallFollows /\ [Next]_vars =>
        CallFollows' /\ [Follows(account', account)]_vars
  <2> SUFFICES ASSUME BrokerInv, BrokerInv', CallFollows, [Next]_vars
               PROVE  CallFollows' /\ Follows(account', account)
    OBVIOUS
  <2>1. /\ account \in Accounts /\ TimesAreInts(account)
        /\ call # NoCall => /\ call.working \in Accounts /\ TimesAreInts(call.working)
                            /\ call.latest \in Int
    BY StandingTimes
  <2>2. /\ account' \in Accounts /\ TimesAreInts(account')
        /\ call' # NoCall => /\ (call').working \in Accounts
                             /\ TimesAreInts((call').working)
    <3>1. account' \in Accounts
      BY DEF BrokerInv, AccountFits, AccountSound
    <3>2. call' # NoCall => (call').working \in Accounts
      BY DEF BrokerInv, CallSound, Calls
    <3> QED BY <3>1, <3>2, AccountTimes
  <2>3. account' = account => Follows(account', account)
    BY <2>1, FollowsByClock DEF TimesAreInts
  \* A call begins with the account, taken to its plan.
  <2>4. ASSUME NEW p, p.created \in Nat, NEW quotes, call = NoCall, StartCall(p, quotes)
        PROVE  CallFollows' /\ Follows(account', account)
    <3> DEFINE active == Activate(account, p)
    <3>1. Follows(active, account)
      BY <2>1, <2>4, ActivateFollows
    <3>2. \/ account' = active /\ call' = call
          \/ account' = account /\ (call').working = active
      BY <2>4 DEF StartCall
    <3> HIDE DEF active
    <3> QED BY <2>3, <2>4, <3>1, <3>2 DEF CallFollows
  <2>5. plan.created \in Nat /\ CyclePeriod \in Nat
    BY BrokerAssumption DEF BrokerInv, PlanSound, Plans
  <2>6. ASSUME NEW weights \in TargetBooks, NEW prices \in PriceBooks, NEW data \in DataStates,
               NEW quotes \in QuoteBooks, BeginCycle(weights, prices, data, quotes)
        PROVE  CallFollows' /\ Follows(account', account)
    <3> DEFINE p == BuildPlan(account, weights, prices, data)
    <3>1. CASE EscapedRisk(p, RiskDecision(account, weights, prices, data))
      <4>1. account' = account /\ call' = NoCall
        BY <2>6, <3>1 DEF BeginCycle
      <4> QED BY <2>3, <4>1 DEF CallFollows
    <3>2. CASE ~ EscapedRisk(p, RiskDecision(account, weights, prices, data))
      <4>1. call = NoCall /\ StartCall(p, quotes)
        BY <2>6, <3>2 DEF BeginCycle
      <4>2. p.created = plan.created + CyclePeriod
        BY DEF BuildPlan
      <4>3. p.created \in Nat
        BY <2>5, <4>2
      <4> QED BY <2>4, <4>1, <4>3
    <3> QED BY <3>1, <3>2
  <2>7. ASSUME NEW quotes \in QuoteBooks, Resume(quotes)
        PROVE  CallFollows' /\ Follows(account', account)
    <3>1. call = NoCall /\ StartCall(plan, quotes)
      BY <2>7 DEF Resume
    <3> QED BY <2>4, <2>5, <3>1
  <2>8. CASE SkipIntent
    <3>1. call # NoCall /\ account' = account
          /\ call' = [call EXCEPT !.next = @ + 1] /\ call \in Calls
      BY <2>8 DEF SkipIntent, Working, BrokerInv, CallSound
    <3>2. (call').working = call.working
      BY <3>1 DEF Calls
    <3> QED BY <2>3, <3>1, <3>2 DEF CallFollows
  <2>9. CASE ExecuteIntent
    <3> DEFINE a == call.working
               b == ApplyFill(a, FillEvent)
    <3>1. /\ Working /\ call # NoCall /\ Wanted # 0 /\ account' = account
          /\ FillHalts(a, Intent, FillEvent) = {}
      BY <2>9 DEF ExecuteIntent, Working
    <3>2. FillEvent.time \in Int
      BY <3>1, FillFacts
    <3>3. Follows(b, a)
      BY <2>1, <3>1, <3>2, FillFollows
    <3>4. (call').working = b
      <4>1. call \in Calls
        BY <3>1 DEF BrokerInv, CallSound
      <4> QED BY <2>9, <4>1 DEF ExecuteIntent, Calls
    <3>5. Follows(a, account)
      BY <3>1 DEF CallFollows
    <3> HIDE DEF a, b
    <3>6. CASE call' # NoCall
      <4>1. Follows(b, account)
        BY <2>1, <2>2, <3>1, <3>3, <3>4, <3>5, <3>6, FollowsOn DEF a
      <4> QED BY <2>3, <3>1, <3>4, <4>1 DEF CallFollows
    <3>7. CASE call' = NoCall
      BY <2>3, <3>1, <3>7 DEF CallFollows
    <3> QED BY <3>6, <3>7
  <2>10. CASE HaltIntent \/ HaltMark
    <3>1. account' = account /\ call' = NoCall
      BY <2>10 DEF HaltIntent, HaltMark
    <3> QED BY <2>3, <3>1 DEF CallFollows
  <2>11. CASE FinishCall
    <3> DEFINE a == call.working
               b == Marked
    <3>1. /\ call # NoCall /\ call' = NoCall /\ account' = b
          /\ MarkHalts(a, call.latest, plan.prices) = {}
      BY <2>11 DEF FinishCall, Finished
    <3>2. ~ (call.latest < a.as_of)
      BY <3>1, SoundFacts DEF MarkHalts
    <3>3. b.as_of = call.latest /\ b.applied = a.applied
      BY <2>1, <3>1 DEF Marked, Mark, Accounts
    <3>4. Follows(b, a)
      BY <2>1, <3>1, <3>2, <3>3, FollowsByClock
    <3>5. Follows(a, account)
      BY <3>1 DEF CallFollows
    <3> HIDE DEF a, b
    <3>6. Follows(b, account)
      BY <2>1, <2>2, <3>1, <3>4, <3>5, FollowsOn DEF a
    <3> QED BY <3>1, <3>6 DEF CallFollows
  <2>12. ASSUME NEW f \in FundingEvents, PayFunding(f)
         PROVE  CallFollows' /\ Follows(account', account)
    <3>1. /\ call' = NoCall /\ FundingHalts(account, f) = {}
          /\ account' = ApplyFunding(account, f)
      BY <2>12 DEF PayFunding
    <3>2. Follows(account', account)
      BY <2>1, <3>1, FundingFollows
    <3> QED BY <3>1, <3>2 DEF CallFollows
  <2>13. CASE UNCHANGED vars
    <3>1. account' = account /\ call' = call
      BY <2>13 DEF vars
    <3> QED BY <2>3, <3>1 DEF CallFollows
  <2> QED BY <2>6, <2>7, <2>8, <2>9, <2>10, <2>11, <2>12, <2>13 DEF Next
<1> QED BY <1>1, <1>2, BrokerInvariance, PTL DEF Spec, AccountIsChronological

-----------------------------------------------------------------------------
(***************************************************************************)
(* The account that stands implements OrderBook                            *)
(***************************************************************************)

\* Between two accounts on one plan the positions have moved by what was
\* filled, and where an order only reduces, the position did not grow.
LEMMA FillsBetween ==
    ASSUME NEW p, PlanSound(p), NEW a \in Accounts, OnPlan(a, p),
           NEW b \in Accounts, OnPlan(b, p),
           \A k \in DOMAIN p.intents : a.filled[k] <= b.filled[k]
    PROVE  /\ \A i \in Instruments : \A h :
                /\ h \in [LegsOf(p.intents, i) -> Int]
                /\ \A k \in LegsOf(p.intents, i) :
                     h[k] = IF p.intents[k].delta > 0 THEN b.filled[k] - a.filled[k]
                            ELSE -(b.filled[k] - a.filled[k])
                => b.position[i] = a.position[i] + SumFunction(h)
           /\ \A k \in DOMAIN p.intents :
                /\ p.intents[k].reduce_only
                /\ \A j \in DOMAIN p.intents :
                     p.intents[j].instrument = p.intents[k].instrument => ~ p.intents[j].child
                => Abs(b.position[p.intents[k].instrument])
                     <= Abs(a.position[p.intents[k].instrument])
<1>1. /\ p.start.position \in Books /\ PlanShape(p.start.position, p.intents)
      /\ \A k \in DOMAIN p.intents :
           /\ p.intents[k].instrument \in Instruments
           /\ p.intents[k].delta \in Int /\ Abs(p.intents[k].delta) \in Nat \ {0}
  BY PlanParts DEF PlanSound
<1>2. /\ a.position \in Books /\ b.position \in Books
      /\ a.filled \in Seq(Nat) /\ b.filled \in Seq(Nat)
  BY DEF Accounts
<1>3. \A k \in DOMAIN p.intents :
        a.filled[k] \in Nat /\ b.filled[k] \in Nat
        /\ b.filled[k] <= Abs(p.intents[k].delta)
  BY <1>2 DEF OnPlan
<1>4. ASSUME NEW i \in Instruments,
             NEW f, f = [l \in LegsOf(p.intents, i) |->
                            IF p.intents[l].delta > 0 THEN a.filled[l] ELSE -a.filled[l]],
             NEW g, g = [l \in LegsOf(p.intents, i) |->
                            IF p.intents[l].delta > 0 THEN b.filled[l] ELSE -b.filled[l]]
      PROVE  /\ LegsOf(p.intents, i) \subseteq DOMAIN p.intents
             /\ IsFiniteSet(LegsOf(p.intents, i))
             /\ f \in [LegsOf(p.intents, i) -> Int] /\ g \in [LegsOf(p.intents, i) -> Int]
             /\ a.position[i] = p.start.position[i] + SumFunction(f)
             /\ b.position[i] = p.start.position[i] + SumFunction(g)
             /\ p.start.position[i] \in Int /\ a.position[i] \in Int /\ b.position[i] \in Int
  <2> DEFINE L == LegsOf(p.intents, i)
  <2>1. L \subseteq DOMAIN p.intents /\ IsFiniteSet(L)
    BY <1>1, LegCases
  <2>2. /\ a.position[i] = p.start.position[i] + SumFunction(f)
        /\ b.position[i] = p.start.position[i] + SumFunction(g)
    BY <1>4 DEF OnPlan
  <2>3. p.start.position[i] \in Int /\ a.position[i] \in Int /\ b.position[i] \in Int
    BY <1>1, <1>2 DEF Books
  <2>4. f \in [L -> Int] /\ g \in [L -> Int]
    <3> HIDE DEF L
    <3>1. /\ f = [l \in L |-> IF p.intents[l].delta > 0 THEN a.filled[l] ELSE -a.filled[l]]
          /\ g = [l \in L |-> IF p.intents[l].delta > 0 THEN b.filled[l] ELSE -b.filled[l]]
      BY <1>4 DEF L
    <3> QED BY <1>3, <2>1, <3>1
  <2> QED BY <2>1, <2>2, <2>3, <2>4
<1>5. ASSUME NEW i \in Instruments, NEW h \in [LegsOf(p.intents, i) -> Int],
             \A k \in LegsOf(p.intents, i) :
                h[k] = IF p.intents[k].delta > 0 THEN b.filled[k] - a.filled[k]
                       ELSE -(b.filled[k] - a.filled[k])
      PROVE  b.position[i] = a.position[i] + SumFunction(h)
  <2> DEFINE L == LegsOf(p.intents, i)
             f == [l \in L |-> IF p.intents[l].delta > 0 THEN a.filled[l] ELSE -a.filled[l]]
             g == [l \in L |-> IF p.intents[l].delta > 0 THEN b.filled[l] ELSE -b.filled[l]]
             c == p.start.position[i]
  <2>1. /\ L \subseteq DOMAIN p.intents /\ IsFiniteSet(L)
        /\ f \in [L -> Int] /\ g \in [L -> Int]
        /\ a.position[i] = c + SumFunction(f) /\ b.position[i] = c + SumFunction(g)
        /\ c \in Int
    BY <1>4
  <2>2. h \in [L -> Int] /\ \A k \in L : h[k] = IF p.intents[k].delta > 0
                                               THEN b.filled[k] - a.filled[k]
                                               ELSE -(b.filled[k] - a.filled[k])
    BY <1>5
  <2> HIDE DEF L
  <2>3. \A k \in L : g[k] = f[k] + h[k]
    <3> TAKE k \in L
    <3> DEFINE x == a.filled[k]
               y == b.filled[k]
    <3>1. x \in Nat /\ y \in Nat
      BY <1>3, <2>1
    <3>2. h[k] = IF p.intents[k].delta > 0 THEN y - x ELSE -(y - x)
      BY <2>2
    <3>3. f[k] = IF p.intents[k].delta > 0 THEN x ELSE -x
      OBVIOUS
    <3>4. g[k] = IF p.intents[k].delta > 0 THEN y ELSE -y
      OBVIOUS
    <3> HIDE DEF f, g, x, y
    <3> QED BY <3>1, <3>2, <3>3, <3>4
  <2> HIDE DEF f, g, c
  <2>4. SumFunction(g) = SumFunction(f) + SumFunction(h)
    <3>1. IsFiniteSet(L)
      BY <2>1
    <3>2. f \in [L -> Int] /\ g \in [L -> Int] /\ h \in [L -> Int]
      BY <2>1, <2>2
    <3> QED BY <2>3, <3>1, <3>2, TotalOfSums
  <2>5. SumFunction(f) \in Int /\ SumFunction(h) \in Int
    BY <2>1, <2>2, TotalIsInt
  <2> QED BY <2>1, <2>4, <2>5
<1>6. ASSUME NEW k \in DOMAIN p.intents, p.intents[k].reduce_only,
             \A j \in DOMAIN p.intents :
                p.intents[j].instrument = p.intents[k].instrument => ~ p.intents[j].child
      PROVE  Abs(b.position[p.intents[k].instrument]) <= Abs(a.position[p.intents[k].instrument])
  <2> DEFINE i == p.intents[k].instrument
             L == LegsOf(p.intents, i)
             f == [l \in L |-> IF p.intents[l].delta > 0 THEN a.filled[l] ELSE -a.filled[l]]
             g == [l \in L |-> IF p.intents[l].delta > 0 THEN b.filled[l] ELSE -b.filled[l]]
             c == p.start.position[i]
             d == p.intents[k].delta
             x == a.filled[k]
             y == b.filled[k]
  <2>1. i \in Instruments
    BY <1>1
  <2>2. /\ L \subseteq DOMAIN p.intents /\ IsFiniteSet(L)
        /\ f \in [L -> Int] /\ g \in [L -> Int]
        /\ a.position[i] = c + SumFunction(f) /\ b.position[i] = c + SumFunction(g)
        /\ c \in Int
    BY <1>4, <2>1
  <2>3. k \in L /\ \A j \in L : j \in DOMAIN p.intents /\ p.intents[j].instrument = i
    BY DEF LegsOf
  <2>4. L = {k}
    <3>1. \/ L = {}
          \/ \E m \in DOMAIN p.intents : L = {m} /\ ~ p.intents[m].child
          \/ \E j, m \in DOMAIN p.intents : L = {j, m} /\ Opens(p.start.position, p.intents, j, m)
      BY <1>1, <2>1, LegCases
    <3> HIDE DEF L
    <3>2. ASSUME NEW j \in DOMAIN p.intents, NEW m \in DOMAIN p.intents,
                 L = {j, m}, Opens(p.start.position, p.intents, j, m)
          PROVE FALSE
      <4>1. m \in L /\ p.intents[m].child
        BY <3>2 DEF Opens
      <4> QED BY <1>6, <2>3, <4>1
    <3> QED BY <2>3, <3>1, <3>2
  <2>5. Closes(c, d)
    BY <1>1, <1>6 DEF PlanShape, OrderFits
  <2>6. x \in Nat /\ y \in Nat /\ x <= y /\ y <= Abs(d) /\ d \in Int
    BY <1>1, <1>3
  <2>7. f[k] = IF d > 0 THEN x ELSE -x
    BY <2>3
  <2>8. g[k] = IF d > 0 THEN y ELSE -y
    BY <2>3
  <2> HIDE DEF f, g, c, d, x, y, L
  <2>9. SumFunction(f) = f[k] /\ SumFunction(g) = g[k]
    <3>1. f \in [{k} -> Int] /\ g \in [{k} -> Int]
      BY <2>2, <2>4
    <3> QED BY <3>1, TotalOfOne
  <2>10. a.position[i] = c + (IF d > 0 THEN x ELSE -x)
         /\ b.position[i] = c + (IF d > 0 THEN y ELSE -y)
    BY <2>2, <2>7, <2>8, <2>9
  <2> HIDE DEF i
  <2>11. Abs(b.position[i]) <= Abs(a.position[i])
    <3>1. CASE c > 0 /\ -c <= d /\ d < 0
      BY <2>2, <2>6, <2>10, <3>1 DEF Abs
    <3>2. CASE c < 0 /\ 0 < d /\ d <= -c
      BY <2>2, <2>6, <2>10, <3>2 DEF Abs
    <3> QED BY <2>5, <3>1, <3>2 DEF Closes
  <2> QED BY <2>11 DEF i
<1> QED BY <1>5, <1>6

\* When the account that stands is brought from one state of the plan at work
\* to a later one, the book sees orders filled and nothing else.
LEMMA BookFills ==
    ASSUME NEW p, PlanSound(p), NEW a \in Accounts, OnPlan(a, p),
           account' \in Accounts, OnPlan(account', p),
           account'.plan = p.id, plan'.id = p.id, plan'.intents = p.intents,
           a.position = account.position,
           NEW before,
           \A k \in DOMAIN p.intents :
              before[k] = a.filled[k] /\ a.filled[k] <= account'.filled[k]
    PROVE  Book!Fills(before)
<1> DEFINE b == account'
           O == IF AtWork' THEN plan'.intents ELSE << >>
           F == IF AtWork' THEN account'.filled ELSE << >>
<1>1. O = p.intents /\ F = b.filled
  BY DEF AtWork
<1>2. \A k \in DOMAIN p.intents :
        /\ p.intents[k].instrument \in Instruments
        /\ p.intents[k].delta \in Int /\ p.intents[k].delta # 0
        /\ a.filled[k] \in Nat /\ b.filled[k] \in Nat
        /\ b.filled[k] <= Abs(p.intents[k].delta)
  <2>1. a.filled \in Seq(Nat) /\ b.filled \in Seq(Nat)
    BY DEF Accounts
  <2>2. /\ DOMAIN a.filled = DOMAIN p.intents /\ DOMAIN b.filled = DOMAIN p.intents
        /\ \A k \in DOMAIN p.intents : b.filled[k] <= Abs(p.intents[k].delta)
    BY DEF OnPlan
  <2>3. ASSUME NEW k \in DOMAIN p.intents
        PROVE  a.filled[k] \in Nat /\ b.filled[k] \in Nat
    <3> HIDE DEF b
    <3>1. k \in DOMAIN a.filled /\ k \in DOMAIN b.filled
      BY <2>2
    <3>2. \A s \in Seq(Nat) : \A l \in DOMAIN s : s[l] \in Nat
      OBVIOUS
    <3> QED BY <2>1, <3>1, <3>2, Zenon
  <2>4. \A k \in DOMAIN p.intents :
          /\ p.intents[k].instrument \in Instruments
          /\ p.intents[k].delta \in Int /\ p.intents[k].delta # 0
    BY PlanParts
  <2> QED BY <2>2, <2>3, <2>4
<1>3. \A n : Book!Lots(n) = Abs(n)
  BY DEF Book!Lots, Abs
<1>4. DOMAIN F = DOMAIN O
  BY <1>1 DEF OnPlan
<1>5. b.position = [i \in Instruments |->
        account.position[i] + SumFunction(
            [k \in { k \in DOMAIN O : O[k].instrument = i } |->
                Book!Signed(O[k], F[k] - before[k])])]
  <2>1. b.position \in Books
    BY DEF Accounts
  <2>2. ASSUME NEW i \in Instruments
        PROVE  b.position[i] = account.position[i] + SumFunction(
            [k \in { k \in DOMAIN O : O[k].instrument = i } |->
                Book!Signed(O[k], F[k] - before[k])])
    <3> DEFINE S == { k \in DOMAIN O : O[k].instrument = i }
               h == [k \in S |-> Book!Signed(O[k], F[k] - before[k])]
    <3>1. S = LegsOf(p.intents, i) /\ S \subseteq DOMAIN p.intents
      BY <1>1 DEF LegsOf
    <3>2. ASSUME NEW k \in S
          PROVE  /\ h[k] = IF p.intents[k].delta > 0 THEN b.filled[k] - a.filled[k]
                           ELSE -(b.filled[k] - a.filled[k])
                 /\ h[k] \in Int
      <4> DEFINE x == a.filled[k]
                 y == b.filled[k]
                 d == p.intents[k].delta
      <4>1. k \in DOMAIN p.intents
        BY <3>1
      <4>2. d \in Int /\ d # 0 /\ x \in Nat /\ y \in Nat
        BY <1>2, <4>1
      <4>3. h[k] = Book!Signed(p.intents[k], y - x)
        BY <1>1, <4>1
      <4>4. h[k] = IF d < 0 THEN -(y - x) ELSE y - x
        BY <4>3 DEF Book!Signed
      <4> HIDE DEF h, x, y, d
      <4>5. h[k] = (IF d > 0 THEN y - x ELSE -(y - x)) /\ h[k] \in Int
        BY <4>2, <4>4
      <4> QED BY <4>5 DEF x, y, d
    <3>3. h \in [S -> Int]
      BY <3>2
    <3> HIDE DEF h, S
    <3>4. h \in [LegsOf(p.intents, i) -> Int]
          /\ \A k \in LegsOf(p.intents, i) :
                h[k] = IF p.intents[k].delta > 0 THEN b.filled[k] - a.filled[k]
                       ELSE -(b.filled[k] - a.filled[k])
      BY <3>1, <3>2, <3>3
    <3>5. \A k \in DOMAIN p.intents : a.filled[k] <= b.filled[k]
      OBVIOUS
    <3> HIDE DEF b
    <3>6. b.position[i] = a.position[i] + SumFunction(h)
      BY <3>4, <3>5, FillsBetween DEF b
    <3> QED BY <3>6 DEF h, S
  <2> HIDE DEF b, O, F
  <2> QED BY <2>1, <2>2 DEF Books
<1>6. ASSUME NEW k \in DOMAIN O
      PROVE  /\ before[k] <= F[k]
             /\ F[k] <= Book!Lots(O[k].delta)
             /\ (/\ O[k].reduce_only
                 /\ \A j \in DOMAIN O : O[j].instrument = O[k].instrument => ~ O[j].child)
                => Book!Lots(b.position[O[k].instrument])
                     <= Book!Lots(account.position[O[k].instrument])
             /\ O[k].child /\ F[k] > 0 =>
                  \E j \in DOMAIN O : /\ O[j].instrument = O[k].instrument
                                      /\ O[j].reduce_only
                                      /\ F[j] = Book!Lots(O[j].delta)
  <2>1. k \in DOMAIN p.intents
    BY <1>1
  <2>2. \A m \in DOMAIN p.intents :
          /\ p.intents[m].reduce_only
          /\ \A j \in DOMAIN p.intents :
               p.intents[j].instrument = p.intents[m].instrument => ~ p.intents[j].child
          => Abs(b.position[p.intents[m].instrument])
               <= Abs(a.position[p.intents[m].instrument])
    BY FillsBetween
  <2>3. p.intents[k].child /\ b.filled[k] > 0 =>
          \E j \in DOMAIN p.intents : /\ p.intents[j].instrument = p.intents[k].instrument
                                      /\ p.intents[j].reduce_only
                                      /\ b.filled[j] = Abs(p.intents[j].delta)
    <3> SUFFICES ASSUME p.intents[k].child, b.filled[k] > 0
                 PROVE  \E j \in DOMAIN p.intents :
                            /\ p.intents[j].instrument = p.intents[k].instrument
                            /\ p.intents[j].reduce_only
                            /\ b.filled[j] = Abs(p.intents[j].delta)
      OBVIOUS
    <3>1. p.start.position \in Books /\ PlanShape(p.start.position, p.intents)
      BY PlanParts DEF PlanSound
    <3>2. PICK j : j \in ParentOf(p.intents, k)
      BY <2>1, <3>1, ParentFacts
    <3>3. j \in DOMAIN p.intents /\ p.intents[j].reduce_only
          /\ p.intents[j].instrument = p.intents[k].instrument
      BY <3>2 DEF ParentOf
    <3>4. b.filled[j] = Abs(p.intents[j].delta)
      BY <2>1, <3>2 DEF OnPlan
    <3> QED BY <3>3, <3>4
  <2> HIDE DEF b, O, F
  <2> QED BY <1>1, <1>2, <1>3, <2>1, <2>2, <2>3 DEF b
<1>7. Book!MovesBy(before)
  <2>1. \A f : Book!SumFunction(f) = SumFunction(f)
    BY DEF SumFunction, SumFunctionOnSet, FoldFunctionOnSet, MapThenFoldSet,
           Book!SumFunction, Book!SumFunctionOnSet, Book!FoldFunctionOnSet,
           Book!MapThenFoldSet
  <2>2. b.position = [i \in Instruments |->
          account.position[i] + Book!SumFunction(
              [k \in { k \in DOMAIN O : O[k].instrument = i } |->
                  Book!Signed(O[k], F[k] - before[k])])]
    <3> HIDE DEF b, O, F
    <3> QED BY <1>5, <2>1
  <2> QED BY <2>2 DEF Book!MovesBy
<1>8. \A k \in DOMAIN O : Book!Reduces(k) /\ Book!IsReleased(k)
  BY <1>6 DEF Book!Reduces, Book!IsReleased
<1> QED BY <1>4, <1>6, <1>7, <1>8 DEF Book!Fills

\* An account that comes to a plan it had not worked on replaces the orders of
\* the book, whatever it has filled of them.
LEMMA BookReplaces ==
    ASSUME NEW p, PlanSound(p), AccountFits(account, p), account.plan # p.id,
           AccountFits(account', p), account'.plan = p.id,
           plan'.id = p.id, plan'.intents = p.intents
    PROVE  Book!Replace
<1> DEFINE a == Activate(account, p)
           none == [k \in DOMAIN (IF AtWork' THEN plan'.intents ELSE << >>) |-> 0]
<1>1. /\ AccountFits(a, p) /\ a.plan = p.id /\ a.position = account.position
      /\ \A k \in DOMAIN p.intents : a.filled[k] = 0
  <2>1. a = Activate(account, p)
    OBVIOUS
  <2> HIDE DEF a
  <2> QED BY <2>1, ActivateFacts
<1> HIDE DEF a
<1>2. /\ a \in Accounts /\ OnPlan(a, p) /\ account' \in Accounts /\ OnPlan(account', p)
      /\ account \in Accounts /\ account.plan <= p.id
  BY <1>1 DEF AccountFits, AccountSound
<1>3. account'.plan > account.plan
  <2>1. account.plan \in Nat /\ p.id \in Nat
    BY <1>2, PlanParts DEF Accounts
  <2> QED BY <1>2, <2>1
<1>4. \A k \in DOMAIN p.intents : none[k] = a.filled[k] /\ a.filled[k] <= account'.filled[k]
  <2>1. DOMAIN (IF AtWork' THEN plan'.intents ELSE << >>) = DOMAIN p.intents
    BY DEF AtWork
  <2>2. \A k \in DOMAIN p.intents : none[k] = 0
    BY <2>1
  <2>3. \A k \in DOMAIN p.intents : account'.filled[k] >= 0
    <3>1. account'.filled \in Seq(Nat) /\ DOMAIN account'.filled = DOMAIN p.intents
      BY <1>2 DEF Accounts, OnPlan
    <3>2. \A k \in DOMAIN account'.filled : account'.filled[k] \in Nat
      BY <3>1
    <3> QED BY <3>1, <3>2
  <2> HIDE DEF none
  <2> QED BY <1>1, <2>2, <2>3
<1>5. Book!Fills(none)
  <2> HIDE DEF none
  <2> QED BY <1>1, <1>2, <1>4, BookFills
<1> QED BY <1>3, <1>5 DEF Book!Replace

\* Taking up a plan: the account that stands stays, or comes to the plan.
LEMMA BookStarts ==
    ASSUME NEW p, PlanSound(p), AccountFits(account, p), NEW quotes, StartCall(p, quotes),
           plan'.id = p.id, plan'.intents = p.intents
    PROVE  account' = account \/ Book!Replace
<1> DEFINE a == Activate(account, p)
<1>1. CASE PlanComplete(p, a.filled)
  <2>1. account' = a
    BY <1>1 DEF StartCall
  <2>2. AccountFits(a, p) /\ a.plan = p.id /\ (account.plan = p.id => a = account)
    <3>1. a = Activate(account, p)
      OBVIOUS
    <3> HIDE DEF a
    <3> QED BY <3>1, ActivateFacts
  <2> HIDE DEF a
  <2>3. AccountFits(account', p) /\ account'.plan = p.id
    BY <2>1, <2>2
  <2>4. CASE account.plan # p.id
    BY <2>3, <2>4, BookReplaces
  <2> QED BY <2>1, <2>2, <2>4
<1>2. CASE ~ PlanComplete(p, a.filled)
  BY <1>2 DEF StartCall
<1> QED BY <1>1, <1>2

\* A new plan puts the one at work aside, or is at once taken to work.
LEMMA BookBegins ==
    ASSUME BrokerInv,
           NEW weights \in TargetBooks, NEW prices \in PriceBooks, NEW data \in DataStates,
           NEW quotes \in QuoteBooks, BeginCycle(weights, prices, data, quotes)
    PROVE  Book!Replace \/ Book!Retire
<1> DEFINE p == BuildPlan(account, weights, prices, data)
<1>1. plan.id < MaxCycles
  BY DEF BeginCycle
<1>2. PlanSound(plan) /\ AccountFits(account, plan) /\ AccountSound(account)
      /\ account.plan \in Nat /\ account.plan <= plan.id /\ plan.id \in Nat
  <2>1. PlanSound(plan) /\ AccountFits(account, plan) /\ AccountSound(account)
    BY DEF BrokerInv, AccountFits
  <2>2. account.plan \in Nat
    BY <2>1 DEF AccountSound, Accounts
  <2> QED BY <2>1, <2>2, PlanParts DEF AccountFits
<1>3. /\ PlanSound(p) /\ p.id = plan.id + 1 /\ p.start = account
      /\ ~ EscapedRisk(p, RiskDecision(account, weights, prices, data))
  <2>1. p = BuildPlan(account, weights, prices, data)
    OBVIOUS
  <2> HIDE DEF p
  <2> QED BY <1>1, <1>2, <2>1, BuildPlanFacts
<1>4. plan' = p /\ StartCall(p, quotes)
  BY <1>3 DEF BeginCycle
<1> HIDE DEF p
<1>5. account.plan < p.id
  BY <1>2, <1>3
<1>6. AccountFits(account, p)
  BY <1>2, <1>3, <1>5 DEF AccountFits
<1>7. account' = account \/ Book!Replace
  BY <1>3, <1>4, <1>6, BookStarts
<1>8. ASSUME account' = account PROVE Book!Retire
  <2>1. ~ AtWork'
    BY <1>2, <1>4, <1>5, <1>8, <1>3 DEF AtWork
  <2> QED BY <1>8, <2>1 DEF Book!Retire
<1> QED BY <1>7, <1>8

\* Executing a plan again hands back the account that stands, or brings it to
\* the plan.
LEMMA BookResumes ==
    ASSUME BrokerInv, NEW quotes \in QuoteBooks, Resume(quotes)
    PROVE  Book!Replace \/ UNCHANGED Book!book
<1> DEFINE q == [plan EXCEPT !.calls = @ + 1]
<1>1. plan' = q /\ StartCall(plan, quotes)
  BY DEF Resume
<1>2. PlanSound(plan) /\ AccountFits(account, plan)
  BY DEF BrokerInv
<1>3. plan'.id = plan.id /\ plan'.intents = plan.intents
  BY <1>1, <1>2 DEF PlanSound, Plans
<1>4. account' = account \/ Book!Replace
  BY <1>1, <1>2, <1>3, BookStarts
<1>5. ASSUME account' = account PROVE UNCHANGED Book!book
  BY <1>3, <1>5 DEF Book!book, AtWork
<1> QED BY <1>4, <1>5

\* A call that ends well fills the plan at work, or takes its plan to work.
LEMMA BookFinishes ==
    ASSUME BrokerInv, FinishCall
    PROVE  Book!Continue \/ Book!Replace
<1> DEFINE a == call.working
<1>1. call # NoCall /\ account' = Marked /\ plan' = plan
  BY DEF FinishCall, Finished
<1>2. /\ PlanSound(plan) /\ AccountFits(account, plan) /\ CallSound(call, plan, account)
  BY <1>1 DEF BrokerInv
<1>3. /\ a \in Accounts /\ a.plan = plan.id
      /\ \A k \in DOMAIN plan.intents :
            account.plan = plan.id => account.filled[k] <= a.filled[k]
  BY <1>2 DEF CallSound, Calls
<1>4. account'.plan = plan.id /\ account'.filled = a.filled
  BY <1>1, <1>3 DEF Marked, Mark, Accounts
<1>5. AccountFits(account', plan)
  <2>1. BrokerInv'
    BY FinishKeeps
  <2> QED BY <1>1, <2>1 DEF BrokerInv
<1>6. CASE account.plan # plan.id
  BY <1>1, <1>2, <1>4, <1>5, <1>6, BookReplaces
<1>7. CASE account.plan = plan.id
  <2> DEFINE before == IF AtWork THEN account.filled ELSE << >>
  <2>1. before = account.filled
    BY <1>7 DEF AtWork
  <2>2. /\ account \in Accounts /\ OnPlan(account, plan)
        /\ account' \in Accounts /\ OnPlan(account', plan)
    BY <1>2, <1>4, <1>5, <1>7 DEF AccountFits, AccountSound
  <2> HIDE DEF a
  <2>3. \A k \in DOMAIN plan.intents :
          before[k] = account.filled[k] /\ account.filled[k] <= account'.filled[k]
    BY <1>3, <1>4, <1>7, <2>1
  <2>4. Book!Fills(before)
    <3> HIDE DEF before
    <3> QED BY <1>1, <1>2, <1>4, <2>2, <2>3, BookFills
  <2>5. AtWork /\ AtWork'
    BY <1>1, <1>4, <1>7 DEF AtWork
  <2> QED BY <1>1, <1>4, <1>7, <2>4, <2>5 DEF Book!Continue
<1> QED BY <1>6, <1>7

\* Funding moves no position and no order.
LEMMA BookIgnoresFunding ==
    ASSUME BrokerInv, NEW f \in FundingEvents, PayFunding(f)
    PROVE  UNCHANGED Book!book
<1>1. account' = ApplyFunding(account, f) /\ plan' = plan
  BY DEF PayFunding
<1>2. account \in Accounts
  BY DEF BrokerInv, AccountFits, AccountSound
<1>3. /\ account'.position = account.position /\ account'.plan = account.plan
      /\ account'.filled = account.filled
  BY <1>1, <1>2 DEF ApplyFunding, Accounts
<1> QED BY <1>1, <1>3 DEF Book!book, AtWork

\* The broker implements the order book: to a reader of the account that
\* stands every step fills the plan at work, replaces it, retires it, or does
\* nothing.
THEOREM OrderBookImplemented == Spec => ImplementsOrderBook
<1>1. Init => Book!Init
  <2> SUFFICES ASSUME Init PROVE Book!Init
    OBVIOUS
  <2>1. plan.intents = << >>
    BY DEF Init, NoPlanYet
  <2>2. /\ account.filled = << >> /\ account.plan = 0
        /\ account.position = [i \in Instruments |-> 0]
    BY DEF Init, FreshAccount, NoPlan
  <2> QED BY <2>1, <2>2 DEF Book!Init
<1>2. BrokerInv /\ [Next]_vars => [Book!Next]_(Book!book)
  <2> SUFFICES ASSUME BrokerInv, [Next]_vars
               PROVE  Book!Next \/ UNCHANGED Book!book
    OBVIOUS
  <2>1. ASSUME NEW weights \in TargetBooks, NEW prices \in PriceBooks, NEW data \in DataStates,
               NEW quotes \in QuoteBooks, BeginCycle(weights, prices, data, quotes)
        PROVE  Book!Next
    BY <2>1, BookBegins DEF Book!Next
  <2>2. ASSUME NEW quotes \in QuoteBooks, Resume(quotes)
        PROVE  Book!Next \/ UNCHANGED Book!book
    BY <2>2, BookResumes DEF Book!Next
  <2>3. CASE SkipIntent \/ ExecuteIntent \/ HaltIntent \/ HaltMark
    <3>1. account' = account /\ plan' = plan
      BY <2>3 DEF SkipIntent, ExecuteIntent, HaltIntent, HaltMark
    <3> QED BY <3>1 DEF Book!book, AtWork
  <2>4. CASE FinishCall
    BY <2>4, BookFinishes DEF Book!Next
  <2>5. ASSUME NEW f \in FundingEvents, PayFunding(f) PROVE UNCHANGED Book!book
    BY <2>5, BookIgnoresFunding
  <2>6. CASE UNCHANGED vars
    BY <2>6 DEF vars, Book!book, AtWork
  <2> QED BY <2>1, <2>2, <2>3, <2>4, <2>5, <2>6 DEF Next
<1> QED BY <1>1, <1>2, BrokerInvariance, PTL DEF Spec, ImplementsOrderBook, Book!Spec
=============================================================================
