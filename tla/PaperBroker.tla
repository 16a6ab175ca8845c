---------------------------- MODULE PaperBroker ----------------------------
(***************************************************************************)
(* The computation of a paper cycle: pre-trade risk, the plan, and its     *)
(* execution against sealed quotes (execution/paper_broker.py,             *)
(* execution/paper_cycle.py, operations/cycle.py), one intent per step.    *)
(*                                                                         *)
(* A call works on a copy of the account and hands it back when it ends;   *)
(* when any step of it raises, the copy is dropped and the account stands. *)
(* A call either begins a new cycle on the account that stands or executes *)
(* the plan of the last cycle again, as execute_paper_cycle allows.        *)
(***************************************************************************)
EXTENDS PaperAccounting

CONSTANTS
    StartingCash,           \* cash of the fresh account
    TargetBooks,            \* target weights a strategy may ask for, in percent
    PriceBooks,             \* reference prices a snapshot may hold
    DataStates,             \* how sound the data of a cycle is
    QuoteBooks,             \* the quotes a request may seal, one per instrument
    NoQuote,                \* the request holds no quote of the instrument
    FundingEvents,          \* funding events that may be delivered, repeatedly
    IntentTTL,              \* time until an intent expires
    CyclePeriod,            \* time between two decisions
    ParticipationDivisor,   \* part of the observed liquidity that may be used
    MaxSlippage,            \* percent of the reference price
    MaintenanceDivisor,     \* maintenance margin of a perpetual
    TrackingDivisor,        \* tracking error that is tolerated
    NoCall,                 \* no call to the broker is running
    MaxCycles,              \* bound: cycles begun
    MaxCalls                \* bound: calls for one plan

ASSUME BrokerAssumption ==
    /\ StartingCash \in Nat \ {0}
    /\ TargetBooks \subseteq [Instruments -> Int]
    /\ \A book \in TargetBooks : \A i \in Instruments :
         i \in Spots => book[i] >= 0
    /\ PriceBooks \subseteq [Instruments -> Nat \ {0}]
    \* Whether risk may increase, and whether reconciliation counts the data as
    \* stale: a source that is not critical may fail the first alone, the
    \* data_stale flag of a request the second alone.
    /\ DataStates # {} /\ DataStates \subseteq [permitted : BOOLEAN, stale : BOOLEAN]
    \* A sealed quote: when it was observed after the decision, how far the
    \* executable price lies from the reference, the liquidity seen.
    /\ \A quotes \in QuoteBooks : \A i \in Instruments :
         LET q == quotes[i]
         IN  q # NoQuote =>
             /\ q.after \in Int
             /\ q.spread \in Nat
             /\ q.available \in Nat
             /\ q.quality \in {"ok", "stale", "outage", "invalid"}
    \* Bids and asks are positive, so no quote lies its whole price off.
    /\ \A prices \in PriceBooks, quotes \in QuoteBooks : \A i \in Instruments :
         quotes[i] # NoQuote => quotes[i].spread < prices[i]
    /\ FundingEvents \subseteq [instrument : Perps, rate : Int, time : Nat]
    /\ {IntentTTL, CyclePeriod, ParticipationDivisor, MaintenanceDivisor,
        TrackingDivisor, MaxCycles, MaxCalls} \subseteq Nat \ {0}
    /\ MaxSlippage \in Nat

VARIABLES
    account,    \* the account that stands
    plan,       \* the plan of the last cycle
    call,       \* the running call, or NoCall
    outcome     \* how the last call ended

vars == <<account, plan, call, outcome>>

NoPlanYet ==
    [ id |-> NoPlan, created |-> 0, intents |-> << >>, start |-> FreshAccount(StartingCash),
      prices |-> [i \in Instruments |-> 1], data |-> CHOOSE d \in DataStates : TRUE,
      calls |-> 0 ]

Init ==
    /\ account = FreshAccount(StartingCash)
    /\ plan = NoPlanYet
    /\ call = NoCall
    /\ outcome = "none"

(***************************************************************************)
(* Beginning a call                                                        *)
(***************************************************************************)
Held(a, prices) == [i \in Instruments |-> 100 * a.position[i] * prices[i]]

\* Weights are taken of the equity the account was last marked at.
Requested(a, weights) == [i \in Instruments |-> weights[i] * a.equity]

RiskDecision(a, weights, prices, data) ==
    Constrain(Requested(a, weights), Held(a, prices), data.permitted, a.equity)

BuildPlan(a, weights, prices, data) ==
    LET targets == RiskDecision(a, weights, prices, data)
    IN  [ id        |-> plan.id + 1,
          created   |-> plan.created + CyclePeriod,
          intents   |-> PlanIntents(a.position,
                            [i \in Instruments |-> TargetQuantity(targets[i], prices[i])]),
          start     |-> a,
          prices    |-> prices,
          data      |-> data,
          calls     |-> 1 ]

\* What the risk layer and the planner refuse to let pass.
EscapedRisk(p, targets) ==
    /\ ~ p.data.permitted
    /\ \/ ContainsRiskIncrease(targets, Held(p.start, p.prices))
       \/ \E k \in DOMAIN p.intents : ~ p.intents[k].reduce_only

Capacity(q) == IF q = NoQuote THEN 0 ELSE q.available \div ParticipationDivisor

PlanComplete(p, filled) ==
    \A k \in DOMAIN p.intents : filled[k] = Abs(p.intents[k].delta)

\* Activates the plan; a plan that is complete, an empty one included, gives
\* the account back as it is, without marking it.
StartCall(p, quotes) ==
    LET active == Activate(account, p)
    IN  IF PlanComplete(p, active.filled)
        THEN /\ account' = active
             /\ outcome' = "complete"
             /\ UNCHANGED call
        ELSE /\ call' = [ working   |-> active,
                          quotes    |-> quotes,
                          liquidity |-> [i \in Instruments |-> Capacity(quotes[i])],
                          progress  |-> active.filled,
                          latest    |-> Max({p.created, active.as_of}),
                          next      |-> 1 ]
             /\ UNCHANGED <<account, outcome>>

BeginCycle(weights, prices, data, quotes) ==
    LET p == BuildPlan(account, weights, prices, data)
    IN  /\ call = NoCall
        /\ plan.id < MaxCycles
        /\ IF EscapedRisk(p, RiskDecision(account, weights, prices, data))
           THEN /\ outcome' = "escaped"
                /\ UNCHANGED <<account, plan, call>>
           ELSE /\ plan' = p
                /\ StartCall(p, quotes)

\* The same immutable plan against quotes sealed later, or the same quotes.
Resume(quotes) ==
    /\ call = NoCall
    /\ plan.id # NoPlan
    /\ plan.calls < MaxCalls
    /\ plan' = [plan EXCEPT !.calls = @ + 1]
    /\ StartCall(plan, quotes)

(***************************************************************************)
(* One intent                                                              *)
(***************************************************************************)
Intent == plan.intents[call.next]

Quote == call.quotes[Intent.instrument]

\* Slip: every call asks for the whole intent again.
Wanted_WholeIntent == Abs(Intent.delta)

Wanted == Abs(Intent.delta) - call.progress[call.next]

ObservedAt == IF Quote = NoQuote THEN call.working.as_of ELSE plan.created + Quote.after

AwaitsParent ==
    \E j \in ParentOf(plan.intents, call.next) :
        call.progress[j] # Abs(plan.intents[j].delta)

Expired == Quote # NoQuote /\ Quote.after > IntentTTL

Usable == Quote # NoQuote /\ Quote.after \in 0..IntentTTL /\ Quote.quality = "ok"

Price ==
    plan.prices[Intent.instrument]
        + (IF Intent.delta > 0 THEN Quote.spread ELSE -Quote.spread)

SlippageAccepted == 100 * Quote.spread <= MaxSlippage * plan.prices[Intent.instrument]

\* Slip: each intent of an instrument sees the whole liquidity of the quote.
Executable_OwnLiquidity ==
    IF Intent.reduce_only
    THEN Min({Wanted, Capacity(Quote), Abs(call.working.position[Intent.instrument])})
    ELSE Min({Wanted, Capacity(Quote)})

\* The lots this quote can fill: what is still wanted, what is left of its
\* liquidity, and for a reduction what is still held.
Executable ==
    LET shared == Min({Wanted, call.liquidity[Intent.instrument]})
    IN  IF Intent.reduce_only
        THEN Min({shared, Abs(call.working.position[Intent.instrument])})
        ELSE shared

FilledLots ==
    IF ~ AwaitsParent /\ Usable /\ Executable > 0 /\ SlippageAccepted
    THEN Executable
    ELSE 0

\* Every intent gets an event: a fill, or the record of a refusal.
FillEvent ==
    [ plan       |-> plan.id,
      intent     |-> call.next,
      instrument |-> Intent.instrument,
      time       |-> ObservedAt,
      status     |-> IF ~ AwaitsParent /\ Expired THEN "expired"
                     ELSE IF FilledLots = 0 THEN "rejected"
                     ELSE IF FilledLots = Wanted THEN "filled" ELSE "partial",
      delta      |-> IF Intent.delta > 0 THEN FilledLots ELSE -FilledLots,
      price      |-> IF FilledLots = 0 THEN 0 ELSE Price,
      source     |-> Quote ]

Working == call # NoCall /\ call.next \in DOMAIN plan.intents

\* An intent that earlier calls filled is passed over.
SkipIntent ==
    /\ Working
    /\ Wanted = 0
    /\ call' = [call EXCEPT !.next = @ + 1]
    /\ UNCHANGED <<account, plan, outcome>>

ExecuteIntent ==
    /\ Working
    /\ Wanted # 0
    /\ FillHalts(call.working, Intent, FillEvent) = {}
    /\ call' = [call EXCEPT
                    !.working                      = ApplyFill(@, FillEvent),
                    !.progress[call.next]          = @ + FilledLots,
                    !.liquidity[Intent.instrument] = @ - FilledLots,
                    !.latest                       = Max({@, ObservedAt}),
                    !.next                         = @ + 1]
    /\ UNCHANGED <<account, plan, outcome>>

\* AccountingHalt ends the call; nothing of it reaches the account.
HaltIntent ==
    /\ Working
    /\ Wanted # 0
    /\ \E reason \in FillHalts(call.working, Intent, FillEvent) : outcome' = reason
    /\ call' = NoCall
    /\ UNCHANGED <<account, plan>>

(***************************************************************************)
(* Ending a call                                                           *)
(***************************************************************************)
Projected(p) ==
    [i \in Instruments |->
        p.start.position[i] + SumFunction([k \in LegsOf(p.intents, i) |-> p.intents[k].delta])]

TrackingError(a) ==
    SumFunction([i \in Instruments |->
                    Abs(a.position[i] - Projected(plan)[i]) * plan.prices[i]])

\* The status of the reconciliation report of the cycle.
Reconcile(a) ==
    IF plan.data.stale \/ MarginIsNegative(a, plan.prices, MaintenanceDivisor) THEN "halt"
    ELSE IF TrackingDivisor * TrackingError(a) > a.equity THEN "warn"
    ELSE IF ~ PlanComplete(plan, a.filled) THEN "warn"
    ELSE "ok"

Finished == call # NoCall /\ call.next \notin DOMAIN plan.intents

Marked == Mark(call.working, call.latest, plan.prices)

FinishCall ==
    /\ Finished
    /\ MarkHalts(call.working, call.latest, plan.prices) = {}
    /\ account' = Marked
    /\ outcome' = Reconcile(Marked)
    /\ call' = NoCall
    /\ UNCHANGED plan

HaltMark ==
    /\ Finished
    /\ \E reason \in MarkHalts(call.working, call.latest, plan.prices) : outcome' = reason
    /\ call' = NoCall
    /\ UNCHANGED <<account, plan>>

\* apply_funding_event, between two calls; nothing changes when it raises.
PayFunding(f) ==
    /\ call = NoCall
    /\ FundingHalts(account, f) = {}
    /\ account' = ApplyFunding(account, f)
    /\ UNCHANGED <<plan, call, outcome>>

Next ==
    \/ \E weights \in TargetBooks, prices \in PriceBooks, data \in DataStates :
         \E quotes \in QuoteBooks : BeginCycle(weights, prices, data, quotes)
    \/ \E quotes \in QuoteBooks : Resume(quotes)
    \/ SkipIntent
    \/ ExecuteIntent
    \/ HaltIntent
    \/ FinishCall
    \/ HaltMark
    \/ \E f \in FundingEvents : PayFunding(f)

Spec == Init /\ [][Next]_vars

(***************************************************************************)
(* Properties                                                              *)
(***************************************************************************)
AccountOK(a) ==
    /\ a.cash \in Nat
    /\ a.equity \in Nat \ {0}
    /\ a.fees \in Nat
    /\ a.realized \in Int /\ a.funding \in Int
    /\ a.position \in [Instruments -> Int] /\ a.entry \in [Instruments -> Int]
    /\ \A i \in Spots : a.position[i] >= 0 /\ a.entry[i] = 0
    /\ \A i \in Perps : a.position[i] * a.entry[i] >= 0
    /\ a.as_of \in Nat
    /\ a.plan \in 0..MaxCycles

\* The broker's state has its shape: a call and the account it works on, the
\* plan it works for and the ways execute_paper_plan may end.
BrokerTypeOK ==
    /\ AccountOK(account)
    /\ plan.id \in 0..MaxCycles /\ plan.calls \in 0..MaxCalls
    /\ call # NoCall =>
        /\ AccountOK(call.working)
        /\ call.next \in 1..(Len(plan.intents) + 1)
        /\ DOMAIN call.progress = DOMAIN plan.intents
    /\ outcome \in {"none", "complete", "ok", "warn", "halt", "escaped", "cash",
                    "equity", "clock", "plan", "overfill", "status", "direction",
                    "crossing"}

\* What intent k of the plan has moved its position by.
SignedFill(a, k) == IF plan.intents[k].delta > 0 THEN a.filled[k] ELSE -a.filled[k]

Standing == {account} \cup (IF call = NoCall THEN {} ELSE {call.working})

Fills(a) == { e \in a.applied : "intent" \in DOMAIN e }

\* The accounting identity: positions and cash of an account are what the
\* events it has applied add up to, however often an event is delivered and
\* wherever a call was broken off (apply_fill_event, apply_funding_event).
EventsExplainTheAccount ==
    \A a \in Standing :
        /\ \A i \in Instruments :
            a.position[i] =
                SumFunction([e \in { e \in Fills(a) : e.instrument = i } |-> e.delta])
        /\ a.fees = SumFunction([e \in Fills(a) |-> Fee(e)])
        /\ a.cash = StartingCash + a.realized + a.funding - a.fees
                    - SumFunction([e \in { e \in Fills(a) : e.instrument \in Spots }
                                     |-> e.delta * e.price])

\* Between two calls a position lies between where its plan found it and
\* where the plan wants it, as the progress says; the opening leg of a sign
\* flip has nothing filled before its close is filled completely.
ProgressExplainsPositions ==
    \A a \in Standing : a.plan = plan.id =>
        /\ \A i \in Instruments :
            a.position[i] = plan.start.position[i]
                + SumFunction([k \in LegsOf(plan.intents, i) |-> SignedFill(a, k)])
        /\ \A k \in DOMAIN plan.intents :
            /\ a.filled[k] <= Abs(plan.intents[k].delta)
            /\ a.filled[k] > 0 => \A j \in ParentOf(plan.intents, k) :
                                    a.filled[j] = Abs(plan.intents[j].delta)

\* The intents of a call that use one quote share its liquidity, a close and
\* the opening that follows it included (_quote_capacities).
LiquidityIsShared ==
    call # NoCall => \A i \in Instruments :
        Abs(call.working.position[i] - account.position[i]) <= Capacity(call.quotes[i])

\* Executed in full, a plan keeps inside the gross cap and leaves the reserve
\* alone, by the equity and the prices it was sized with, whatever the
\* strategy asked for (apply_pretrade_risk, build_execution_plan).
PlansFitTheBudget ==
    LET book == [i \in Instruments |-> 100 * Projected(plan)[i] * plan.prices[i]]
    IN  /\ Gross(book) <= GrossCap * plan.start.equity
        /\ Requirement(book) <= Budget(plan.start.equity)

\* The halts that guard against a wrong plan, overfilling, a crossing fill or
\* a risk increase without sound data never go off, resumed plans and
\* duplicated events included: a call ends by itself, or for want of cash, of
\* equity, or for a quote older than the account.
GuardsNeverGoOff == outcome \in
    {"none", "complete", "ok", "warn", "halt", "cash", "equity", "clock"}

\* Reductions pay for increases: with only spot on the books and an equity
\* marked at the prices of the cycle, a purchase runs out of cash only when a
\* sale that was tried before it could not be filled.
ReductionsFundIncreases ==
    [][ LET a == call.working
        IN  /\ Working /\ call' = NoCall /\ outcome' = "cash"
            /\ plan.start.equity = MarkedEquity(plan.start, plan.prices)
            /\ \A i \in Perps : plan.start.position[i] = 0 /\ a.position[i] = 0
            => \E k \in 1..(call.next - 1) :
                plan.intents[k].reduce_only /\ a.filled[k] < Abs(plan.intents[k].delta)
      ]_vars

\* Account b is account a and what came to it later: its clock does not go
\* back, and every event it has applied since lies between the two clocks.
Follows(b, a) ==
    /\ a.as_of <= b.as_of
    /\ \A e \in b.applied \ a.applied : e.time \in a.as_of..b.as_of

\* Account chronology: although the quotes of a plan carry times of their own,
\* a plan is resumed with older quotes and an event is delivered again, nothing
\* that a call or a funding event adds to the account is dated before the
\* account it found or after the account it leaves (_rebuild, latest_time of
\* execute_paper_plan, activate_paper_plan).
AccountIsChronological == [][Follows(account', account)]_vars

\* The orders of the plan the account works on; none once a newer plan is made
\* and has not reached the account.
AtWork == account.plan = plan.id

Book == INSTANCE OrderBook WITH
    position <- account.position,
    plan     <- account.plan,
    orders   <- IF AtWork THEN plan.intents ELSE << >>,
    filled   <- IF AtWork THEN account.filled ELSE << >>

\* Seen from the account that stands, every call and every resumption only
\* fills the orders of the plan at work: none twice, none beyond its size, an
\* opening leg after its close, and nothing but fills moves a position.
ImplementsOrderBook == Book!Spec
=============================================================================
