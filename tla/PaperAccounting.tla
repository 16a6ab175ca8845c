-------------------------- MODULE PaperAccounting --------------------------
(***************************************************************************)
(* The paper account (portfolio/accounting.py, portfolio/lifecycle.py), as *)
(* operators over account records.  Amounts are whole units of the         *)
(* currency, quantities whole lots.  An entry price is kept as the signed  *)
(* value the open position was entered at, so that the average price of    *)
(* the code is the value divided by the lots.  The sequence, the high      *)
(* water and the hash of an account are left out.                          *)
(*                                                                         *)
(* A fill event is identified by all its fields; a fee follows from the    *)
(* notional, so it is computed and not stored.                             *)
(***************************************************************************)
EXTENDS RiskAndPlan

CONSTANT CommissionDivisor  \* one part in so many of the notional

ASSUME CommissionAssumption == CommissionDivisor \in Nat \ {0}

NoPlan == 0

FreshAccount(cash) ==
    [ cash     |-> cash,
      position |-> [i \in Instruments |-> 0],
      entry    |-> [i \in Instruments |-> 0],
      realized |-> 0,
      funding  |-> 0,
      fees     |-> 0,
      equity   |-> cash,
      as_of    |-> 0,
      plan     |-> NoPlan,
      filled   |-> << >>,
      applied  |-> {} ]

\* Slip: taking up the plan at work again forgets its progress.
Activate_Resets(account, plan) ==
    [account EXCEPT !.as_of  = Max({@, plan.created}),
                    !.plan   = plan.id,
                    !.filled = [k \in DOMAIN plan.intents |-> 0]]

\* A new plan starts without progress, the plan at work keeps its own; the
\* clock never goes back.
Activate(account, plan) ==
    IF account.plan = plan.id THEN account
    ELSE [account EXCEPT !.as_of  = Max({@, plan.created}),
                         !.plan   = plan.id,
                         !.filled = [k \in DOMAIN plan.intents |-> 0]]

Fee(e) == (Abs(e.delta) * e.price) \div CommissionDivisor

\* The part of the entry value that a trade against the position gives back.
ReleasedEntry(account, e) ==
    LET held == account.position[e.instrument]
    IN  IF held * e.delta < 0
        THEN Quotient(account.entry[e.instrument] * Abs(e.delta), Abs(held))
        ELSE 0

RealizedBy(account, e) ==
    IF e.instrument \in Perps /\ account.position[e.instrument] * e.delta < 0
    THEN -(e.delta * e.price) - ReleasedEntry(account, e)
    ELSE 0

\* Spot is paid in full, a perpetual only settles what it realizes.
CashFlow(account, e) ==
    (IF e.instrument \in Perps THEN RealizedBy(account, e) ELSE -(e.delta * e.price))
    - Fee(e)

\* A trade with the position adds its value, one against it gives some back.
EntryAfter(account, e) ==
    IF e.instrument \in Spots THEN 0
    ELSE account.entry[e.instrument] - ReleasedEntry(account, e)
         + (IF account.position[e.instrument] * e.delta < 0 THEN 0 ELSE e.delta * e.price)

\* Slip: only a spot purchase is held against the cash, before it is made.
Unsound_NoCash(account, cash, equity, time) ==
    { reason \in {"equity", "clock"} :
        \/ reason = "equity" /\ equity <= 0
        \/ reason = "clock" /\ time < account.as_of }

\* Slip: an event may be older than the account.
Unsound_NoClock(account, cash, equity, time) ==
    { reason \in {"cash", "equity"} :
        \/ reason = "cash" /\ cash < 0
        \/ reason = "equity" /\ equity <= 0 }

\* What _rebuild refuses of the account that a change leads to.
Unsound(account, cash, equity, time) ==
    { reason \in {"cash", "equity", "clock"} :
        \/ reason = "cash" /\ cash < 0
        \/ reason = "equity" /\ equity <= 0
        \/ reason = "clock" /\ time < account.as_of }

\* What apply_fill_event refuses of a fill before it rebuilds the account.
Misfit(account, intent, e) ==
    LET held  == account.position[e.instrument]
        total == account.filled[e.intent] + Abs(e.delta)
    IN  { reason \in {"plan", "overfill", "status", "direction", "crossing"} :
            \/ reason = "plan" /\ account.plan # e.plan
            \/ reason = "overfill" /\ total > Abs(intent.delta)
            \/ reason = "status" /\ e.status = "filled" /\ total # Abs(intent.delta)
            \/ reason = "status" /\ e.status = "partial" /\ total >= Abs(intent.delta)
            \/ reason = "direction" /\ intent.reduce_only /\ held * e.delta >= 0
            \/ reason = "crossing" /\ held * e.delta < 0 /\ Abs(e.delta) > Abs(held)
            \/ reason = "crossing" /\ e.instrument \in Spots /\ held + e.delta < 0 }

Executed(e) == e.status \in {"filled", "partial"}

\* The reasons for which apply_fill_event raises AccountingHalt.
FillHalts(account, intent, e) ==
    IF e \in account.applied THEN {}
    ELSE (IF Executed(e) THEN Misfit(account, intent, e) ELSE {})
         \cup Unsound(account, account.cash + CashFlow(account, e),
                      account.equity - Fee(e), e.time)

\* Slip: an event is applied again when it is delivered again.
ApplyFill_Twice(account, e) ==
    [account EXCEPT !.cash                   = @ + CashFlow(account, e),
                    !.position[e.instrument] = @ + e.delta,
                    !.entry[e.instrument]    = EntryAfter(account, e),
                    !.realized               = @ + RealizedBy(account, e),
                    !.fees                   = @ + Fee(e),
                    !.equity                 = @ - Fee(e),
                    !.as_of                  = e.time,
                    !.filled[e.intent]       = @ + Abs(e.delta),
                    !.applied                = @ \cup {e}]

\* Slip: the progress of an intent is that of its last fill.
ApplyFill_LastFill(account, e) ==
    IF e \in account.applied THEN account
    ELSE [ApplyFill_Twice(account, e) EXCEPT !.filled[e.intent] = Abs(e.delta)]

\* apply_fill_event: an event the account knows changes nothing.
ApplyFill(account, e) ==
    IF e \in account.applied THEN account
    ELSE [account EXCEPT !.cash                   = @ + CashFlow(account, e),
                         !.position[e.instrument] = @ + e.delta,
                         !.entry[e.instrument]    = EntryAfter(account, e),
                         !.realized               = @ + RealizedBy(account, e),
                         !.fees                   = @ + Fee(e),
                         !.equity                 = @ - Fee(e),
                         !.as_of                  = e.time,
                         !.filled[e.intent]       = @ + Abs(e.delta),
                         !.applied                = @ \cup {e}]

\* A positive rate is paid by the long side.
FundingPayment(account, f) == -(account.position[f.instrument] * f.rate)

FundingHalts(account, f) ==
    IF f \in account.applied THEN {}
    ELSE Unsound(account, account.cash + FundingPayment(account, f),
                 account.equity + FundingPayment(account, f), f.time)

ApplyFunding(account, f) ==
    IF f \in account.applied THEN account
    ELSE [account EXCEPT !.cash    = @ + FundingPayment(account, f),
                         !.funding = @ + FundingPayment(account, f),
                         !.equity  = @ + FundingPayment(account, f),
                         !.as_of   = f.time,
                         !.applied = @ \cup {f}]

\* Cash, spot at the mark, and what the open perpetuals have gained since
\* they were entered.
MarkedEquity(account, prices) ==
    account.cash
    + SumFunction([i \in Instruments |-> account.position[i] * prices[i] - account.entry[i]])

Mark(account, time, prices) ==
    [account EXCEPT !.equity = MarkedEquity(account, prices), !.as_of = time]

MarkHalts(account, time, prices) ==
    Unsound(account, account.cash, MarkedEquity(account, prices), time)

\* margin_buffer_fraction below zero, the maintenance margin being one part
\* in MaintenanceDivisor of the open perpetuals.
MarginIsNegative(account, prices, divisor) ==
    divisor * MarkedEquity(account, prices)
        < SumFunction([i \in Perps |-> Abs(account.position[i]) * prices[i]])
=============================================================================
