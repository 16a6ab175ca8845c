--------------------------- MODULE MCPaperBroker ---------------------------
(* PaperBroker with a perpetual and two spot markets.                      *)
EXTENDS PaperBroker

MCPlanOrder == << "perp", "btc", "eth" >>

MCPerps == {"perp"}

Book3(p, b, e) == [perp |-> p, btc |-> b, eth |-> e]

\* More spot than the budget has, the other spot market, a long perpetual
\* beside some spot, a short perpetual over the gross cap.
MCTargetBooks == { Book3(0, 120, 0), Book3(0, 0, 80), Book3(60, 40, 0), Book3(-140, 0, 0) }

MCPriceBooks == { Book3(10, 10, 10), Book3(20, 10, 10) }

MCDataStates ==
    { [permitted |-> TRUE, stale |-> FALSE], [permitted |-> FALSE, stale |-> TRUE] }

Offer(after, spread, available, quality) ==
    [after |-> after, spread |-> spread, available |-> available, quality |-> quality]

Good == Offer(1, 0, 30, "ok")

\* Thin liquidity at a worse price, a price beyond the accepted slippage, an
\* expired quote, one taken before the others.
Deviations ==
    { NoQuote, Offer(1, 1, 6, "ok"), Offer(1, 2, 30, "ok"), Offer(3, 0, 30, "ok"),
      Offer(0, 0, 30, "ok") }

\* At most one quote of a request deviates, never that of eth.
MCQuoteBooks ==
    { [j \in Instruments |-> IF j = i THEN q ELSE Good] :
        i \in {"perp", "btc"}, q \in Deviations \cup {Good} }

MCFundingEvents == { [instrument |-> "perp", rate |-> 1, time |-> 4] }
=============================================================================
