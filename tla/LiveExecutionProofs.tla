------------------------- MODULE LiveExecutionProofs ------------------------
(***************************************************************************)
(* What the live router of funding pairs keeps for every base amount, any  *)
(* number of retries, of calls that fail and of deaths: no position is     *)
(* held with an order still open, the hedge is never larger than what it   *)
(* hedges, and what a closed record leaves on the venues filled when       *)
(* nobody watched.                                                         *)
(***************************************************************************)
EXTENDS LiveExecution, TLAPS

\* An order is open only while something of it can fill.
OpenOrderCanFill == maker.open => maker.filled < Base

\* The record tells how far the entry has come, in particular after a death.
RecordFollows ==
    /\ pc \in EntryLocations \ {"reconcile"} => stored.status = "opening"
    /\ pc \in {"adopt", "holding", "reconcile"} => stored.status = "open"
    /\ pc \in {"scan", "prepare"} => stored.status = "closed"
    /\ pc = "flatten" => stored.status # "closed"
    /\ stored.status = "open" => stored.base >= MinFill

\* What the watch of an order knows: it has seen no more than there is, and the
\* hedge under way is for what it has seen and not hedged yet.
Hedging == pc \in {"hedge", "order", "confirm"}

EntryFollows ==
    /\ Watching => entry.seen <= maker.filled /\ maker.filled <= position["maker"]
    /\ Hedging => entry.required = entry.seen - entry.hedged /\ entry.filled <= entry.required
    /\ pc \in {"order", "confirm"} => entry.before <= position["hedge"]

\* Each leg tries at most MaxRetries times.
LegsFollow == \A leg \in Legs : Leg(leg).at = "order" => Leg(leg).attempt < MaxRetries

\* Whatever is on a venue whose leg was found flat, or whose record is closed,
\* filled when nobody watched.
StraysAccount ==
    /\ ~ Active => position["maker"] + position["hedge"] <= stray
    /\ pc = "flatten" =>
         /\ \A leg \in Legs : Leg(leg).at = "flat" => position[leg] <= stray
         /\ (\A leg \in Legs : Leg(leg).at = "flat")
              => position["maker"] + position["hedge"] <= stray

LiveInv ==
    /\ LiveTypeOK
    /\ OpenOrderCanFill
    /\ RecordFollows
    /\ EntryFollows
    /\ LegsFollow
    /\ StraysAccount

\* Unless a failed cancellation passes for a success, the order is gone once the
\* watch has seen its end, and as long as the record says open.
OrderIsGone ==
    /\ pc \in {"final", "increment", "check", "reconcile"} => ~ maker.open
    /\ Hedging /\ entry.resume = "check" => ~ maker.open
    /\ Watching /\ entry.done => ~ maker.open
    /\ stored.status = "open" => ~ maker.open

\* Unless a market order stays open, the hedge leg holds what was hedged and
\* what the orders of the hedge under way have filled.
HedgeIsCounted ==
    /\ market = 0
    /\ pc \in {"prepare", "place"} => position["hedge"] = 0
    /\ Watching /\ ~ Hedging => position["hedge"] = entry.hedged
    /\ pc \in {"hedge", "order"} => position["hedge"] = entry.hedged + entry.filled
    /\ pc \in {"order", "confirm"} => entry.before = entry.hedged + entry.filled
    /\ pc = "confirm" => position["hedge"] <= entry.hedged + entry.required

-----------------------------------------------------------------------------
LEMMA FreshVariables ==
    /\ NoEntry \in EntryVariables /\ NoEntry.hedged <= NoEntry.seen
    /\ \A done \in BOOLEAN :
         /\ [NoEntry EXCEPT !.done = done] \in EntryVariables
         /\ [NoEntry EXCEPT !.done = done].hedged <= [NoEntry EXCEPT !.done = done].seen
    /\ \A after \in {"none", "startup", "entry", "close", "shutdown"} :
         Flattening(after) \in FlattenVariables
<1>1. NoEntry \in EntryVariables /\ NoEntry.hedged = 0 /\ NoEntry.seen = 0
  BY LiveAssumption DEF NoEntry, EntryVariables
<1>2. \A done \in BOOLEAN :
         /\ [NoEntry EXCEPT !.done = done] \in EntryVariables
         /\ [NoEntry EXCEPT !.done = done].hedged = 0
         /\ [NoEntry EXCEPT !.done = done].seen = 0
  BY <1>1 DEF EntryVariables
<1>3. \A after \in {"none", "startup", "entry", "close", "shutdown"} :
         Flattening(after) \in FlattenVariables
  BY LiveAssumption DEF Flattening, FlattenVariables, LegVariables
<1> QED BY <1>1, <1>2, <1>3

\* A new order has filled nothing; what was open of the last one can still fill.
LEMMA PutOrderTyped ==
    ASSUME LiveInv, NEW accepted \in BOOLEAN, PutOrder(accepted)
    PROVE  maker' \in [open : BOOLEAN, filled : 0..Base] /\ orphans' \in Nat
<1>1. maker' \in [open : BOOLEAN, filled : 0..Base]
  BY LiveAssumption DEF PutOrder
<1>2. /\ Base \in Nat /\ maker.filled \in Nat /\ maker.filled <= Base /\ orphans \in Nat
      /\ orphans' = orphans + (IF maker.open THEN Base - maker.filled ELSE 0)
  BY LiveAssumption DEF PutOrder, LiveInv, LiveTypeOK
<1> QED BY <1>1, <1>2

\* A look at the order sees what it has filled.
LEMMA FetchMakerTyped ==
    ASSUME LiveInv, Watching, entry' = FetchMaker
    PROVE  /\ entry' \in EntryVariables /\ entry'.hedged <= entry'.seen
<1>1. /\ maker.filled \in 0..Base /\ (~ maker.open) \in BOOLEAN
      /\ entry \in EntryVariables /\ entry.hedged <= entry.seen /\ entry.seen <= maker.filled
  BY DEF LiveInv, LiveTypeOK, EntryFollows
<1>2. entry' \in EntryVariables /\ entry'.hedged = entry.hedged /\ entry'.seen = maker.filled
  BY <1>1 DEF FetchMaker, EntryVariables
<1>3. entry.hedged \in Nat /\ entry.seen \in Nat
  BY <1>1 DEF EntryVariables
<1> QED BY <1>1, <1>2, <1>3

\* The hedge that begins is for what was seen and is not hedged.
LEMMA BeginHedgeTyped ==
    ASSUME LiveInv, NEW resume \in {"watch", "check"}, BeginHedge(resume)
    PROVE  /\ entry' \in EntryVariables /\ entry'.hedged <= entry'.seen
           /\ entry'.required = entry'.seen - entry'.hedged /\ entry'.filled = 0
           /\ entry'.seen = entry.seen /\ entry'.hedged = entry.hedged
           /\ entry'.resume = resume /\ entry'.done = entry.done
<1>1. /\ entry \in EntryVariables /\ entry.hedged \in Nat /\ entry.seen \in 0..Base
      /\ entry.hedged < entry.seen /\ MaxRetries \in Nat \ {0} /\ Base \in Nat
  BY LiveAssumption DEF LiveInv, LiveTypeOK, EntryVariables, BeginHedge
<1>2. entry.seen - entry.hedged \in 0..Base /\ 1 \in 1..MaxRetries /\ 0 \in 0..Base
  BY <1>1
<1>3. entry' = [entry EXCEPT !.required = entry.seen - entry.hedged, !.filled = 0,
                             !.attempt = 1, !.resume = resume]
  BY DEF BeginHedge
<1>4. entry' \in EntryVariables
  BY <1>1, <1>2, <1>3 DEF EntryVariables
<1>5. /\ entry'.required = entry.seen - entry.hedged /\ entry'.filled = 0
      /\ entry'.seen = entry.seen /\ entry'.hedged = entry.hedged
      /\ entry'.resume = resume /\ entry'.done = entry.done
  BY <1>1, <1>3 DEF EntryVariables
<1> QED BY <1>1, <1>4, <1>5

\* The hedge under way: what it asks for is not more than what was seen, and a
\* position that has not shrunk confirms a part of it.
LEMMA HedgeFacts ==
    ASSUME LiveInv, Hedging
    PROVE  /\ entry.required = entry.seen - entry.hedged
           /\ entry.required \in 0..Base /\ entry.filled \in 0..entry.required
           /\ entry.seen \in 0..Base /\ entry.hedged \in 0..Base
           /\ entry.before \in Nat /\ entry.attempt \in 1..MaxRetries
           /\ Remaining \in 0..Base /\ Remaining = entry.required - entry.filled
           /\ position["hedge"] \in Nat
           /\ pc = "confirm" => Confirmed \in 0..Remaining
<1>1. /\ entry.required = entry.seen - entry.hedged
      /\ entry.required \in 0..Base /\ entry.filled \in 0..Base
      /\ entry.filled <= entry.required
      /\ entry.seen \in 0..Base /\ entry.hedged \in 0..Base
      /\ entry.before \in Nat /\ entry.attempt \in 1..MaxRetries
      /\ position["hedge"] \in Nat
      /\ pc = "confirm" => entry.before <= position["hedge"]
  BY DEF LiveInv, LiveTypeOK, EntryVariables, EntryFollows, Legs
<1>2. Remaining \in 0..Base /\ Remaining = entry.required - entry.filled
  BY <1>1, LiveAssumption DEF Remaining
<1>3. pc = "confirm" => Confirmed \in 0..Remaining
  BY <1>1, <1>2 DEF Confirmed
<1> QED BY <1>1, <1>2, <1>3, LiveAssumption

\* The order fills a part, and the rest of it may stay open.
LEMMA HedgeOrderTyped ==
    ASSUME LiveInv, HedgeOrder
    PROVE  /\ position' \in [Legs -> Nat] /\ market' \in Nat
           /\ entry' \in EntryVariables /\ entry'.hedged <= entry'.seen
           /\ faults' \in 0..MaxFaults /\ crashes' \in 0..MaxCrashes
<1>1. /\ Remaining \in Nat /\ position["hedge"] \in Nat /\ market \in Nat
      /\ position \in [Legs -> Nat]
      /\ entry \in EntryVariables /\ entry.hedged <= entry.seen
  BY HedgeFacts DEF HedgeOrder, Hedging, LiveInv, LiveTypeOK
<1>2. PICK fill \in 0..Remaining :
        /\ IF fill = Remaining THEN UNCHANGED budgets ELSE Fault
        /\ position' = [position EXCEPT !["hedge"] = @ + fill]
        /\ \/ /\ market' = market
              /\ entry' \in {[entry EXCEPT !.refused = r] : r \in BOOLEAN}
           \/ /\ MayLinger /\ fill < Remaining
              /\ market' = market + Remaining - fill
              /\ entry' = [entry EXCEPT !.refused = FALSE]
  BY Zenon DEF HedgeOrder
<1>3. position["hedge"] + fill \in Nat /\ market + Remaining - fill \in Nat
  BY <1>1, <1>2
<1>4. position' \in [Legs -> Nat]
  BY <1>1, <1>2, <1>3
<1>5. market' \in Nat
  BY <1>1, <1>2, <1>3
<1>6. entry' \in EntryVariables /\ entry'.hedged <= entry'.seen
  BY <1>1, <1>2 DEF EntryVariables
<1>7. faults' \in 0..MaxFaults /\ crashes' \in 0..MaxCrashes
  BY <1>2, LiveAssumption DEF Fault, budgets, LiveInv, LiveTypeOK
<1> QED BY <1>4, <1>5, <1>6, <1>7

-----------------------------------------------------------------------------
\* The start: what is recorded is adopted, or closed on both legs.
LEMMA StartUpInv ==
    ASSUME LiveInv, Start \/ Adopt \/ RefuseToAdopt
    PROVE  LiveInv'
<1> USE DEF LiveInv, Legs, Leg, venues, budgets, EntryOnly, Goto
<1>1. CASE Start
  <2>1. LiveTypeOK'
    BY <1>1, FreshVariables, LiveAssumption DEF Start, LiveTypeOK, SaveAndFlatten,
        Statuses, Locations, EntryLocations
  <2>2. OpenOrderCanFill' /\ RecordFollows' /\ EntryFollows' /\ LegsFollow' /\ StraysAccount'
    BY <1>1, LiveAssumption DEF Start, OpenOrderCanFill, RecordFollows, EntryFollows,
        LegsFollow, StraysAccount, LiveTypeOK, SaveAndFlatten, EntryLocations, Watching,
        Hedging, Active, Statuses, Locations, EntryVariables, FlattenVariables, NoEntry,
        Flattening, LegVariables
  <2> QED BY <2>1, <2>2
<1>2. CASE Adopt
  <2>1. LiveTypeOK'
    BY <1>2, FreshVariables, LiveAssumption DEF Adopt, LiveTypeOK, Matches, Statuses,
        Locations, EntryLocations
  <2>2. OpenOrderCanFill' /\ RecordFollows' /\ EntryFollows' /\ LegsFollow' /\ StraysAccount'
    BY <1>2, LiveAssumption DEF Adopt, OpenOrderCanFill, RecordFollows, EntryFollows,
        LegsFollow, StraysAccount, LiveTypeOK, Matches, EntryLocations, Watching,
        Hedging, Active, Statuses, Locations, EntryVariables, FlattenVariables,
        LegVariables
  <2> QED BY <2>1, <2>2
<1>3. CASE RefuseToAdopt
  <2>1. LiveTypeOK'
    BY <1>3, FreshVariables, LiveAssumption DEF RefuseToAdopt, LiveTypeOK, Matches,
        Fault, SaveAndFlatten, Statuses, Locations, EntryLocations
  <2>2. OpenOrderCanFill' /\ RecordFollows' /\ EntryFollows' /\ LegsFollow' /\ StraysAccount'
    BY <1>3, LiveAssumption DEF RefuseToAdopt, OpenOrderCanFill, RecordFollows,
        EntryFollows, LegsFollow, StraysAccount, LiveTypeOK, Matches, Fault,
        SaveAndFlatten, EntryLocations, Watching, Hedging, Active, Statuses, Locations,
        EntryVariables, FlattenVariables, NoEntry, Flattening, LegVariables
  <2> QED BY <2>1, <2>2
<1> QED BY <1>1, <1>2, <1>3

\* The scan: the market is clean, and the record is saved before the order goes
\* out.
LEMMA ScanInv ==
    ASSUME LiveInv, AssertCleanMarket \/ RefuseEntry \/ Stop \/ SaveOpening \/
           PrepareRaises
    PROVE  LiveInv'
<1> USE DEF LiveInv, Legs, Leg, venues, budgets, EntryOnly, Goto
<1>1. CASE AssertCleanMarket
  <2>1. LiveTypeOK'
    BY <1>1, FreshVariables, LiveAssumption DEF AssertCleanMarket, LiveTypeOK, Active,
        Flat, Statuses, Locations, EntryLocations
  <2>2. OpenOrderCanFill' /\ RecordFollows' /\ EntryFollows' /\ LegsFollow' /\ StraysAccount'
    BY <1>1, LiveAssumption DEF AssertCleanMarket, OpenOrderCanFill, RecordFollows,
        EntryFollows, LegsFollow, StraysAccount, LiveTypeOK, Active, Flat,
        EntryLocations, Watching, Hedging, Statuses, Locations, EntryVariables,
        FlattenVariables, LegVariables
  <2> QED BY <2>1, <2>2
<1>2. CASE RefuseEntry
  <2>1. LiveTypeOK'
    BY <1>2, FreshVariables, LiveAssumption DEF RefuseEntry, LiveTypeOK, Active, Flat,
        Fault, Exit, Statuses, Locations, EntryLocations
  <2>2. OpenOrderCanFill' /\ RecordFollows' /\ EntryFollows' /\ LegsFollow' /\ StraysAccount'
    BY <1>2, LiveAssumption DEF RefuseEntry, OpenOrderCanFill, RecordFollows,
        EntryFollows, LegsFollow, StraysAccount, LiveTypeOK, Active, Flat, Fault, Exit,
        EntryLocations, Watching, Hedging, Statuses, Locations, EntryVariables,
        FlattenVariables, NoEntry, Flattening, LegVariables
  <2> QED BY <2>1, <2>2
<1>3. CASE Stop
  <2>1. LiveTypeOK'
    BY <1>3, FreshVariables, LiveAssumption DEF Stop, LiveTypeOK, Exit, Statuses,
        Locations, EntryLocations
  <2>2. OpenOrderCanFill' /\ RecordFollows' /\ EntryFollows' /\ LegsFollow' /\ StraysAccount'
    BY <1>3, LiveAssumption DEF Stop, OpenOrderCanFill, RecordFollows, EntryFollows,
        LegsFollow, StraysAccount, LiveTypeOK, Exit, EntryLocations, Watching, Hedging,
        Active, Statuses, Locations, EntryVariables, FlattenVariables, NoEntry,
        Flattening, LegVariables
  <2> QED BY <2>1, <2>2
<1>4. CASE SaveOpening
  <2>1. LiveTypeOK'
    BY <1>4, FreshVariables, LiveAssumption DEF SaveOpening, LiveTypeOK, Record,
        Statuses, Locations, EntryLocations
  <2>2. OpenOrderCanFill' /\ RecordFollows' /\ EntryFollows' /\ LegsFollow' /\ StraysAccount'
    BY <1>4, LiveAssumption DEF SaveOpening, OpenOrderCanFill, RecordFollows,
        EntryFollows, LegsFollow, StraysAccount, LiveTypeOK, Record, EntryLocations,
        Watching, Hedging, Active, Statuses, Locations, EntryVariables,
        FlattenVariables, LegVariables
  <2> QED BY <2>1, <2>2
<1>5. CASE PrepareRaises
  <2>1. LiveTypeOK'
    BY <1>5, FreshVariables, LiveAssumption DEF PrepareRaises, LiveTypeOK, Fault, Exit,
        Statuses, Locations, EntryLocations
  <2>2. OpenOrderCanFill' /\ RecordFollows' /\ EntryFollows' /\ LegsFollow' /\ StraysAccount'
    BY <1>5, LiveAssumption DEF PrepareRaises, OpenOrderCanFill, RecordFollows,
        EntryFollows, LegsFollow, StraysAccount, LiveTypeOK, Fault, Exit,
        EntryLocations, Watching, Hedging, Active, Statuses, Locations, EntryVariables,
        FlattenVariables, NoEntry, Flattening, LegVariables
  <2> QED BY <2>1, <2>2
<1> QED BY <1>1, <1>2, <1>3, <1>4, <1>5

\* The order goes out, or the call raises with or without it.
LEMMA PlaceInv ==
    ASSUME LiveInv, PlaceMaker \/ PlaceMakerRaises
    PROVE  LiveInv'
<1> USE DEF LiveInv, Legs, Leg, venues, budgets, EntryOnly, Goto
<1>1. CASE PlaceMaker
  <2>1. LiveTypeOK'
    <3>1. PICK accepted \in BOOLEAN :
              PutOrder(accepted) /\ entry' = [NoEntry EXCEPT !.done = ~ accepted]
      BY <1>1 DEF PlaceMaker
    <3>2. /\ maker' \in [open : BOOLEAN, filled : 0..Base] /\ orphans' \in Nat
          /\ entry' \in EntryVariables /\ entry'.hedged <= entry'.seen
      BY <3>1, PutOrderTyped, FreshVariables
    <3> QED BY <1>1, <3>1, <3>2 DEF PlaceMaker, PutOrder, LiveTypeOK, Locations, EntryLocations
  <2>2. OpenOrderCanFill' /\ RecordFollows' /\ EntryFollows' /\ LegsFollow' /\ StraysAccount'
    BY <1>1, LiveAssumption DEF PlaceMaker, OpenOrderCanFill, RecordFollows,
        EntryFollows, LegsFollow, StraysAccount, LiveTypeOK, PutOrder, NoEntry,
        EntryLocations, Watching, Hedging, Active, Statuses, Locations, EntryVariables,
        FlattenVariables, LegVariables
  <2> QED BY <2>1, <2>2
<1>2. CASE PlaceMakerRaises
  <2>1. LiveTypeOK'
    <3>1. maker' \in [open : BOOLEAN, filled : 0..Base] /\ orphans' \in Nat
      BY <1>2, PutOrderTyped DEF PlaceMakerRaises, LiveTypeOK
    <3>2. UNCHANGED <<position, stray, market>>
      BY <1>2 DEF PlaceMakerRaises, PutOrder
    <3> QED BY <1>2, <3>1, <3>2, FreshVariables, LiveAssumption
        DEF PlaceMakerRaises, EntryFails, SaveAndFlatten, Fault, Record, LiveTypeOK, Locations,
            Statuses
  <2>2. OpenOrderCanFill' /\ RecordFollows' /\ EntryFollows' /\ LegsFollow' /\ StraysAccount'
    BY <1>2, LiveAssumption DEF PlaceMakerRaises, OpenOrderCanFill, RecordFollows,
        EntryFollows, LegsFollow, StraysAccount, LiveTypeOK, Fault, PutOrder,
        EntryFails, EntryLocations, Watching, Hedging, Active, Statuses, Locations,
        EntryVariables, FlattenVariables, SaveAndFlatten, Record, LegVariables, NoEntry,
        Flattening
  <2> QED BY <2>1, <2>2
<1> QED BY <1>1, <1>2

\* The watch of the order.
LEMMA WatchInv ==
    ASSUME LiveInv, HedgeIncrement \/ Poll \/ StopWatching \/ CancelMaker \/
           CancelSwallowed \/ FinalFetch \/ FinalIncrement \/ MakerCallRaises
    PROVE  LiveInv'
<1> USE DEF LiveInv, Legs, Leg, venues, budgets, EntryOnly, Goto
<1>1. CASE HedgeIncrement
  <2>1. LiveTypeOK'
    BY <1>1, BeginHedgeTyped
    DEF HedgeIncrement, BeginHedge, LiveTypeOK, Locations, EntryLocations
  <2>2. OpenOrderCanFill' /\ RecordFollows' /\ EntryFollows' /\ LegsFollow' /\ StraysAccount'
    BY <1>1, LiveAssumption DEF HedgeIncrement, OpenOrderCanFill, RecordFollows,
        EntryFollows, LegsFollow, StraysAccount, LiveTypeOK, BeginHedge, EntryLocations,
        Watching, Hedging, Active, Statuses, Locations, EntryVariables,
        FlattenVariables, LegVariables
  <2> QED BY <2>1, <2>2
<1>2. CASE Poll
  <2>1. LiveTypeOK'
    <3>1. Watching
      BY <1>2 DEF Poll, Watching, EntryLocations
    <3>2. entry' \in EntryVariables /\ entry'.hedged <= entry'.seen
      BY <1>2, <3>1, FetchMakerTyped DEF Poll
    <3> QED BY <1>2, <3>2 DEF Poll, LiveTypeOK, Locations, EntryLocations
  <2>2. OpenOrderCanFill' /\ RecordFollows' /\ EntryFollows' /\ LegsFollow' /\ StraysAccount'
    BY <1>2, LiveAssumption DEF Poll, OpenOrderCanFill, RecordFollows, EntryFollows,
        LegsFollow, StraysAccount, LiveTypeOK, FetchMaker, EntryLocations, Watching,
        Hedging, Active, Statuses, Locations, EntryVariables, FlattenVariables,
        LegVariables
  <2> QED BY <2>1, <2>2
<1>3. CASE StopWatching
  <2>1. LiveTypeOK'
    BY <1>3, FreshVariables, LiveAssumption DEF StopWatching, LiveTypeOK, Statuses,
        Locations, EntryLocations
  <2>2. OpenOrderCanFill' /\ RecordFollows' /\ EntryFollows' /\ LegsFollow' /\ StraysAccount'
    BY <1>3, LiveAssumption DEF StopWatching, OpenOrderCanFill, RecordFollows,
        EntryFollows, LegsFollow, StraysAccount, LiveTypeOK, EntryLocations, Watching,
        Hedging, Active, Statuses, Locations, EntryVariables, FlattenVariables,
        LegVariables
  <2> QED BY <2>1, <2>2
<1>4. CASE CancelMaker
  <2>1. LiveTypeOK'
    <3>1. maker' \in [open : BOOLEAN, filled : 0..Base]
      BY <1>4 DEF CancelMaker, LiveTypeOK
    <3> QED BY <1>4, <3>1 DEF CancelMaker, LiveTypeOK, Locations, EntryLocations
  <2>2. OpenOrderCanFill' /\ RecordFollows' /\ EntryFollows' /\ LegsFollow' /\ StraysAccount'
    BY <1>4, LiveAssumption DEF CancelMaker, OpenOrderCanFill, RecordFollows,
        EntryFollows, LegsFollow, StraysAccount, LiveTypeOK, EntryLocations, Watching,
        Hedging, Active, Statuses, Locations, EntryVariables, FlattenVariables,
        LegVariables
  <2> QED BY <2>1, <2>2
<1>5. CASE CancelSwallowed
  <2>1. LiveTypeOK'
    BY <1>5, FreshVariables, LiveAssumption DEF CancelSwallowed, LiveTypeOK, Fault,
        Statuses, Locations, EntryLocations
  <2>2. OpenOrderCanFill' /\ RecordFollows' /\ EntryFollows' /\ LegsFollow' /\ StraysAccount'
    BY <1>5, LiveAssumption DEF CancelSwallowed, OpenOrderCanFill, RecordFollows,
        EntryFollows, LegsFollow, StraysAccount, LiveTypeOK, Fault, EntryLocations,
        Watching, Hedging, Active, Statuses, Locations, EntryVariables,
        FlattenVariables, LegVariables
  <2> QED BY <2>1, <2>2
<1>6. CASE FinalFetch
  <2>1. LiveTypeOK'
    <3>1. Watching
      BY <1>6 DEF FinalFetch, Watching, EntryLocations
    <3>2. entry' \in EntryVariables /\ entry'.hedged <= entry'.seen
      BY <1>6, <3>1, FetchMakerTyped DEF FinalFetch
    <3> QED BY <1>6, <3>2 DEF FinalFetch, LiveTypeOK, Locations, EntryLocations
  <2>2. OpenOrderCanFill' /\ RecordFollows' /\ EntryFollows' /\ LegsFollow' /\ StraysAccount'
    BY <1>6, LiveAssumption DEF FinalFetch, OpenOrderCanFill, RecordFollows,
        EntryFollows, LegsFollow, StraysAccount, LiveTypeOK, FetchMaker, EntryLocations,
        Watching, Hedging, Active, Statuses, Locations, EntryVariables,
        FlattenVariables, LegVariables
  <2> QED BY <2>1, <2>2
<1>7. CASE FinalIncrement
  <2>1. LiveTypeOK'
    BY <1>7, BeginHedgeTyped
    DEF FinalIncrement, BeginHedge, LiveTypeOK, Locations, EntryLocations
  <2>2. OpenOrderCanFill' /\ RecordFollows' /\ EntryFollows' /\ LegsFollow' /\ StraysAccount'
    <3>1. CASE BeginHedge("check")
      BY <1>7, <3>1, BeginHedgeTyped
      DEF FinalIncrement, BeginHedge, LiveTypeOK, EntryVariables, OpenOrderCanFill, RecordFollows,
          EntryFollows, LegsFollow, StraysAccount, Hedging, Watching, EntryLocations, Active
    <3>2. CASE entry.seen = entry.hedged /\ pc' = "check" /\ UNCHANGED entry
      BY <1>7, <3>2
      DEF FinalIncrement, OpenOrderCanFill, RecordFollows, EntryFollows, LegsFollow,
          StraysAccount, Hedging, Watching, EntryLocations, Active
    <3> QED BY <1>7, <3>1, <3>2 DEF FinalIncrement
  <2> QED BY <2>1, <2>2
<1>8. CASE MakerCallRaises
  <2>1. LiveTypeOK'
    <3>1. maker' \in [open : BOOLEAN, filled : 0..Base]
      <4>1. [maker EXCEPT !.open = FALSE] \in [open : BOOLEAN, filled : 0..Base]
        BY DEF LiveTypeOK
      <4> QED BY <1>8, <4>1 DEF MakerCallRaises, LiveTypeOK
    <3> QED BY <1>8, <3>1, FreshVariables, LiveAssumption
        DEF MakerCallRaises, EntryFails, SaveAndFlatten, Fault, Record, LiveTypeOK, Locations,
            Statuses
  <2>2. OpenOrderCanFill' /\ RecordFollows' /\ EntryFollows' /\ LegsFollow' /\ StraysAccount'
    BY <1>8, LiveAssumption DEF MakerCallRaises, OpenOrderCanFill, RecordFollows,
        EntryFollows, LegsFollow, StraysAccount, LiveTypeOK, Fault, EntryFails,
        EntryLocations, Watching, Hedging, Active, Statuses, Locations, EntryVariables,
        FlattenVariables, SaveAndFlatten, Record, LegVariables, NoEntry, Flattening
  <2> QED BY <2>1, <2>2
<1> QED BY <1>1, <1>2, <1>3, <1>4, <1>5, <1>6, <1>7, <1>8

\* The hedge of what was seen.
LEMMA HedgeInv ==
    ASSUME LiveInv, FetchBefore \/ HedgeOrder \/ HedgeCallRaises \/ HedgeConfirmed
           \/ HedgeAgain \/ HedgeFails
    PROVE  LiveInv'
<1> USE DEF LiveInv, Legs, Leg, venues, budgets, EntryOnly, Goto
<1>1. CASE FetchBefore
  <2>1. LiveTypeOK'
    <3>1. entry' \in EntryVariables /\ entry'.hedged <= entry'.seen
      BY <1>1 DEF FetchBefore, EntryVariables, LiveTypeOK
    <3> QED BY <1>1, <3>1 DEF FetchBefore, LiveTypeOK, Locations, EntryLocations
  <2>2. OpenOrderCanFill' /\ RecordFollows' /\ EntryFollows' /\ LegsFollow' /\ StraysAccount'
    BY <1>1, LiveAssumption DEF FetchBefore, OpenOrderCanFill, RecordFollows,
        EntryFollows, LegsFollow, StraysAccount, LiveTypeOK, EntryLocations, Watching,
        Hedging, Active, Statuses, Locations, EntryVariables, FlattenVariables,
        LegVariables
  <2> QED BY <2>1, <2>2
<1>2. CASE HedgeOrder
  <2>1. LiveTypeOK'
    BY <1>2, HedgeOrderTyped DEF HedgeOrder, LiveTypeOK, Locations, EntryLocations
  <2>2. OpenOrderCanFill' /\ RecordFollows' /\ EntryFollows' /\ LegsFollow' /\ StraysAccount'
    BY <1>2, LiveAssumption DEF HedgeOrder, OpenOrderCanFill, RecordFollows,
        EntryFollows, LegsFollow, StraysAccount, LiveTypeOK, Remaining, Fault,
        EntryLocations, Watching, Hedging, Active, Statuses, Locations, EntryVariables,
        FlattenVariables, LegVariables
  <2> QED BY <2>1, <2>2
<1>3. CASE HedgeCallRaises
  <2>1. LiveTypeOK'
    BY <1>3, FreshVariables, LiveAssumption DEF HedgeCallRaises, LiveTypeOK, Fault,
        Remaining, EntryFails, Statuses, Locations, SaveAndFlatten, Record,
        EntryLocations
  <2>2. OpenOrderCanFill' /\ RecordFollows' /\ EntryFollows' /\ LegsFollow' /\ StraysAccount'
    BY <1>3, LiveAssumption DEF HedgeCallRaises, OpenOrderCanFill, RecordFollows,
        EntryFollows, LegsFollow, StraysAccount, LiveTypeOK, Fault, Remaining,
        EntryFails, EntryLocations, Watching, Hedging, Active, Statuses, Locations,
        EntryVariables, FlattenVariables, SaveAndFlatten, Record, LegVariables, NoEntry,
        Flattening
  <2> QED BY <2>1, <2>2
<1>4. CASE HedgeConfirmed
  <2>1. LiveTypeOK'
    <3>1. /\ entry.hedged + entry.required = entry.seen /\ entry.seen \in 0..Base
          /\ entry.resume \in {"watch", "check"}
      BY <1>4, HedgeFacts, LiveAssumption DEF HedgeConfirmed, Hedging, LiveTypeOK, EntryVariables
    <3>2. entry' = [entry EXCEPT !.hedged = entry.seen]
      BY <1>4, <3>1 DEF HedgeConfirmed
    <3>3. entry' \in EntryVariables /\ entry'.hedged <= entry'.seen
      BY <3>1, <3>2 DEF EntryVariables, LiveTypeOK
    <3> QED BY <1>4, <3>1, <3>3 DEF HedgeConfirmed, LiveTypeOK, Locations, EntryLocations
  <2>2. OpenOrderCanFill' /\ RecordFollows' /\ EntryFollows' /\ LegsFollow' /\ StraysAccount'
    BY <1>4, LiveAssumption DEF HedgeConfirmed, OpenOrderCanFill, RecordFollows,
        EntryFollows, LegsFollow, StraysAccount, LiveTypeOK, Confirmed, EntryLocations,
        Watching, Hedging, Active, Statuses, Locations, EntryVariables,
        FlattenVariables, Remaining, LegVariables
  <2> QED BY <2>1, <2>2
<1>5. CASE HedgeAgain
  <2>1. LiveTypeOK'
    <3>1. /\ entry.filled + Confirmed \in 0..Base /\ entry.attempt + 1 \in 1..MaxRetries
          /\ entry \in EntryVariables /\ entry.hedged <= entry.seen
      BY <1>5, HedgeFacts, LiveAssumption DEF HedgeAgain, Hedging, LiveTypeOK
    <3>2. entry' = [entry EXCEPT !.filled = entry.filled + Confirmed,
                                 !.attempt = entry.attempt + 1]
      BY <1>5 DEF HedgeAgain
    <3>3. entry' \in EntryVariables /\ entry'.hedged <= entry'.seen
      BY <3>1, <3>2 DEF EntryVariables
    <3> QED BY <1>5, <3>3 DEF HedgeAgain, LiveTypeOK, Locations, EntryLocations
  <2>2. OpenOrderCanFill' /\ RecordFollows' /\ EntryFollows' /\ LegsFollow' /\ StraysAccount'
    BY <1>5, LiveAssumption DEF HedgeAgain, OpenOrderCanFill, RecordFollows,
        EntryFollows, LegsFollow, StraysAccount, LiveTypeOK, Confirmed, EntryLocations,
        Watching, Hedging, Active, Statuses, Locations, EntryVariables,
        FlattenVariables, Remaining, LegVariables
  <2> QED BY <2>1, <2>2
<1>6. CASE HedgeFails
  <2>1. LiveTypeOK'
    BY <1>6, FreshVariables, LiveAssumption DEF HedgeFails, LiveTypeOK, Confirmed,
        EntryFails, Statuses, Locations, Remaining, SaveAndFlatten, Record,
        EntryLocations
  <2>2. OpenOrderCanFill' /\ RecordFollows' /\ EntryFollows' /\ LegsFollow' /\ StraysAccount'
    BY <1>6, LiveAssumption DEF HedgeFails, OpenOrderCanFill, RecordFollows,
        EntryFollows, LegsFollow, StraysAccount, LiveTypeOK, Confirmed, EntryFails,
        EntryLocations, Watching, Hedging, Active, Statuses, Locations, EntryVariables,
        FlattenVariables, Remaining, SaveAndFlatten, Record, LegVariables, NoEntry,
        Flattening
  <2> QED BY <2>1, <2>2
<1> QED BY <1>1, <1>2, <1>3, <1>4, <1>5, <1>6

\* The record says open, and both legs are what it says.
LEMMA SettleInv ==
    ASSUME LiveInv, SaveOpen \/ FillBelowMinimum \/ Opened \/ ReconcileFails
    PROVE  LiveInv'
<1> USE DEF LiveInv, Legs, Leg, venues, budgets, EntryOnly, Goto
<1>1. CASE SaveOpen
  <2>1. LiveTypeOK'
    <3>1. entry.hedged \in 0..Base
      BY DEF LiveTypeOK, EntryVariables
    <3> QED BY <1>1, <3>1 DEF SaveOpen, Record, LiveTypeOK, Statuses, Locations, EntryLocations
  <2>2. OpenOrderCanFill' /\ RecordFollows' /\ EntryFollows' /\ LegsFollow' /\ StraysAccount'
    BY <1>1, LiveAssumption DEF SaveOpen, OpenOrderCanFill, RecordFollows, EntryFollows,
        LegsFollow, StraysAccount, LiveTypeOK, Record, EntryLocations, Watching,
        Hedging, Active, Statuses, Locations, EntryVariables, FlattenVariables,
        LegVariables
  <2> QED BY <2>1, <2>2
<1>2. CASE FillBelowMinimum
  <2>1. LiveTypeOK'
    BY <1>2, FreshVariables, LiveAssumption DEF FillBelowMinimum, LiveTypeOK,
        EntryFails, Statuses, Locations, SaveAndFlatten, Record, EntryLocations
  <2>2. OpenOrderCanFill' /\ RecordFollows' /\ EntryFollows' /\ LegsFollow' /\ StraysAccount'
    BY <1>2, LiveAssumption DEF FillBelowMinimum, OpenOrderCanFill, RecordFollows,
        EntryFollows, LegsFollow, StraysAccount, LiveTypeOK, EntryFails, EntryLocations,
        Watching, Hedging, Active, Statuses, Locations, EntryVariables,
        FlattenVariables, SaveAndFlatten, Record, LegVariables, NoEntry, Flattening
  <2> QED BY <2>1, <2>2
<1>3. CASE Opened
  <2>1. LiveTypeOK'
    BY <1>3, FreshVariables, LiveAssumption DEF Opened, LiveTypeOK, Matches, Statuses,
        Locations, EntryLocations
  <2>2. OpenOrderCanFill' /\ RecordFollows' /\ EntryFollows' /\ LegsFollow' /\ StraysAccount'
    BY <1>3, LiveAssumption DEF Opened, OpenOrderCanFill, RecordFollows, EntryFollows,
        LegsFollow, StraysAccount, LiveTypeOK, Matches, NoEntry, EntryLocations,
        Watching, Hedging, Active, Statuses, Locations, EntryVariables,
        FlattenVariables, LegVariables
  <2> QED BY <2>1, <2>2
<1>4. CASE ReconcileFails
  <2>1. LiveTypeOK'
    BY <1>4, FreshVariables, LiveAssumption DEF ReconcileFails, LiveTypeOK, Matches,
        Fault, EntryFails, Statuses, Locations, SaveAndFlatten, Record, EntryLocations
  <2>2. OpenOrderCanFill' /\ RecordFollows' /\ EntryFollows' /\ LegsFollow' /\ StraysAccount'
    BY <1>4, LiveAssumption DEF ReconcileFails, OpenOrderCanFill, RecordFollows,
        EntryFollows, LegsFollow, StraysAccount, LiveTypeOK, Matches, Fault, EntryFails,
        EntryLocations, Watching, Hedging, Active, Statuses, Locations, EntryVariables,
        FlattenVariables, SaveAndFlatten, Record, LegVariables, NoEntry, Flattening
  <2> QED BY <2>1, <2>2
<1> QED BY <1>1, <1>2, <1>3, <1>4

\* The position is closed for a reason or on the way out.
LEMMA HoldInv ==
    ASSUME LiveInv, ClosePosition \/ Mismatch \/ Shutdown
    PROVE  LiveInv'
<1> USE DEF LiveInv, Legs, Leg, venues, budgets, EntryOnly, Goto
<1>1. CASE ClosePosition
  <2>1. LiveTypeOK'
    BY <1>1, FreshVariables, LiveAssumption DEF ClosePosition, LiveTypeOK, Matches,
        SaveAndFlatten, Closing, Statuses, Locations, Record, EntryLocations
  <2>2. OpenOrderCanFill' /\ RecordFollows' /\ EntryFollows' /\ LegsFollow' /\ StraysAccount'
    BY <1>1, LiveAssumption DEF ClosePosition, OpenOrderCanFill, RecordFollows,
        EntryFollows, LegsFollow, StraysAccount, LiveTypeOK, Matches, SaveAndFlatten,
        Closing, EntryLocations, Watching, Hedging, Active, Statuses, Locations,
        EntryVariables, FlattenVariables, NoEntry, Flattening, Record, LegVariables
  <2> QED BY <2>1, <2>2
<1>2. CASE Mismatch
  <2>1. LiveTypeOK'
    BY <1>2, FreshVariables, LiveAssumption DEF Mismatch, LiveTypeOK, Matches,
        SaveAndFlatten, Closing, Statuses, Locations, Record, EntryLocations
  <2>2. OpenOrderCanFill' /\ RecordFollows' /\ EntryFollows' /\ LegsFollow' /\ StraysAccount'
    BY <1>2, LiveAssumption DEF Mismatch, OpenOrderCanFill, RecordFollows, EntryFollows,
        LegsFollow, StraysAccount, LiveTypeOK, Matches, SaveAndFlatten, Closing,
        EntryLocations, Watching, Hedging, Active, Statuses, Locations, EntryVariables,
        FlattenVariables, NoEntry, Flattening, Record, LegVariables
  <2> QED BY <2>1, <2>2
<1>3. CASE Shutdown
  <2>1. LiveTypeOK'
    BY <1>3, FreshVariables, LiveAssumption DEF Shutdown, LiveTypeOK, Fault,
        SaveAndFlatten, Closing, Statuses, Locations, Record, EntryLocations
  <2>2. OpenOrderCanFill' /\ RecordFollows' /\ EntryFollows' /\ LegsFollow' /\ StraysAccount'
    BY <1>3, LiveAssumption DEF Shutdown, OpenOrderCanFill, RecordFollows, EntryFollows,
        LegsFollow, StraysAccount, LiveTypeOK, Fault, SaveAndFlatten, Closing,
        EntryLocations, Watching, Hedging, Active, Statuses, Locations, EntryVariables,
        FlattenVariables, NoEntry, Flattening, Record, LegVariables
  <2> QED BY <2>1, <2>2
<1> QED BY <1>1, <1>2, <1>3

\* What the venues do of themselves counts as stray when nobody watches.
LEMMA VenuesInv ==
    ASSUME LiveInv, MakerFills \/ OrphanFills \/ MarketFills
    PROVE  LiveInv'
<1> USE DEF LiveInv, Legs, Leg, venues, budgets, EntryOnly, Goto
<1>1. CASE MakerFills
  <2>1. LiveTypeOK'
    <3>1. /\ maker.filled \in Nat /\ maker.filled < Base /\ Base \in Nat /\ stray \in Nat
          /\ position \in [Legs -> Nat]
      BY <1>1, LiveAssumption DEF MakerFills, LiveTypeOK, OpenOrderCanFill
    <3>2. maker' \in [open : BOOLEAN, filled : 0..Base] /\ stray' \in Nat
      BY <1>1, <3>1 DEF MakerFills
    <3>3. position' \in [Legs -> Nat]
      BY <1>1, <3>1 DEF MakerFills
    <3> QED BY <1>1, <3>2, <3>3 DEF MakerFills, LiveTypeOK
  <2>2. OpenOrderCanFill' /\ RecordFollows' /\ EntryFollows' /\ LegsFollow' /\ StraysAccount'
    <3>1. /\ maker.filled \in Nat /\ maker.filled < Base /\ Base \in Nat
          /\ position["maker"] \in Nat /\ position["hedge"] \in Nat /\ stray \in Nat
      BY <1>1, LiveAssumption DEF MakerFills, LiveTypeOK, OpenOrderCanFill
    <3>2. /\ maker'.open = (maker.filled + 1 < Base) /\ maker'.filled = maker.filled + 1
          /\ position'["maker"] = position["maker"] + 1 /\ position'["hedge"] = position["hedge"]
          /\ UNCHANGED <<pc, entry, stored, flatten>>
          /\ stray' = IF Watching THEN stray ELSE stray + 1
      BY <1>1 DEF MakerFills, LiveTypeOK
    <3>3. OpenOrderCanFill'
      BY <3>1, <3>2 DEF OpenOrderCanFill
    <3>4. RecordFollows' /\ LegsFollow'
      BY <3>2 DEF RecordFollows, LegsFollow
    <3>5. EntryFollows'
      BY <3>1, <3>2 DEF EntryFollows, Hedging, Watching, LiveTypeOK, EntryVariables
    <3>6. StraysAccount'
      BY <3>1, <3>2 DEF StraysAccount, RecordFollows, Watching, EntryLocations, Active
    <3> QED BY <3>3, <3>4, <3>5, <3>6
  <2> QED BY <2>1, <2>2
<1>2. CASE OrphanFills
  <2>1. LiveTypeOK'
    BY <1>2, FreshVariables, LiveAssumption DEF OrphanFills, LiveTypeOK, Statuses,
        Locations, EntryLocations
  <2>2. OpenOrderCanFill' /\ RecordFollows' /\ EntryFollows' /\ LegsFollow' /\ StraysAccount'
    BY <1>2, LiveAssumption DEF OrphanFills, OpenOrderCanFill, RecordFollows,
        EntryFollows, LegsFollow, StraysAccount, LiveTypeOK, EntryLocations, Watching,
        Hedging, Active, Statuses, Locations, EntryVariables, FlattenVariables,
        LegVariables
  <2> QED BY <2>1, <2>2
<1>3. CASE MarketFills
  <2>1. LiveTypeOK'
    BY <1>3, FreshVariables, LiveAssumption DEF MarketFills, LiveTypeOK, Watching,
        Statuses, Locations, EntryLocations
  <2>2. OpenOrderCanFill' /\ RecordFollows' /\ EntryFollows' /\ LegsFollow' /\ StraysAccount'
    BY <1>3, LiveAssumption DEF MarketFills, OpenOrderCanFill, RecordFollows,
        EntryFollows, LegsFollow, StraysAccount, LiveTypeOK, Watching, EntryLocations,
        Hedging, Active, Statuses, Locations, EntryVariables, FlattenVariables,
        LegVariables
  <2> QED BY <2>1, <2>2
<1> QED BY <1>1, <1>2, <1>3

\* Both legs are done, or the router dies.
LEMMA EndInv ==
    ASSUME LiveInv, Flattened \/ FlattenFailed \/ Crash
    PROVE  LiveInv'
<1> USE DEF LiveInv, Legs, Leg, venues, budgets, EntryOnly, Goto
<1>1. CASE Flattened
  <2>1. LiveTypeOK'
    BY <1>1, FreshVariables, LiveAssumption DEF Flattened, LiveTypeOK, Exit, Statuses,
        Locations, EntryLocations
  <2>2. OpenOrderCanFill' /\ RecordFollows' /\ EntryFollows' /\ LegsFollow' /\ StraysAccount'
    BY <1>1, LiveAssumption DEF Flattened, OpenOrderCanFill, RecordFollows,
        EntryFollows, LegsFollow, StraysAccount, LiveTypeOK, NoEntry, Flattening, Exit,
        EntryLocations, Watching, Hedging, Active, Statuses, Locations, EntryVariables,
        FlattenVariables, LegVariables
  <2> QED BY <2>1, <2>2
<1>2. CASE FlattenFailed
  <2>1. LiveTypeOK'
    BY <1>2, FreshVariables, LiveAssumption DEF FlattenFailed, LiveTypeOK,
        SaveAndFlatten, Closing, Exit, Statuses, Locations, Record, EntryLocations
  <2>2. OpenOrderCanFill' /\ RecordFollows' /\ EntryFollows' /\ LegsFollow' /\ StraysAccount'
    BY <1>2, LiveAssumption DEF FlattenFailed, OpenOrderCanFill, RecordFollows,
        EntryFollows, LegsFollow, StraysAccount, LiveTypeOK, SaveAndFlatten, Closing,
        Exit, EntryLocations, Watching, Hedging, Active, Statuses, Locations,
        EntryVariables, FlattenVariables, NoEntry, Flattening, Record, LegVariables
  <2> QED BY <2>1, <2>2
<1>3. CASE Crash
  <2>1. LiveTypeOK'
    BY <1>3, FreshVariables, LiveAssumption DEF Crash, LiveTypeOK, Exit, Statuses,
        Locations, EntryLocations
  <2>2. OpenOrderCanFill' /\ RecordFollows' /\ EntryFollows' /\ LegsFollow' /\ StraysAccount'
    BY <1>3, LiveAssumption DEF Crash, OpenOrderCanFill, RecordFollows, EntryFollows,
        LegsFollow, StraysAccount, LiveTypeOK, Exit, EntryLocations, Watching, Hedging,
        Active, Statuses, Locations, EntryVariables, FlattenVariables, NoEntry,
        Flattening, LegVariables
  <2> QED BY <2>1, <2>2
<1> QED BY <1>1, <1>2, <1>3

\* One leg moves on, the other stays where it is.
LEMMA SetLegTyped ==
    ASSUME LiveInv, NEW leg \in Legs, NEW want \in Nat, NEW attempt \in 0..MaxRetries,
           NEW at \in {"fetch", "order", "flat", "failed"}, SetLeg(leg, at, attempt, want)
    PROVE  /\ flatten' \in FlattenVariables
           /\ \A other \in Legs :
                Leg(other)' = IF other = leg
                              THEN [at |-> at, attempt |-> attempt, want |-> want]
                              ELSE Leg(other)
<1>1. /\ flatten \in [after : {"none", "startup", "entry", "close", "shutdown"},
                      legs : [Legs -> LegVariables]]
      /\ [at |-> at, attempt |-> attempt, want |-> want] \in LegVariables
  BY DEF LiveInv, LiveTypeOK, FlattenVariables, LegVariables
<1> QED BY <1>1 DEF SetLeg, Leg, FlattenVariables

\* A position that is reduced stays one, and the other is not touched.
LEMMA ReducedTyped ==
    ASSUME LiveInv, NEW leg \in Legs, NEW most \in 0..position[leg], NEW fill \in 0..most,
           position' = [position EXCEPT ![leg] = @ - fill]
    PROVE  /\ position' \in [Legs -> Nat]
           /\ \A other \in Legs : position'[other] <= position[other]
<1>1. position \in [Legs -> Nat]
  BY DEF LiveInv, LiveTypeOK
<1>2. position[leg] \in Nat /\ most \in Nat /\ most <= position[leg] /\ fill \in Nat /\ fill <= most
  BY <1>1
<1>3. position[leg] - fill \in Nat /\ position[leg] - fill <= position[leg]
  BY <1>2
<1>4. \A other \in Legs : position[other] \in Nat
  BY <1>1
<1> QED BY <1>1, <1>3, <1>4

LEMMA LegFacts ==
    ASSUME LiveInv, NEW leg \in Legs
    PROVE  /\ position[leg] \in Nat
           /\ Leg(leg).attempt \in 0..MaxRetries
           /\ Reducible(leg) \in 0..position[leg]
<1>1. position[leg] \in Nat /\ Leg(leg) \in LegVariables
  BY DEF LiveInv, LiveTypeOK, FlattenVariables, Leg
<1>2. Leg(leg).attempt \in 0..MaxRetries /\ Leg(leg).want \in Nat
  BY <1>1 DEF LegVariables
<1> QED BY <1>1, <1>2 DEF Reducible

\* A leg is found flat when nothing is on its venue; from then on all that comes
\* there is a stray.
LEMMA FlattenFetchInv ==
    ASSUME LiveInv, NEW leg \in Legs, FlattenFetch(leg)
    PROVE  LiveInv'
<1>1. /\ UNCHANGED <<venues, stored, pc, entry, budgets>> /\ pc = "flatten"
  BY DEF FlattenFetch
<1>2. PICK at \in {"flat", "failed", "order"}, attempt \in 0..MaxRetries, want \in Nat :
        /\ SetLeg(leg, at, attempt, want)
        /\ at = "order" => attempt < MaxRetries
        /\ at = "flat" => position[leg] = 0
  <2>1. /\ Leg(leg).attempt \in 0..MaxRetries /\ position[leg] \in Nat /\ 0 \in 0..MaxRetries
        /\ Leg(leg).attempt = MaxRetries \/ Leg(leg).attempt < MaxRetries
    BY LegFacts, LiveAssumption
  <2> QED BY <2>1 DEF FlattenFetch
<1>3. /\ flatten' \in FlattenVariables
      /\ \A other \in Legs :
           Leg(other)' = IF other = leg
                         THEN [at |-> at, attempt |-> attempt, want |-> want]
                         ELSE Leg(other)
  BY <1>2, SetLegTyped
<1>4. LiveTypeOK'
  BY <1>1, <1>3 DEF LiveInv, LiveTypeOK, venues, budgets
<1>5. OpenOrderCanFill' /\ RecordFollows' /\ EntryFollows'
  BY <1>1 DEF LiveInv, OpenOrderCanFill, RecordFollows, EntryFollows, Hedging, Watching, venues
<1>6. LegsFollow'
  BY <1>2, <1>3 DEF LiveInv, LegsFollow
<1>7. StraysAccount'
  <2>1. /\ position["maker"] \in Nat /\ position["hedge"] \in Nat /\ stray \in Nat
        /\ position' = position /\ stray' = stray /\ stored' = stored
    BY <1>1 DEF LiveInv, LiveTypeOK, Legs, venues
  <2>2. \A other \in Legs : Leg(other)'.at = IF other = leg THEN at ELSE Leg(other).at
    BY <1>3
  <2>3. \A other \in Legs : Leg(other)'.at = "flat" => position[other] <= stray
    BY <1>1, <1>2, <2>1, <2>2 DEF LiveInv, StraysAccount
  <2>4. at = "flat" => position[leg] = 0
    BY <1>2
  <2>5. (\A other \in Legs : Leg(other)'.at = "flat")
          => position["maker"] + position["hedge"] <= stray
    BY <2>1, <2>2, <2>3, <2>4 DEF Legs
  <2>6. stored.status # "closed"
    BY <1>1 DEF LiveInv, RecordFollows
  <2> QED BY <1>1, <2>1, <2>3, <2>5, <2>6 DEF StraysAccount, Active
<1> QED BY <1>4, <1>5, <1>6, <1>7 DEF LiveInv

\* An order reduces the position of a leg that is not flat yet.
LEMMA FlattenOrderInv ==
    ASSUME LiveInv, NEW leg \in Legs, FlattenOrder(leg) \/ FlattenRaises(leg)
    PROVE  LiveInv'
<1>1. /\ UNCHANGED <<maker, orphans, stray, market, stored, pc, entry>> /\ pc = "flatten"
      /\ Leg(leg).at \in {"fetch", "order"}
      /\ faults' \in 0..MaxFaults /\ crashes' \in 0..MaxCrashes
  BY LiveAssumption DEF FlattenOrder, FlattenRaises, Fault, budgets, LiveInv, LiveTypeOK
<1>2. PICK at \in {"fetch", "failed"}, attempt \in 0..MaxRetries : SetLeg(leg, at, attempt, 0)
  <2>1. CASE FlattenOrder(leg)
    <3>1. Leg(leg).attempt \in 0..MaxRetries /\ Leg(leg).attempt < MaxRetries
      BY <2>1, LegFacts DEF FlattenOrder, LiveInv, LegsFollow
    <3>2. Leg(leg).attempt + 1 \in 0..MaxRetries
      BY <3>1, LiveAssumption
    <3> QED BY <2>1, <3>2 DEF FlattenOrder
  <2>2. CASE FlattenRaises(leg)
    <3>1. 0 \in 0..MaxRetries
      BY LiveAssumption
    <3> QED BY <2>2, <3>1 DEF FlattenRaises
  <2> QED BY <2>1, <2>2
<1>3. /\ flatten' \in FlattenVariables
      /\ \A other \in Legs :
           Leg(other)' = IF other = leg THEN [at |-> at, attempt |-> attempt, want |-> 0]
                                        ELSE Leg(other)
  BY <1>2, SetLegTyped
<1>4. PICK fill \in 0..Reducible(leg) : position' = [position EXCEPT ![leg] = @ - fill]
  <2>1. CASE FlattenOrder(leg)
    BY <2>1 DEF FlattenOrder
  <2>2. CASE FlattenRaises(leg)
    <3>1. PICK fill \in 0..(IF Leg(leg).at = "order" THEN Reducible(leg) ELSE 0) :
              position' = [position EXCEPT ![leg] = @ - fill]
      BY <2>2 DEF FlattenRaises
    <3>2. fill \in 0..Reducible(leg)
      BY <3>1, LegFacts
    <3> QED BY <3>1, <3>2
  <2> QED BY <2>1, <2>2
<1>5. position' \in [Legs -> Nat] /\ \A other \in Legs : position'[other] <= position[other]
  BY <1>4, LegFacts, ReducedTyped
<1>6. LiveTypeOK'
  BY <1>1, <1>3, <1>5 DEF LiveInv, LiveTypeOK
<1>7. OpenOrderCanFill' /\ RecordFollows'
  BY <1>1 DEF LiveInv, OpenOrderCanFill, RecordFollows
<1>8. EntryFollows'
  BY <1>1 DEF EntryFollows, Hedging, Watching, EntryLocations
<1>9. LegsFollow'
  BY <1>2, <1>3 DEF LiveInv, LegsFollow
<1>10. StraysAccount'
  <2>1. ~ (Leg(leg)'.at = "flat")
    BY <1>2, <1>3
  <2>2. \A other \in Legs : Leg(other)'.at = "flat" => position'[other] <= stray
    <3> SUFFICES ASSUME NEW other \in Legs, Leg(other)'.at = "flat"
                 PROVE  position'[other] <= stray
      OBVIOUS
    <3>1. other # leg /\ Leg(other).at = "flat"
      BY <1>3, <2>1
    <3>2. position[other] <= stray /\ position[other] \in Nat /\ stray \in Nat
      BY <1>1, <3>1, LegFacts DEF LiveInv, LiveTypeOK, StraysAccount
    <3> QED BY <1>5, <3>2
  <2>3. stored.status # "closed"
    BY <1>1 DEF LiveInv, RecordFollows
  <2> QED BY <1>1, <2>1, <2>2, <2>3 DEF StraysAccount, Active
<1> QED BY <1>6, <1>7, <1>8, <1>9, <1>10 DEF LiveInv

-----------------------------------------------------------------------------
LEMMA LiveNextInv ==
    ASSUME LiveInv, [LiveNext]_liveVars
    PROVE  LiveInv'
<1>1. CASE UNCHANGED liveVars
  BY <1>1
  DEF liveVars, venues, budgets, LiveInv, LiveTypeOK, OpenOrderCanFill, RecordFollows,
      EntryFollows, LegsFollow, StraysAccount, Hedging, Watching, Leg, Active
<1>2. CASE RouterStep
  BY <1>2, StartUpInv, ScanInv, PlaceInv, WatchInv, HedgeInv, SettleInv, HoldInv, EndInv,
     FlattenFetchInv, FlattenOrderInv
  DEF RouterStep, EntryStep, FlattenStep
<1>3. CASE RouterChoice
  BY <1>3, ScanInv, HoldInv DEF RouterChoice
<1>4. CASE Crash \/ MakerFills \/ OrphanFills \/ MarketFills
  BY <1>4, EndInv, VenuesInv
<1> QED BY <1>1, <1>2, <1>3, <1>4 DEF LiveNext

\* The router and the venues keep the invariant, whatever fails, fills or dies.
THEOREM LiveInvariance == LiveSpec => []LiveInv
<1>1. LiveInit => LiveInv
  <2> SUFFICES ASSUME LiveInit PROVE LiveInv
    OBVIOUS
  <2>1. LiveTypeOK
    BY FreshVariables, LiveAssumption
    DEF LiveInit, LiveTypeOK, Flat, Record, Statuses, Locations
  <2>2. OpenOrderCanFill /\ RecordFollows /\ EntryFollows
    BY DEF LiveInit, OpenOrderCanFill, RecordFollows, EntryFollows, Hedging, Watching, Record,
           EntryLocations
  <2>3. LegsFollow /\ StraysAccount
    BY DEF LiveInit, LegsFollow, StraysAccount, Flattening, Flat, Leg, Legs, Record
  <2> QED BY <2>1, <2>2, <2>3 DEF LiveInv
<1>2. LiveInv /\ [LiveNext]_liveVars => LiveInv'
  BY LiveNextInv
<1> QED BY <1>1, <1>2, PTL DEF LiveSpec

\* Every variable has its type: an order never fills beyond its amount, nor is
\* an attempt made beyond the last, nor more hedged than was seen.
THEOREM LiveTypeCorrect == LiveSpec => []LiveTypeOK
<1>1. LiveInv => LiveTypeOK
  BY DEF LiveInv
<1> QED BY <1>1, LiveInvariance, PTL

\* Nothing but strays is left on the venues once the record is closed, even when
\* market orders linger, cancellations are swallowed and the router dies at any
\* await (flatten_symbols reads each leg again after every order).
THEOREM ClosedLeavesStrays == LiveSpec => []OnlyStraysRemain
<1>1. LiveInv => OnlyStraysRemain
  BY DEF LiveInv, StraysAccount, OnlyStraysRemain, Idle
<1> QED BY <1>1, LiveInvariance, PTL

-----------------------------------------------------------------------------
\* An order that was cancelled, or seen to be done, is not open again: only the
\* next entry places one, and then the record says opening.
LEMMA OrderIsGoneKept ==
    ASSUME ~ MaySwallow, LiveInv, OrderIsGone, [LiveNext]_liveVars
    PROVE  OrderIsGone'
<1> USE DEF LiveInv, RecordFollows, EntryFollows, venues, EntryOnly, Goto,
            Hedging, Watching, EntryLocations, OrderIsGone
<1>1. CASE UNCHANGED liveVars
  BY <1>1 DEF liveVars
<1>2. CASE Start \/ Adopt \/ RefuseToAdopt
  BY <1>2, LiveAssumption DEF Start, Adopt, RefuseToAdopt, LiveTypeOK, SaveAndFlatten,
      budgets, Matches, Fault, Legs, Statuses, Locations, EntryVariables, NoEntry,
      Flattening
<1>3. CASE AssertCleanMarket \/ RefuseEntry \/ Stop \/ SaveOpening \/ PrepareRaises
  BY <1>3, LiveAssumption DEF AssertCleanMarket, RefuseEntry, Stop, SaveOpening,
      PrepareRaises, LiveTypeOK, Active, Flat, budgets, Fault, Exit, Record, Legs,
      Statuses, Locations, EntryVariables, NoEntry, Flattening
<1>4. CASE PlaceMaker \/ PlaceMakerRaises
  BY <1>4, LiveAssumption DEF PlaceMaker, PlaceMakerRaises, LiveTypeOK, PutOrder,
      NoEntry, budgets, Fault, EntryFails, Legs, Statuses, Locations, EntryVariables,
      SaveAndFlatten, Record, Flattening
<1>5. CASE HedgeIncrement
  BY <1>5, LiveAssumption DEF HedgeIncrement, LiveTypeOK, BeginHedge, budgets, Legs,
      Statuses, Locations, EntryVariables
<1>6. CASE Poll
  BY <1>6, LiveAssumption DEF Poll, LiveTypeOK, FetchMaker, budgets, Legs, Statuses,
      Locations, EntryVariables
<1>7. CASE StopWatching \/ CancelMaker
  BY <1>7, LiveAssumption DEF StopWatching, CancelMaker, LiveTypeOK, budgets, Legs,
      Statuses, Locations, EntryVariables
<1>8. CASE CancelSwallowed \/ FinalFetch \/ MakerCallRaises
  BY <1>8, LiveAssumption DEF CancelSwallowed, FinalFetch, MakerCallRaises, LiveTypeOK,
      Fault, FetchMaker, budgets, EntryFails, Legs, Statuses, Locations, EntryVariables,
      SaveAndFlatten, Record, NoEntry, Flattening
<1>9. CASE FinalIncrement
  BY <1>9, LiveAssumption DEF FinalIncrement, LiveTypeOK, BeginHedge, budgets, Legs,
      Statuses, Locations, EntryVariables
<1>10. CASE FetchBefore \/ HedgeOrder \/ HedgeCallRaises
  BY <1>10, LiveAssumption DEF FetchBefore, HedgeOrder, HedgeCallRaises, LiveTypeOK,
      budgets, Fault, EntryFails, Legs, Statuses, Locations, EntryVariables,
      SaveAndFlatten, Record, NoEntry, Flattening
<1>11. CASE HedgeAgain
  BY <1>11, LiveAssumption DEF HedgeAgain, LiveTypeOK, budgets, Legs, Statuses,
      Locations, EntryVariables
<1>12. CASE HedgeFails
  BY <1>12, LiveAssumption DEF HedgeFails, LiveTypeOK, EntryFails, budgets, Legs,
      Statuses, Locations, EntryVariables, SaveAndFlatten, Record, NoEntry, Flattening
<1>13. CASE HedgeConfirmed
  BY <1>13, LiveAssumption DEF HedgeConfirmed, LiveTypeOK, budgets, Legs, Statuses,
      Locations, EntryVariables
<1>14. CASE SaveOpen \/ FillBelowMinimum \/ Opened \/ ReconcileFails
  BY <1>14, LiveAssumption DEF SaveOpen, FillBelowMinimum, Opened, ReconcileFails,
      LiveTypeOK, Record, budgets, EntryFails, Matches, NoEntry, Fault, Legs, Statuses,
      Locations, EntryVariables, SaveAndFlatten, Flattening
<1>15. CASE ClosePosition \/ Mismatch \/ Shutdown
  BY <1>15, LiveAssumption DEF ClosePosition, Mismatch, Shutdown, LiveTypeOK, Matches,
      SaveAndFlatten, Closing, budgets, Fault, Legs, Statuses, Locations,
      EntryVariables, NoEntry, Flattening, Record
<1>16. CASE MakerFills \/ OrphanFills \/ MarketFills
  BY <1>16, LiveAssumption DEF MakerFills, OrphanFills, MarketFills, LiveTypeOK,
      budgets, Legs, Statuses, Locations, EntryVariables
<1>17. CASE Flattened \/ FlattenFailed \/ Crash
  BY <1>17, LiveAssumption DEF Flattened, FlattenFailed, Crash, LiveTypeOK, Legs, Leg,
      NoEntry, Flattening, Exit, budgets, SaveAndFlatten, Closing, Statuses, Locations,
      EntryVariables, Record
<1>18. CASE \E leg \in Legs : FlattenFetch(leg) \/ FlattenOrder(leg) \/ FlattenRaises(leg)
  BY <1>18 DEF FlattenFetch, FlattenOrder, FlattenRaises
<1> QED BY <1>1, <1>2, <1>3, <1>4, <1>5, <1>6, <1>7, <1>8, <1>9, <1>10, <1>11, <1>12,
    <1>13, <1>14, <1>15, <1>16, <1>17, <1>18
    DEF LiveNext, RouterStep, RouterChoice, EntryStep, FlattenStep

\* The hedge leg moves by the orders of the hedge only, and each confirmation
\* takes what they filled.
LEMMA HedgeIsCountedKept ==
    ASSUME ~ MayLinger, LiveInv, HedgeIsCounted, [LiveNext]_liveVars
    PROVE  HedgeIsCounted'
<1> USE DEF LiveInv, RecordFollows, EntryFollows, venues, EntryOnly, Goto,
            Hedging, Watching, EntryLocations, HedgeIsCounted
<1>1. CASE UNCHANGED liveVars
  BY <1>1 DEF liveVars
<1>2. CASE Start \/ Adopt \/ RefuseToAdopt
  BY <1>2, LiveAssumption DEF Start, Adopt, RefuseToAdopt, LiveTypeOK, SaveAndFlatten,
      budgets, Matches, Fault, Legs, Statuses, Locations, EntryVariables, NoEntry,
      Flattening
<1>3. CASE AssertCleanMarket \/ RefuseEntry \/ Stop \/ SaveOpening \/ PrepareRaises
  BY <1>3, LiveAssumption DEF AssertCleanMarket, RefuseEntry, Stop, SaveOpening,
      PrepareRaises, LiveTypeOK, Active, Flat, budgets, Fault, Exit, Record, Legs,
      Statuses, Locations, EntryVariables, NoEntry, Flattening
<1>4. CASE PlaceMaker \/ PlaceMakerRaises
  BY <1>4, LiveAssumption DEF PlaceMaker, PlaceMakerRaises, LiveTypeOK, PutOrder,
      NoEntry, budgets, Fault, EntryFails, Legs, Statuses, Locations, EntryVariables,
      SaveAndFlatten, Record, Flattening
<1>5. CASE HedgeIncrement
  BY <1>5, LiveAssumption DEF HedgeIncrement, LiveTypeOK, BeginHedge, budgets, Legs,
      Statuses, Locations, EntryVariables
<1>6. CASE Poll
  BY <1>6, LiveAssumption DEF Poll, LiveTypeOK, FetchMaker, budgets, Legs, Statuses,
      Locations, EntryVariables
<1>7. CASE StopWatching \/ CancelMaker
  BY <1>7, LiveAssumption DEF StopWatching, CancelMaker, LiveTypeOK, budgets, Legs,
      Statuses, Locations, EntryVariables
<1>8. CASE CancelSwallowed \/ FinalFetch \/ MakerCallRaises
  BY <1>8, LiveAssumption DEF CancelSwallowed, FinalFetch, MakerCallRaises, LiveTypeOK,
      Fault, FetchMaker, budgets, EntryFails, Legs, Statuses, Locations, EntryVariables,
      SaveAndFlatten, Record, NoEntry, Flattening
<1>9. CASE FinalIncrement
  <2>1. CASE BeginHedge("check")
    BY <1>9, <2>1, BeginHedgeTyped DEF FinalIncrement, BeginHedge, LiveTypeOK, EntryVariables
  <2>2. CASE entry.seen = entry.hedged /\ pc' = "check" /\ UNCHANGED entry
    BY <1>9, <2>2 DEF FinalIncrement
  <2> QED BY <1>9, <2>1, <2>2 DEF FinalIncrement
<1>10. CASE FetchBefore \/ HedgeOrder \/ HedgeCallRaises
  BY <1>10, LiveAssumption DEF FetchBefore, HedgeOrder, HedgeCallRaises, LiveTypeOK,
      budgets, Remaining, Fault, EntryFails, Legs, Statuses, Locations, EntryVariables,
      SaveAndFlatten, Record, NoEntry, Flattening
<1>11. CASE HedgeAgain
  BY <1>11, LiveAssumption DEF HedgeAgain, LiveTypeOK, Confirmed, budgets, Legs,
      Statuses, Locations, EntryVariables, Remaining
<1>12. CASE HedgeFails
  BY <1>12, LiveAssumption DEF HedgeFails, LiveTypeOK, Confirmed, EntryFails, budgets,
      Legs, Statuses, Locations, EntryVariables, Remaining, SaveAndFlatten, Record,
      NoEntry, Flattening
<1>13. CASE HedgeConfirmed
  <2>1. /\ position["hedge"] - entry.before \in Nat
        /\ position["hedge"] - entry.before <= Remaining
        /\ entry.filled + Confirmed = entry.required
    BY <1>13, HedgeFacts DEF HedgeConfirmed, Remaining
  <2>2. Confirmed = position["hedge"] - entry.before
    BY <1>13, HedgeFacts, <2>1 DEF HedgeConfirmed, Confirmed
  <2>3. position["hedge"] = entry.hedged + entry.required
    BY <1>13, HedgeFacts, <2>1, <2>2 DEF HedgeConfirmed
  <2>4. entry'.hedged = entry.hedged + entry.required
    BY <1>13 DEF HedgeConfirmed, LiveTypeOK, EntryVariables
  <2> QED BY <1>13, <2>3, <2>4 DEF HedgeConfirmed, LiveTypeOK, EntryVariables
<1>14. CASE SaveOpen \/ FillBelowMinimum \/ Opened \/ ReconcileFails
  BY <1>14, LiveAssumption DEF SaveOpen, FillBelowMinimum, Opened, ReconcileFails,
      LiveTypeOK, Record, budgets, EntryFails, Matches, NoEntry, Fault, Legs, Statuses,
      Locations, EntryVariables, SaveAndFlatten, Flattening
<1>15. CASE ClosePosition \/ Mismatch \/ Shutdown
  BY <1>15, LiveAssumption DEF ClosePosition, Mismatch, Shutdown, LiveTypeOK, Matches,
      SaveAndFlatten, Closing, budgets, Fault, Legs, Statuses, Locations,
      EntryVariables, NoEntry, Flattening, Record
<1>16. CASE MakerFills \/ OrphanFills \/ MarketFills
  BY <1>16, LiveAssumption DEF MakerFills, OrphanFills, MarketFills, LiveTypeOK,
      budgets, Legs, Statuses, Locations, EntryVariables
<1>17. CASE Flattened \/ FlattenFailed \/ Crash
  BY <1>17, LiveAssumption DEF Flattened, FlattenFailed, Crash, LiveTypeOK, Legs, Leg,
      NoEntry, Flattening, Exit, budgets, SaveAndFlatten, Closing, Statuses, Locations,
      EntryVariables, Record
<1>18. CASE \E leg \in Legs : FlattenFetch(leg) \/ FlattenOrder(leg) \/ FlattenRaises(leg)
  BY <1>18 DEF FlattenFetch, FlattenOrder, FlattenRaises
<1> QED BY <1>1, <1>2, <1>3, <1>4, <1>5, <1>6, <1>7, <1>8, <1>9, <1>10, <1>11, <1>12,
    <1>13, <1>14, <1>15, <1>16, <1>17, <1>18
    DEF LiveNext, RouterStep, RouterChoice, EntryStep, FlattenStep

\* A position is only held with its entry settled, whatever failed on the way,
\* as long as no failed cancellation passes for a success: of the order nothing
\* can fill any more, and the record says how much was kept. The run live_recovery
\* has the swallowed cancellations.
THEOREM HeldMeansSettled ==
    ASSUME ~ MaySwallow
    PROVE  LiveSpec => []HoldingIsSettled
<1>1. LiveInit => OrderIsGone
  BY DEF LiveInit, OrderIsGone, Hedging, Watching, Record, EntryLocations
<1>2. LiveInv /\ OrderIsGone /\ [LiveNext]_liveVars => OrderIsGone'
  BY OrderIsGoneKept
<1>3. LiveInv /\ OrderIsGone => HoldingIsSettled
  BY DEF LiveInv, RecordFollows, OrderIsGone, HoldingIsSettled
<1> QED BY <1>1, <1>2, <1>3, LiveInvariance, PTL DEF LiveSpec

\* No retry of the hedge, no call that failed after its effect and no order that
\* filled in part makes the hedge larger than what it hedges, as long as a market
\* order does not stay open past its deadline: _hedge_exact counts by the
\* position, not by what the order answered.
THEOREM HedgeStaysCovered ==
    ASSUME ~ MayLinger
    PROVE  LiveSpec => []NeverOverHedged
<1>1. LiveInit => HedgeIsCounted
  BY DEF LiveInit, HedgeIsCounted, Hedging, Watching, EntryLocations
<1>2. LiveInv /\ HedgeIsCounted /\ [LiveNext]_liveVars => HedgeIsCounted'
  BY HedgeIsCountedKept
<1>3. LiveInv /\ HedgeIsCounted => NeverOverHedged
  <2> SUFFICES ASSUME LiveInv, HedgeIsCounted, pc \in EntryLocations
               PROVE  position["hedge"] <= position["maker"]
    BY DEF NeverOverHedged
  <2>1. /\ position["maker"] \in Nat /\ position["hedge"] \in Nat /\ maker.filled \in Nat
        /\ entry.seen \in Nat /\ entry.hedged \in Nat /\ entry.hedged <= entry.seen
    BY LiveAssumption DEF LiveInv, LiveTypeOK, EntryVariables, Legs
  <2>2. CASE pc = "place"
    BY <2>1, <2>2 DEF HedgeIsCounted
  <2>3. CASE pc # "place"
    <3>1. Watching /\ entry.seen <= maker.filled /\ maker.filled <= position["maker"]
      BY <2>3 DEF LiveInv, EntryFollows, Watching
    <3>2. position["hedge"] <= entry.seen
      BY <2>1, <3>1, HedgeFacts DEF HedgeIsCounted, Hedging
    <3> QED BY <2>1, <3>1, <3>2
  <2> QED BY <2>2, <2>3
<1> QED BY <1>1, <1>2, <1>3, LiveInvariance, PTL DEF LiveSpec

=============================================================================
