---------------------------- MODULE LiveExecution ----------------------------
(***************************************************************************)
(* The live mode of the funding router: LiveExecutor (execution.py) driven *)
(* by run_router (service.py), the venues it trades on, and the record of  *)
(* its one position in SQLite.                                             *)
(*                                                                         *)
(* A pair position is entered with a post-only order on the maker venue;   *)
(* every fill of it is hedged with a market order on the hedge venue.  The *)
(* base amount held on a venue is counted in the direction of the entry,   *)
(* in units larger than every tolerance of the code.  Each await is a step *)
(* and the venues go on in between; a call that raises may have had its    *)
(* effect all the same.  A partial fill of a market order counts as a      *)
(* fault, and so does a call that raises.                                  *)
(***************************************************************************)
EXTENDS Naturals

CONSTANTS
    Base,           \* base amount of a candidate
    MinFill,        \* least maker fill that is kept: Base * min_fill_fraction
    MaxRetries,     \* max_retries
    MaxFaults,      \* bound of the calls that fail
    MaxCrashes,     \* bound of the deaths of the router
    MayLinger,      \* whether a market order may stay open past its deadline
    MaySwallow      \* whether a failed cancellation may pass for a success

ASSUME LiveAssumption ==
    /\ Base \in Nat /\ MinFill \in 1..Base
    /\ MaxRetries \in Nat \ {0}
    /\ MaxFaults \in Nat /\ MaxCrashes \in Nat
    /\ MayLinger \in BOOLEAN /\ MaySwallow \in BOOLEAN

VARIABLES
    position,       \* base amount held on each venue
    maker,          \* the last post-only order: still open? filled how far?
    orphans,        \* what is left of earlier post-only orders still open
    stray,          \* history: what filled of orders that nobody watched any more
    market,         \* what is left of market orders still open
    stored,         \* the record of the position in SQLite
    pc,             \* where the router is
    entry,          \* local variables of open_candidate and _hedge_exact
    flatten,        \* local variables of flatten_symbols
    faults, crashes \* how many there were

venues == <<position, maker, orphans, stray, market>>
budgets == <<faults, crashes>>
liveVars == <<venues, stored, pc, entry, flatten, budgets>>

Legs == {"maker", "hedge"}

Flat == [leg \in Legs |-> 0]

Record(status, base) == [status |-> status, base |-> base]

\* seen and done: the maker order as last fetched; hedged: what is hedged of it;
\* required, filled, before, attempt, refused: the hedge under way.
NoEntry ==
    [ seen |-> 0, done |-> FALSE, hedged |-> 0, required |-> 0, filled |-> 0,
      before |-> 0, attempt |-> 1, refused |-> FALSE, resume |-> "watch" ]

\* Slip: one leg is forgotten.
Flattening_MakerOnly(after) ==
    [ after |-> after,
      legs  |-> [leg \in Legs |-> [ at |-> IF leg = "maker" THEN "fetch" ELSE "flat",
                                    attempt |-> 0, want |-> 0 ]] ]

\* flatten_symbols runs both legs side by side and waits for both.
Flattening(after) ==
    [ after |-> after,
      legs  |-> [leg \in Legs |-> [at |-> "fetch", attempt |-> 0, want |-> 0]] ]

LiveInit ==
    /\ position = Flat
    /\ maker = [open |-> FALSE, filled |-> 0]
    /\ orphans = 0 /\ stray = 0
    /\ market = 0
    /\ stored = Record("closed", 0)
    /\ pc = "down"
    /\ entry = NoEntry
    /\ flatten = Flattening("none")
    /\ faults = 0 /\ crashes = 0

\* A call fails.
Fault == faults < MaxFaults /\ faults' = faults + 1 /\ UNCHANGED crashes

Goto(location) == pc' = location

\* A step that concerns the entry only.
EntryOnly == UNCHANGED <<stored, flatten>>

\* An exception leaves run_router: the process ends, the service restarts it.
Exit == pc' = "down" /\ entry' = NoEntry /\ flatten' = Flattening("none")

\* The record is saved and both legs are closed.
SaveAndFlatten(record, after) ==
    /\ stored' = record
    /\ pc' = "flatten"
    /\ entry' = NoEntry
    /\ flatten' = Flattening(after)

\* An exception in open_candidate.
EntryFails == SaveAndFlatten(Record("error", 0), "entry")

\* reconcile_position
Matches == \A leg \in Legs : position[leg] = stored.base

Active == stored.status # "closed"

(***************************************************************************)
(* Start-up: _recover_live_position.                                       *)
(***************************************************************************)
\* Slip: a position that was being closed is taken for closed.
Start_ForgetsClosing ==
    /\ pc = "down"
    /\ IF stored.status \in {"opening", "error"}
       THEN SaveAndFlatten(stored, "startup")
       ELSE /\ Goto(IF stored.status = "open" THEN "adopt" ELSE "scan")
            /\ UNCHANGED <<stored, entry, flatten>>
    /\ UNCHANGED <<venues, budgets>>

Start ==
    /\ pc = "down"
    /\ IF stored.status \in {"opening", "closing", "error"}
       THEN SaveAndFlatten(stored, "startup")
       ELSE /\ Goto(IF stored.status = "open" THEN "adopt" ELSE "scan")
            /\ UNCHANGED <<stored, entry, flatten>>
    /\ UNCHANGED <<venues, budgets>>

Adopt ==
    /\ pc = "adopt"
    /\ Matches
    /\ Goto("holding")
    /\ UNCHANGED <<venues, stored, entry, flatten, budgets>>

RefuseToAdopt ==
    /\ pc = "adopt"
    /\ \/ ~ Matches /\ UNCHANGED budgets
       \/ Fault
    /\ SaveAndFlatten(stored, "startup")
    /\ UNCHANGED venues

(***************************************************************************)
(* open_candidate: the market is clean, the record says OPENING, then the  *)
(* post-only order is placed and watched.                                  *)
(***************************************************************************)
AssertCleanMarket ==
    /\ pc = "scan"
    /\ ~ Active
    /\ position = Flat
    /\ Goto("prepare")
    /\ UNCHANGED <<venues, stored, entry, flatten, budgets>>

RefuseEntry ==
    /\ pc = "scan"
    /\ \/ (Active \/ position # Flat) /\ UNCHANGED budgets
       \/ Fault
    /\ Exit
    /\ UNCHANGED <<venues, stored>>

SaveOpening ==
    /\ pc = "prepare"
    /\ stored' = Record("opening", 0)
    /\ Goto("place")
    /\ UNCHANGED <<venues, entry, flatten, budgets>>

PrepareRaises ==
    /\ pc = "prepare"
    /\ Fault
    /\ Exit
    /\ UNCHANGED <<venues, stored>>

\* A new order on the book; what is open of the last one is out of sight. The
\* venue cancels an order that would not be passive.
PutOrder(accepted) ==
    /\ maker' = [open |-> accepted, filled |-> 0]
    /\ orphans' = orphans + (IF maker.open THEN Base - maker.filled ELSE 0)
    /\ UNCHANGED <<position, stray, market>>

PlaceMaker ==
    /\ pc = "place"
    /\ \E accepted \in BOOLEAN :
        /\ PutOrder(accepted)
        /\ entry' = [NoEntry EXCEPT !.done = ~ accepted]
    /\ Goto("watch")
    /\ EntryOnly /\ UNCHANGED budgets

PlaceMakerRaises ==
    /\ pc = "place"
    /\ Fault
    /\ \/ PutOrder(TRUE)
       \/ UNCHANGED venues
    /\ EntryFails

\* Every fill seen is hedged before anything else.
BeginHedge(resume) ==
    /\ entry.seen > entry.hedged
    /\ entry' = [entry EXCEPT !.required = entry.seen - entry.hedged, !.filled = 0,
                              !.attempt = 1, !.resume = resume]
    /\ Goto("hedge")

HedgeIncrement ==
    /\ pc = "watch"
    /\ BeginHedge("watch")
    /\ EntryOnly /\ UNCHANGED <<venues, budgets>>

FetchMaker == [entry EXCEPT !.seen = maker.filled, !.done = ~ maker.open]

Poll ==
    /\ pc = "watch"
    /\ entry.seen = entry.hedged
    /\ ~ entry.done /\ entry.seen < Base
    /\ entry' = FetchMaker
    /\ EntryOnly /\ UNCHANGED <<venues, pc, budgets>>

\* Done, filled, or out of time.
StopWatching ==
    /\ pc = "watch"
    /\ entry.seen = entry.hedged
    /\ Goto(IF entry.done THEN "increment" ELSE "cancel")
    /\ EntryOnly /\ UNCHANGED <<venues, entry, budgets>>

\* Slip: the remainder is not cancelled.
CancelMaker_NotSent ==
    /\ pc = "cancel"
    /\ Goto("final")
    /\ EntryOnly /\ UNCHANGED <<venues, entry, budgets>>

\* An order that is gone by now is none to be cancelled: no error.
CancelMaker ==
    /\ pc = "cancel"
    /\ maker' = [maker EXCEPT !.open = FALSE]
    /\ Goto("final")
    /\ EntryOnly /\ UNCHANGED <<position, orphans, stray, market, entry, budgets>>

\* An error that says "closed" or "cancel" passes for an order that is gone,
\* whatever it was: of a closed connection as well.
CancelSwallowed ==
    /\ pc = "cancel"
    /\ MaySwallow /\ Fault
    /\ Goto("final")
    /\ EntryOnly /\ UNCHANGED <<venues, entry>>

FinalFetch ==
    /\ pc = "final"
    /\ entry' = FetchMaker
    /\ Goto("increment")
    /\ EntryOnly /\ UNCHANGED <<venues, budgets>>

FinalIncrement ==
    /\ pc = "increment"
    /\ \/ BeginHedge("check")
       \/ entry.seen = entry.hedged /\ Goto("check") /\ UNCHANGED entry
    /\ EntryOnly /\ UNCHANGED <<venues, budgets>>

\* A fetch or the cancellation raises.
MakerCallRaises ==
    /\ \/ pc = "watch" /\ entry.seen = entry.hedged /\ ~ entry.done /\ entry.seen < Base
       \/ pc \in {"cancel", "final"}
    /\ Fault
    /\ maker' \in { maker } \cup
                  (IF pc = "cancel" THEN { [maker EXCEPT !.open = FALSE] } ELSE {})
    /\ EntryFails
    /\ UNCHANGED <<position, orphans, stray, market>>

(***************************************************************************)
(* _hedge_exact: position, market order, position again.                   *)
(***************************************************************************)
Remaining == entry.required - entry.filled

FetchBefore ==
    /\ pc = "hedge"
    /\ entry' = [entry EXCEPT !.before = position["hedge"]]
    /\ Goto("order")
    /\ EntryOnly /\ UNCHANGED <<venues, budgets>>

\* The order fills; part of it may be refused or stay open.
HedgeOrder ==
    /\ pc = "order"
    /\ \E fill \in 0..Remaining :
        /\ IF fill = Remaining THEN UNCHANGED budgets ELSE Fault
        /\ position' = [position EXCEPT !["hedge"] = @ + fill]
        /\ \/ /\ market' = market
              /\ entry' \in { [entry EXCEPT !.refused = r] : r \in BOOLEAN }
           \/ /\ MayLinger /\ fill < Remaining
              /\ market' = market + Remaining - fill
              /\ entry' = [entry EXCEPT !.refused = FALSE]
    /\ Goto("confirm")
    /\ EntryOnly /\ UNCHANGED <<maker, orphans, stray>>

\* Slip: a market order that raised is sent again.
HedgeCallRaises_Retries ==
    /\ pc \in {"hedge", "order", "confirm"}
    /\ Fault
    /\ \E fill \in 0..(IF pc = "order" THEN Remaining ELSE 0) :
           position' = [position EXCEPT !["hedge"] = @ + fill]
    /\ Goto("hedge")
    /\ UNCHANGED <<maker, orphans, stray, market, stored, entry, flatten>>

HedgeCallRaises ==
    /\ pc \in {"hedge", "order", "confirm"}
    /\ Fault
    /\ \E fill \in 0..(IF pc = "order" THEN Remaining ELSE 0) :
           position' = [position EXCEPT !["hedge"] = @ + fill]
    /\ EntryFails
    /\ UNCHANGED <<maker, orphans, stray, market>>

\* What the position confirms of the order, in time or at the deadline.
Confirmed ==
    LET grown == position["hedge"] - entry.before
    IN  IF grown < Remaining THEN grown ELSE Remaining

HedgeConfirmed ==
    /\ pc = "confirm"
    /\ Confirmed > 0 \/ entry.refused
    /\ entry.filled + Confirmed = entry.required
    /\ entry' = [entry EXCEPT !.hedged = @ + entry.required]
    /\ Goto(entry.resume)
    /\ EntryOnly /\ UNCHANGED <<venues, budgets>>

HedgeAgain ==
    /\ pc = "confirm"
    /\ Confirmed > 0 \/ entry.refused
    /\ entry.filled + Confirmed < entry.required
    /\ entry.attempt < MaxRetries
    /\ entry' = [entry EXCEPT !.filled = @ + Confirmed, !.attempt = @ + 1]
    /\ Goto("hedge")
    /\ EntryOnly /\ UNCHANGED <<venues, budgets>>

\* An ambiguous fill, or the last attempt.
HedgeFails ==
    /\ pc = "confirm"
    /\ \/ Confirmed = 0 /\ ~ entry.refused
       \/ entry.filled + Confirmed < entry.required /\ entry.attempt = MaxRetries
    /\ EntryFails
    /\ UNCHANGED <<venues, budgets>>

\* _hedge_exact hedges what is required or raises, so that the legs agree.
SaveOpen ==
    /\ pc = "check"
    /\ entry.hedged >= MinFill
    /\ stored' = Record("open", entry.hedged)
    /\ Goto("reconcile")
    /\ UNCHANGED <<venues, entry, flatten, budgets>>

FillBelowMinimum ==
    /\ pc = "check"
    /\ entry.hedged < MinFill
    /\ EntryFails
    /\ UNCHANGED <<venues, budgets>>

Opened ==
    /\ pc = "reconcile"
    /\ Matches
    /\ Goto("holding")
    /\ entry' = NoEntry
    /\ EntryOnly /\ UNCHANGED <<venues, budgets>>

ReconcileFails ==
    /\ pc = "reconcile"
    /\ \/ ~ Matches /\ UNCHANGED budgets
       \/ Fault
    /\ EntryFails
    /\ UNCHANGED venues

(***************************************************************************)
(* The open position: reconciled in every cycle, closed for a reason, or   *)
(* because the process ends.                                               *)
(***************************************************************************)
Closing == Record("closing", stored.base)

ClosePosition ==
    /\ pc = "holding"
    /\ Matches
    /\ SaveAndFlatten(Closing, "close")
    /\ UNCHANGED <<venues, budgets>>

\* close_on_shutdown, after an exception or a signal.
Mismatch ==
    /\ pc = "holding"
    /\ ~ Matches
    /\ SaveAndFlatten(Closing, "shutdown")
    /\ UNCHANGED <<venues, budgets>>

Shutdown ==
    /\ pc = "holding"
    /\ UNCHANGED budgets \/ Fault
    /\ SaveAndFlatten(Closing, "shutdown")
    /\ UNCHANGED venues

Stop ==
    /\ pc = "scan"
    /\ Exit
    /\ UNCHANGED <<venues, stored, budgets>>

(***************************************************************************)
(* _flatten_one for each leg: fetch, reduce-only order, and again.         *)
(***************************************************************************)
Leg(leg) == flatten.legs[leg]

SetLeg(leg, at, attempt, want) ==
    flatten' = [flatten EXCEPT !.legs[leg] =
                    [at |-> at, attempt |-> attempt, want |-> want]]

\* Slip: the last order is not checked upon.
FlattenFetch_TrustsLast(leg) ==
    /\ pc = "flatten"
    /\ Leg(leg).at = "fetch"
    /\ IF position[leg] = 0 \/ Leg(leg).attempt = MaxRetries
       THEN SetLeg(leg, "flat", 0, 0)
       ELSE SetLeg(leg, "order", Leg(leg).attempt, position[leg])
    /\ UNCHANGED <<venues, stored, pc, entry, budgets>>

\* Slip: one attempt too many.
FlattenFetch_OffByOne(leg) ==
    /\ pc = "flatten"
    /\ Leg(leg).at = "fetch"
    /\ IF position[leg] = 0 THEN SetLeg(leg, "flat", 0, 0)
       ELSE IF Leg(leg).attempt > MaxRetries THEN SetLeg(leg, "failed", 0, 0)
       ELSE SetLeg(leg, "order", Leg(leg).attempt, position[leg])
    /\ UNCHANGED <<venues, stored, pc, entry, budgets>>

FlattenFetch(leg) ==
    /\ pc = "flatten"
    /\ Leg(leg).at = "fetch"
    /\ IF position[leg] = 0 THEN SetLeg(leg, "flat", 0, 0)
       ELSE IF Leg(leg).attempt = MaxRetries THEN SetLeg(leg, "failed", 0, 0)
       ELSE SetLeg(leg, "order", Leg(leg).attempt, position[leg])
    /\ UNCHANGED <<venues, stored, pc, entry, budgets>>

\* A reduce-only order never turns a position around.
Reducible(leg) == IF Leg(leg).want < position[leg] THEN Leg(leg).want ELSE position[leg]

FlattenOrder(leg) ==
    /\ pc = "flatten"
    /\ Leg(leg).at = "order"
    /\ \E fill \in 0..Reducible(leg) :
        /\ IF fill = Reducible(leg) THEN UNCHANGED budgets ELSE Fault
        /\ position' = [position EXCEPT ![leg] = @ - fill]
    /\ SetLeg(leg, "fetch", Leg(leg).attempt + 1, 0)
    /\ UNCHANGED <<maker, orphans, stray, market, stored, pc, entry>>

FlattenRaises(leg) ==
    /\ pc = "flatten"
    /\ Leg(leg).at \in {"fetch", "order"}
    /\ Fault
    /\ \E fill \in 0..(IF Leg(leg).at = "order" THEN Reducible(leg) ELSE 0) :
           position' = [position EXCEPT ![leg] = @ - fill]
    /\ SetLeg(leg, "failed", 0, 0)
    /\ UNCHANGED <<maker, orphans, stray, market, stored, pc, entry>>

\* Both legs are flat: the record is closed. An entry that failed and a shutdown
\* end the process.
Flattened ==
    /\ pc = "flatten"
    /\ \A leg \in Legs : Leg(leg).at = "flat"
    /\ stored' = [stored EXCEPT !.status = "closed"]
    /\ IF flatten.after \in {"close", "startup"}
       THEN Goto("scan") /\ entry' = NoEntry /\ flatten' = Flattening("none")
       ELSE Exit
    /\ UNCHANGED <<venues, budgets>>

\* A close that failed is tried once more on the way out.
FlattenFailed ==
    /\ pc = "flatten"
    /\ \A leg \in Legs : Leg(leg).at \in {"flat", "failed"}
    /\ \E leg \in Legs : Leg(leg).at = "failed"
    /\ IF flatten.after = "close"
       THEN SaveAndFlatten(Closing, "shutdown")
       ELSE stored' = [stored EXCEPT !.status = "error"] /\ Exit
    /\ UNCHANGED <<venues, budgets>>

(***************************************************************************)
(* The venues, and the death of the router.                                *)
(***************************************************************************)
\* The locations of open_candidate with an order to place, watch and hedge.
EntryLocations ==
    { "place", "watch", "cancel", "final", "increment", "hedge", "order", "confirm",
      "check", "reconcile" }

\* While the order of the entry under way is out.
Watching == pc \in EntryLocations \ {"place"}

MakerFills ==
    /\ maker.open
    /\ maker' = [open |-> maker.filled + 1 < Base, filled |-> maker.filled + 1]
    /\ position' = [position EXCEPT !["maker"] = @ + 1]
    /\ stray' = IF Watching THEN stray ELSE stray + 1
    /\ UNCHANGED <<orphans, market, stored, pc, entry, flatten, budgets>>

OrphanFills ==
    /\ orphans > 0
    /\ orphans' = orphans - 1
    /\ position' = [position EXCEPT !["maker"] = @ + 1]
    /\ stray' = stray + 1
    /\ UNCHANGED <<maker, market, stored, pc, entry, flatten, budgets>>

MarketFills ==
    /\ market > 0
    /\ market' = market - 1
    /\ position' = [position EXCEPT !["hedge"] = @ + 1]
    /\ stray' = IF Watching THEN stray ELSE stray + 1
    /\ UNCHANGED <<maker, orphans, stored, pc, entry, flatten, budgets>>

Crash ==
    /\ pc # "down"
    /\ crashes < MaxCrashes
    /\ crashes' = crashes + 1
    /\ Exit
    /\ UNCHANGED <<venues, stored, faults>>

EntryStep ==
    \/ SaveOpening \/ PrepareRaises \/ PlaceMaker \/ PlaceMakerRaises
    \/ HedgeIncrement \/ Poll \/ StopWatching \/ CancelMaker \/ CancelSwallowed
    \/ FinalFetch \/ FinalIncrement \/ MakerCallRaises
    \/ FetchBefore \/ HedgeOrder \/ HedgeCallRaises
    \/ HedgeConfirmed \/ HedgeAgain \/ HedgeFails
    \/ SaveOpen \/ FillBelowMinimum \/ Opened \/ ReconcileFails

FlattenStep ==
    \/ \E leg \in Legs : FlattenFetch(leg) \/ FlattenOrder(leg) \/ FlattenRaises(leg)
    \/ Flattened \/ FlattenFailed

\* What the router does of itself, and what it does when the market or an
\* operator asks for it.
RouterStep == Start \/ Adopt \/ RefuseToAdopt \/ EntryStep \/ Mismatch \/ FlattenStep

RouterChoice == AssertCleanMarket \/ RefuseEntry \/ ClosePosition \/ Shutdown \/ Stop

LiveNext ==
    \/ RouterStep \/ RouterChoice \/ Crash
    \/ MakerFills \/ OrphanFills \/ MarketFills

LiveSpec == LiveInit /\ [][LiveNext]_liveVars

\* The event loop goes on and the service manager restarts the router; fills,
\* candidates, signals and crashes are owed by nobody.
LiveFairSpec == LiveSpec /\ WF_liveVars(RouterStep)

-----------------------------------------------------------------------------
\* Every variable holds what its call, order or row can hold; what is hedged of
\* the order was seen of it.
Statuses == {"closed", "opening", "open", "closing", "error"}

Locations ==
    EntryLocations \cup {"down", "adopt", "scan", "prepare", "holding", "flatten"}

EntryVariables ==
    [ seen : 0..Base, done : BOOLEAN, hedged : 0..Base, required : 0..Base,
      filled : 0..Base, before : Nat, attempt : 1..MaxRetries, refused : BOOLEAN,
      resume : {"watch", "check"} ]

LegVariables ==
    [ at : {"fetch", "order", "flat", "failed"}, attempt : 0..MaxRetries, want : Nat ]

FlattenVariables ==
    [ after : {"none", "startup", "entry", "close", "shutdown"},
      legs : [Legs -> LegVariables] ]

LiveTypeOK ==
    /\ position \in [Legs -> Nat]
    /\ maker \in [open : BOOLEAN, filled : 0..Base]
    /\ orphans \in Nat /\ stray \in Nat /\ market \in Nat
    /\ stored \in [status : Statuses, base : 0..Base]
    /\ pc \in Locations
    /\ entry \in EntryVariables /\ entry.hedged <= entry.seen
    /\ flatten \in FlattenVariables
    /\ faults \in 0..MaxFaults /\ crashes \in 0..MaxCrashes

\* A position is only held when its entry is settled: the post-only order can
\* fill no further, and the record says how much of it was kept.
HoldingIsSettled ==
    pc = "holding" =>
        /\ ~ maker.open
        /\ stored.status = "open" /\ stored.base >= MinFill

\* No call that failed and no retry makes the hedge larger than what it hedges.
NeverOverHedged ==
    pc \in EntryLocations => position["hedge"] <= position["maker"]

\* No position is active and none is being opened.
Idle == ~ Active /\ pc \in {"down", "scan"}

\* Whatever filled in part, was retried, failed or died on the way to a closed
\* record: what is then left on the venues came from an order that filled when
\* nobody watched it any more, and from nothing else.
OnlyStraysRemain == Idle => position["maker"] + position["hedge"] <= stray

\* "On any error of the entry the service reads the real positions and tries to
\* close both sides"; "flatten before scanning": while no position is active and
\* none is being opened, there is nothing on either venue.
ClosedIsFlat == Idle => position = Flat

\* Whatever failed or died, the record of an unfinished position does not stay:
\* it is closed, or the position is held.
RecordIsResolved == Active ~> (~ Active \/ pc = "holding")

\* A leg does not stay without the other, whatever call failed and however the
\* fills raced with the timeout, unless an order filled when nobody watched it.
NoNakedLegStays ==
    (position["maker"] # position["hedge"])
      ~> (position["maker"] = position["hedge"] \/ stray > 0)
=============================================================================
