---------------------------- MODULE ForwardWorker ---------------------------
(***************************************************************************)
(* The forward worker of the DS-40/180 paper strategy                      *)
(* (strategies/ds40180_t50c3_paper.py, _ds40180_forward.py,                *)
(* _ds40180_ab.py): every poll loads the closed daily bars, moves the      *)
(* ledger over the days it has not seen, journals each day, saves the      *)
(* ledger and records one A/B pair.                                        *)
(*                                                                         *)
(* The worker works on a copy of the ledger file. What a poll raises ends  *)
(* the poll and drops the copy; only a KeyError ends the process.          *)
(* Prices, positions and NAV are left out: a ledger is the days it has     *)
(* processed and what identifies the last bar, and capital never runs out. *)
(***************************************************************************)
EXTENDS Naturals, SequencesExt

CONSTANTS
    Assets,         \* the swaps of the strategy
    Core,           \* the swap no engine can be built without (BTC)
    NoLedger,       \* there is no ledger file
    NoFeed,         \* the worker holds no market data
    NoRevision,     \* no revision of a bar has been recorded
    MaxDay,         \* bound: days that close
    MaxFaults       \* bound: incomplete feeds, revised bars, failed comparisons,
                    \* lines cut in half

VARIABLES
    closed,     \* the last day whose bar is closed
    bars,       \* how often the bar of each day has been revised
    ledger,     \* ds40180_t50c3_paper_state.json
    journal,    \* ds40180_t50c3_paper_events.jsonl
    torn,       \* the journals whose last line is half a line
    pairs,      \* ds40180_t50c3_ab_events.jsonl: the day of each pair
    snapshot,   \* the day of the published snapshot, 0 before the first
    process,    \* "up", "down" (killed) or "exited" (ended on its own)
    pc,         \* where the poll is
    feed,       \* the market data of the poll
    copy,       \* the copy of the ledger the poll works on
    pending,    \* days the copy has processed and the journal not
    faults      \* faults so far

market == <<closed, bars>>
files == <<ledger, journal, torn, pairs, snapshot>>
memory == <<pc, feed, copy, pending>>
workerVars == <<market, files, process, memory, faults>>

Day == 1..MaxDay

\* An asset is in the engine, only in the histories (its history is too short
\* or too old), or without a bar of the last processed day (not loaded, or its
\* history ends before that day).
Presence == {"active", "dropped", "absent"}

Ledger ==
    [ days : Seq(Day), bar : Nat, revision : {NoRevision} \cup (Day \X Nat),
      sequence : Nat, assets : SUBSET Assets ]

Event == [sequence : Nat, type : {"bootstrap", "revision", "day"}, day : Day]

Feed == [presence : [Assets -> Presence], day : Day, bars : [Day -> 0..MaxFaults]]

ASSUME ForwardAssumption ==
    /\ Core \in Assets
    /\ {MaxDay, MaxFaults} \subseteq Nat
    /\ MaxDay > 0
    /\ NoLedger \notin Ledger
    /\ NoFeed \notin Feed

\* The part of the state that deaths and polls start from.
Asleep ==
    /\ pc = "sleeping"
    /\ feed = NoFeed
    /\ copy = NoLedger
    /\ pending = << >>

WorkerInit ==
    /\ closed = 1
    /\ bars = [d \in Day |-> 0]
    /\ ledger = NoLedger
    /\ journal = << >>
    /\ torn = {}
    /\ pairs = << >>
    /\ snapshot = 0
    /\ Asleep
    /\ faults = 0

(***************************************************************************)
(* The market                                                              *)
(***************************************************************************)
\* A day counts as closed when the bar of every active asset is.
CloseDay ==
    /\ closed < MaxDay
    /\ closed' = closed + 1
    /\ UNCHANGED <<bars, files, process, memory, faults>>

ReviseBar ==
    /\ faults < MaxFaults
    /\ \E d \in 1..closed : bars' = [bars EXCEPT ![d] = @ + 1]
    /\ faults' = faults + 1
    /\ UNCHANGED <<closed, files, process, memory>>

(***************************************************************************)
(* The poll                                                                *)
(***************************************************************************)
Active == {a \in Assets : feed.presence[a] = "active"}

\* verify_journal: the lines parse, count up from 1 and form a chain. A line
\* that continues an older ledger repeats a sequence number.
Verifies(lines) ==
    /\ "journal" \notin torn
    /\ \A i \in DOMAIN lines : lines[i].sequence = i

At(place) == process = "up" /\ pc = place

\* The poll raises what main catches and the worker sleeps until the next one.
GiveUp == pc' = "sleeping" /\ feed' = NoFeed /\ copy' = NoLedger /\ pending' = << >>

GoOn(place) == pc' = place /\ UNCHANGED <<feed, pending>>

\* load_market_data: an asset that cannot be loaded is left out.
Poll ==
    /\ At("sleeping")
    /\ \E presence \in [Assets -> Presence] :
         /\ \/ UNCHANGED faults /\ \A a \in Assets : presence[a] = "active"
            \/ /\ faults < MaxFaults
               /\ faults' = faults + 1
               /\ \E a \in Assets : presence[a] # "active"
         /\ feed' = [presence |-> presence, day |-> closed, bars |-> bars]
    /\ pc' = "loaded"
    /\ UNCHANGED <<market, files, process, copy, pending>>

\* build_engine cannot do with what was loaded, or the journal is broken.
RefuseFeed ==
    /\ At("loaded")
    /\ Core \notin Active \/ ~Verifies(journal)
    /\ GiveUp
    /\ UNCHANGED <<market, files, process, faults>>

Ready == At("loaded") /\ Core \in Active /\ Verifies(journal)

\* The first ledger starts at the last closed day, with the assets there are.
FirstLedger ==
    [ days |-> <<feed.day>>, bar |-> feed.bars[feed.day], revision |-> NoRevision,
      sequence |-> 0, assets |-> Active ]

Bootstrap ==
    /\ Ready
    /\ ledger = NoLedger
    /\ ledger' = FirstLedger
    /\ copy' = FirstLedger
    /\ GoOn("announcing")
    /\ UNCHANGED <<market, journal, torn, pairs, snapshot, process, faults>>

LoadLedger ==
    /\ Ready
    /\ ledger # NoLedger
    /\ copy' = ledger
    /\ GoOn("comparing")
    /\ UNCHANGED <<market, files, process, faults>>

\* _append_journal_event numbers the line after the copy of the ledger, not
\* after the journal.
AppendEvent(base, type, day) ==
    /\ journal' = Append(journal, [sequence |-> base.sequence + 1, type |-> type, day |-> day])
    /\ copy' = [base EXCEPT !.sequence = @ + 1]
    /\ UNCHANGED <<torn, pairs, snapshot>>

AnnounceLedger ==
    /\ At("announcing")
    /\ AppendEvent(copy, "bootstrap", Last(copy.days))
    /\ GoOn("confirming")
    /\ UNCHANGED <<market, ledger, process, faults>>

ConfirmLedger ==
    /\ At("confirming")
    /\ ledger' = copy
    /\ GoOn("comparing")
    /\ UNCHANGED <<market, journal, torn, pairs, snapshot, process, copy, faults>>

Revision == <<Last(copy.days), feed.bars[Last(copy.days)]>>

\* _bar_digest looks every asset of the ledger up in the histories.
LooksUpEveryAsset == \A a \in copy.assets : feed.presence[a] # "absent"

ExitOnKeyError ==
    /\ At("comparing")
    /\ ~LooksUpEveryAsset
    /\ process' = "exited"
    /\ GiveUp
    /\ UNCHANGED <<market, files, faults>>

\* The last processed bar reads differently now, in a way not yet recorded.
IsNewRevision ==
    /\ feed.bars[Last(copy.days)] # copy.bar
    /\ Revision # copy.revision

\* Slip: a revised bar ends the poll.
RecordRevision_Refuses ==
    /\ At("comparing")
    /\ LooksUpEveryAsset
    /\ IsNewRevision
    /\ GiveUp
    /\ UNCHANGED <<market, files, process, faults>>

RecordRevision ==
    /\ At("comparing")
    /\ LooksUpEveryAsset
    /\ IsNewRevision
    /\ AppendEvent([copy EXCEPT !.revision = Revision], "revision", Last(copy.days))
    /\ GoOn("advancing")
    /\ UNCHANGED <<market, ledger, process, faults>>

NothingRevised ==
    /\ At("comparing")
    /\ LooksUpEveryAsset
    /\ ~IsNewRevision
    /\ GoOn("advancing")
    /\ UNCHANGED <<market, files, process, copy, faults>>

\* _advance_state demands the assets of the ledger.
AssetsChanged ==
    /\ At("advancing")
    /\ copy.assets # Active
    /\ GiveUp
    /\ UNCHANGED <<market, files, process, faults>>

\* Slips: the days begin at the last processed one; one day too many.
NewDays_Again == [i \in 1..(feed.day - Last(copy.days) + 1) |-> Last(copy.days) + i - 1]
NewDays_OneMore == [i \in 1..(feed.day - Last(copy.days) + 1) |-> Last(copy.days) + i]

NewDays == [i \in 1..(feed.day - Last(copy.days)) |-> Last(copy.days) + i]

\* Slip: the ledger is saved before the days are journalled.
Advance_Saves ==
    /\ At("advancing")
    /\ copy.assets = Active
    /\ copy' = IF NewDays = << >>
               THEN copy
               ELSE [copy EXCEPT !.days = @ \o NewDays, !.bar = feed.bars[feed.day]]
    /\ ledger' = copy'
    /\ pending' = NewDays
    /\ pc' = "journalling"
    /\ UNCHANGED <<market, journal, torn, pairs, snapshot, process, feed, faults>>

Advance ==
    /\ At("advancing")
    /\ copy.assets = Active
    /\ copy' = IF NewDays = << >>
               THEN copy
               ELSE [copy EXCEPT !.days = @ \o NewDays, !.bar = feed.bars[feed.day]]
    /\ pending' = NewDays
    /\ pc' = "journalling"
    /\ UNCHANGED <<market, files, process, feed, faults>>

JournalDay ==
    /\ At("journalling")
    /\ pending # << >>
    /\ AppendEvent(copy, "day", Head(pending))
    /\ pending' = Tail(pending)
    /\ UNCHANGED <<market, ledger, process, pc, feed, faults>>

\* The ledger is saved, then the journal is verified once more.
SaveLedger ==
    /\ At("journalling")
    /\ pending = << >>
    /\ ledger' = copy
    /\ IF Verifies(journal) THEN GoOn("observing") /\ UNCHANGED copy ELSE GiveUp
    /\ UNCHANGED <<market, journal, torn, pairs, snapshot, process, faults>>

\* Slip: one pair per poll.
TakesPair_EveryPoll(day) ==
    /\ "pairs" \notin torn
    /\ pairs = << >> \/ day >= Last(pairs)

\* _append_observation: one pair per day, never of an earlier day.
TakesPair(day) ==
    /\ "pairs" \notin torn
    /\ pairs = << >> \/ day > Last(pairs)

\* Whatever the comparison raises is caught and the snapshot goes without it:
\* the reference arm may fail, or not match.
Observe ==
    /\ At("observing")
    /\ \/ UNCHANGED faults /\ pairs' = IF TakesPair(feed.day) THEN Append(pairs, feed.day) ELSE pairs
       \/ faults < MaxFaults /\ faults' = faults + 1 /\ UNCHANGED pairs
    /\ GoOn("publishing")
    /\ UNCHANGED <<market, ledger, journal, torn, snapshot, process, copy>>

Publish ==
    /\ At("publishing")
    /\ snapshot' = feed.day
    /\ GiveUp
    /\ UNCHANGED <<market, ledger, journal, torn, pairs, process, faults>>

WorkerStep ==
    \/ Poll \/ RefuseFeed \/ Bootstrap \/ LoadLedger \/ AnnounceLedger \/ ConfirmLedger
    \/ ExitOnKeyError \/ RecordRevision \/ NothingRevised \/ AssetsChanged \/ Advance
    \/ JournalDay \/ SaveLedger \/ Observe \/ Publish

(***************************************************************************)
(* The process                                                             *)
(***************************************************************************)
\* The lines a death can cut in half: those the next step would write.
BeingWritten ==
    IF pc = "announcing" \/ (pc = "journalling" /\ pending # << >>)
                         \/ (pc = "comparing" /\ LooksUpEveryAsset /\ IsNewRevision)
    THEN {"journal"}
    ELSE IF pc = "observing" /\ TakesPair(feed.day) THEN {"pairs"} ELSE {}

\* A crash, SIGKILL, or SIGTERM, for which the worker installs no handler.
Die ==
    /\ process = "up"
    /\ process' = "down"
    /\ \/ UNCHANGED <<torn, faults>>
       \/ /\ faults < MaxFaults
          /\ BeingWritten # {}
          /\ torn' = torn \cup BeingWritten
          /\ faults' = faults + 1
    /\ GiveUp
    /\ UNCHANGED <<market, ledger, journal, pairs, snapshot>>

Start ==
    /\ process # "up"
    /\ process' = "up"
    /\ UNCHANGED <<market, files, memory, faults>>

(***************************************************************************)
(* What is claimed                                                         *)
(***************************************************************************)
\* Every variable has its type: the files are files, the poll is at one of its
\* places, and a copy of the ledger is held exactly between load and publish.
WorkerTypeOK ==
    /\ closed \in Day
    /\ bars \in [Day -> 0..MaxFaults]
    /\ ledger \in Ledger \cup {NoLedger}
    /\ journal \in Seq(Event)
    /\ torn \subseteq {"journal", "pairs"}
    /\ pairs \in Seq(Day)
    /\ snapshot \in Day \cup {0}
    /\ process \in {"up", "down", "exited"}
    /\ pc \in { "sleeping", "loaded", "announcing", "confirming", "comparing", "advancing",
                "journalling", "observing", "publishing" }
    /\ feed \in Feed \cup {NoFeed}
    /\ feed = NoFeed <=> pc = "sleeping"
    /\ copy = NoLedger <=> pc \in {"sleeping", "loaded"}
    /\ copy \in Ledger \cup {NoLedger}
    /\ pending \in Seq(Day)
    /\ process # "up" => pc = "sleeping"

\* The days a ledger holds follow one another without a gap, and a save adds
\* days at the end and rewrites none: what was processed once is never
\* processed again, whatever is revised, missed or repeated after a crash.
DayByDay(l) == \A i \in 1..(Len(l.days) - 1) : l.days[i + 1] = l.days[i] + 1

ProcessedDaysGrow ==
    [][ ledger' # ledger /\ ledger # NoLedger =>
          /\ IsPrefix(ledger.days, ledger'.days)
          /\ DayByDay(ledger') ]_workerVars

\* The journal is written ahead of the ledger: every day the saved ledger has
\* processed since it was created has its line, however often a crash between
\* the two made the worker process it again.
EveryDayIsJournalled ==
    ledger # NoLedger =>
      \A i \in 2..Len(ledger.days) :
        \E j \in DOMAIN journal : journal[j].type = "day" /\ journal[j].day = ledger.days[i]

\* The A/B study sees each day once and in order, and neither it nor the
\* snapshot is ever ahead of the saved ledger (docs/DS40180_T50C3_PAPER_RU.md).
PairsFollowTheLedger ==
    /\ \A i, j \in DOMAIN pairs : i < j => pairs[i] < pairs[j]
    /\ ledger = NoLedger => pairs = << >> /\ snapshot = 0
    /\ ledger # NoLedger =>
         /\ snapshot <= Last(ledger.days)
         /\ \A i \in DOMAIN pairs : pairs[i] <= Last(ledger.days)

\* The journal the worker writes is an append-only hash chain that verifies,
\* also after a crash (docs/DS40180_T50C3_PAPER_RU.md).
JournalStaysValid == Verifies(journal)
=============================================================================
