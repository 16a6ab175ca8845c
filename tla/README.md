# TLA+ specifications of the FIN paper runtime

This directory holds TLA+ models of the parts of this repository whose
correctness depends on the order of file writes, on locks, on crashes, on
retries and on arithmetic that several of these share: the event journal, the
paper-cycle engine, the spool scheduler, pre-trade risk, the planner, the paper
broker and the forward worker of `src/finruntime`, the supervisor that runs
them, and the live execution of `services/funding_router`. TLC checks them on
small instances; TLAPS proves, for every instance, the safety properties of all
of them but one (section 4). Paths below are relative to the repository; `core.py` is
`src/finruntime/scheduler/core.py`, `cycle.py` is
`src/finruntime/operations/cycle.py`, `atomic.py` is
`src/finruntime/journal/atomic.py`, `risk.py` and `accounting.py` are in
`src/finruntime/portfolio/`, `planner.py` and `paper_broker.py` in
`src/finruntime/execution/`, `_forward.py`, `_ab.py`, `_engine.py` and
`_okx.py` stand for `src/finruntime/strategies/_ds40180_*.py`, and `execution.py`, `service.py` and
`gateways.py` for those of `services/funding_router/src/funding_router/`.

## 1. The system

| Component | State it keeps | Operations | What makes it correct |
|---|---|---|---|
| Event journal (`journal/atomic.py`) | `events.jsonl`, a hash chain of events per strategy | `append_many`, `verify`, `write_once_json`, `write_atomic_json` | append-only; every file it leaves behind verifies; a retry completes a batch instead of repeating it |
| Paper-cycle engine (`operations/cycle.py`) | `account_state.json`, `cycles/<id>/*` with `COMMITTED.json`, `forward_telemetry.csv` | `run_paper_cycle`: compute, write evidence, journal, commit, account, telemetry; restore a committed cycle | evidence before the marker; the account is moved only by committed cycles and never back; a committed cycle can be restored |
| Lock (`locking.py`) | `flock` on a lock file | `exclusive_file_lock` | one writer; dies with its holder |
| Spool scheduler (`scheduler/core.py`, `scheduler/cli.py`) | `inbox/`, `processing/`, `completed/`, `rejected/`, its own `events.jsonl`, `status.json` | `enqueue_envelope`, `run_scheduler_once` (`_due_candidates`, `_claim_next`, `_complete`, `_reject`), `serve_scheduler`, `verify_scheduler` | no request is lost, executed twice or executed after expiry; interrupted cycles are finished before others start; archives agree with the engine |
| Runtime CLI (`cli.py`) | none of its own | `init-account`, `paper-cycle`, status and verification | does not undo what a cycle did |
| Planner and risk (`execution/planner.py`, `execution/v136_filter.py`, `portfolio/risk.py`, `data/availability.py`) | none | positions and targets to intents; data quality to permissions | reductions before increases; a blocked source permits reductions only |
| Broker and accounting (`execution/paper_broker.py`, `execution/paper_cycle.py`, `portfolio/accounting.py`, `portfolio/lifecycle.py`) | cash, positions, applied fill ids, progress of the active plan | `execute_paper_plan`, `apply_fill`, `mark_account`, `activate_paper_plan` | each fill is applied once; never more than planned; cash is never negative; reduce-only never flips a position |
| Reconciliation (`portfolio/reconciliation.py`) | none | the report and its status `ok`, `warn` or `halt`; the telemetry row | halts on unexplained differences |
| Migration (`provenance/migration.py`) | a migrated account with its evidence | one offline migration | the migrated state is what the legacy files say |
| Profile guard (`profiles/v517_guard.py`) | none | market features to a decision | fails closed |
| Strategies (`strategies/*`) | a state file and a snapshot per worker, the forward journal of DS40180 | poll, compute, write a snapshot | a restart neither repeats nor skips a day |
| Control room (`observability/server.py`, `strategy_hub.py`, ...) | caches, one backtest lock | HTTP views; start a backtest | one backtest at a time; views only read |
| Funding router (`services/funding_router`) | SQLite: position, account, events | scan, open two legs, reconcile, flatten, recover; a paper trader | no naked leg survives; what was closed is accounted for |
| Paper stack (`scripts/run_paper_stack.py`) | child processes | start all, stop all when one exits | no child is left behind |

How they interact. A producer seals a strategy snapshot, a market snapshot,
quotes and the current account in an envelope and drops it in `inbox/`. The
daemon claims the envelope (`inbox/` to `processing/`), calls
`run_paper_cycle`, and archives the envelope with its result. The engine
computes the whole cycle from the sealed request: risk, plan, fills, final
account, reconciliation. It shares `account_state.json` and the journal with
whoever else runs cycles on that root, for instance the `paper-cycle` command;
`.paper-cycle.lock` keeps them apart. The scheduler reads `COMMITTED.json` and
`account_state.json` without that lock. Everything the control room shows is
read from these files.

`scripts/run_paper_stack.py` starts these processes and the paper strategies
as children and ends all of them when one ends. The forward worker is one of
them: every five minutes it loads the closed daily bars, moves its ledger over
the days it has not seen, writes a journal line per day, saves the ledger,
records at most one pair of an A/B study per day, and publishes a snapshot.

The funding router is a program of its own. Its live loop enters one pair
position at a time: a post-only order on one venue, each fill hedged with a
market order on the other. It keeps one record in SQLite and takes the truth
about what it holds from the venues, which go on between any two awaits.

What is hard. Every step is one file write, and the process may die between
any two; a journal batch may even be cut in the middle of a line. What was
half done is picked up by a retry of the same request, or by a *different*
request that starts from the same account. Requests may be stale, early,
expired, repeated, or sealed twice under two envelopes. The scheduler's clock
and its reading of the account may be out of date by the time it acts. The
list under `hazards` in `PROJECT.json` names each of these at its line.

## 2. The modules

    Selections              the members of a sequence that a test lets through
         |  EXTENDS
    JournalRules            rules of the journal, pure operators over sequences
         |
    PaperCycle ------------ PaperLedger   abstract specification (INSTANCE ... WITH)
         |
    Scheduler                             the spool composed with the engine

    RiskAndPlan             risk and planner, pure operators over books
         |
    PaperAccounting         the account, pure operators over account records
         |
    PaperBroker ----------- OrderBook     abstract specification (INSTANCE ... WITH)

    ForwardWorker           the DS-40/180 worker
         |
    PaperStack              the supervisor composed with the worker

    LiveExecution           the funding router in live mode

    MCPaperCycle, MCScheduler, MCPaperBroker, MCPaperStack, MCLiveExecution
                            instances for TLC

    CollectionProofs        sums over a set, selections from a sequence: lemmas
    PaperCycleProofs        about PaperCycle and its journal
    SchedulerProofs         about Scheduler (EXTENDS PaperCycleProofs)
    ForwardWorkerProofs     about a step of ForwardWorker
    PaperStackProofs        about PaperStack (EXTENDS ForwardWorkerProofs)
    LiveExecutionProofs     about LiveExecution
    RiskAndPlanProofs       about the operators of RiskAndPlan
    PaperBrokerProofs       about PaperBroker (EXTENDS RiskAndPlanProofs)

**JournalRules** translates the tables and checks of `atomic.py`: singleton
event types, phases, predecessors, `_verify_semantics`, `_verify_events`, and
the selection of new events and the acceptance test of `append_many`. The
selection is `Selection` of the module **Selections**, the same sequence as
`SelectSeq` builds, said by what it is (its k-th member is the member at the
k-th position that passes) instead of by recursion, so that a proof can use it. An event
is `[type, sequence, time, payload]`. The hash chain is the order of the
sequence and the payload hash is the payload. `verify()` is written with
quantifiers over positions; the code's running dictionaries (`last_time`,
`phase_by_cycle`, `seen_by_cycle`, `halted`) become statements about earlier
positions.

**PaperCycle** is `run_paper_cycle` on one strategy root.

| Variable | In the code |
|---|---|
| `account_state` | `account_state.json`, or `NoAccount` |
| `artifacts[r]` | how many of the eight evidence files of the cycle directory exist; they are written in a fixed order |
| `committed` | cycles whose directory holds `COMMITTED.json` |
| `journal`, `torn` | complete lines of `events.jsonl`; whether a partial line follows them |
| `telemetry` | cycles whose row is in `forward_telemetry.csv` |
| `lock`, `pc`, `request`, `outcome` | holder of `.paper-cycle.lock`; place, argument and result of each caller |

| Action | In the code |
|---|---|
| `Acquire`, `Return` | the `with exclusive_file_lock` of `run_paper_cycle` (cycle.py:741-745) |
| `BeginCycle`, `RefuseCycle` | cycle.py:602-670: starting account, `verify`, monotonic sequence, the computation, which may raise |
| `WriteArtifact`, `ArtifactsWritten` | the loop of `write_once_json` (cycle.py:682-683) |
| `BeginAppend`, `RefuseAppend` | `append_many` up to `_verify_events` of the extended file (atomic.py:334-401) |
| `WriteLine`, `LinesWritten` | the `os.write` loop (atomic.py:410-424) |
| `WriteCommitMarker`, `WriteAccount`, `AppendTelemetry`, `RefuseTelemetry` | cycle.py:716, 717, 718 |
| `RestoreCycle`, `RefuseRestore` | `_restore_committed_side_effects` (cycle.py:512-568) |
| `Crash` | the process dies; the kernel releases its lock; during `WriteLine` a partial line may stay |

A request is a record that carries what the cycle computes from it, since the
computation is deterministic and its inputs are sealed. `RequestsAssumption`
states what the code guarantees of that computation: an executed cycle raises
the account's sequence and does not move its clock back, and content hashes
are injective.

**PaperLedger** says what the engine is for, in two actions. `Seal` commits a
cycle against the account that stands, `Advance` moves the account from a
sealed cycle's start to its end. There are no locks, files, events or crashes.

**Scheduler** extends PaperCycle with the spool. The daemon is one of the
runners; its memory during `run_scheduler_once` is the record `pass`, lost in a
crash. The actions follow the code: `LockSpool`, then for every item
`RejectExpired`/`ListCandidates` (`_due_candidates`),
`LookForMarker`/`ClaimNext`/`LeaveWaiting`/`RejectStale` (`_claim_next`),
`RunCycle` and the engine's own steps, then
`ArchiveCompleted`/`WriteResult`/`LogCompleted` (`_complete`) or
`ArchiveRejected`/`WriteError`/`LogRejected` (`_reject`). `ResultConflict` and
`ErrorConflict` are `write_once_json` finding other content. `Enqueue` and
`LogEnqueued` are `enqueue_envelope`. `DaemonCrash` and `ProducerCrash` may
happen anywhere, `RestartDaemon` follows; `OperatorStep` is the `paper-cycle`
command run by hand.

**RiskAndPlan** holds `apply_pretrade_risk` and `build_execution_plan` as
operators: `BlockRiskIncrease`, `CapGross` and `FitCollateral` make up
`Constrain`; `Reduction` and `Increase` of each instrument, in the order the
code sorts them, make up `PlanIntents`; the opening leg of a sign flip names
its close as parent (`ParentOf`). Values are whole hundredths, quantities whole
lots; a quotient is cut towards zero where the code keeps 50 digits.

**PaperAccounting** holds `activate_paper_plan`, `apply_fill_event`,
`apply_funding_event`, `mark_account` and `margin_buffer_fraction` as operators
over account records. What the code raises is an operator that gives the set of
reasons (`FillHalts`, `FundingHalts`, `MarkHalts`), which is empty when it goes
through. An account keeps the signed value its perpetuals were entered at; the
code's average entry price is that value over the lots.

**PaperBroker** runs cycles on one account, one intent per step.

| Variable | In the code |
|---|---|
| `account` | the `PaperAccountState` that stands between calls |
| `plan` | the `ExecutionPlan` of the last cycle with what it was made from |
| `call` | the locals of `execute_paper_plan`: working account, quotes, liquidity left, progress, latest time, position in the plan |
| `outcome` | the status of the reconciliation report, or the reason of the halt |

| Action | In the code |
|---|---|
| `BeginCycle` | risk, plan and activation of a new cycle (cycle.py:609-647, risk.py:238, planner.py:311, `execution/paper_cycle.py`:18) |
| `Resume` | the same plan executed again with the same or other quotes (`execution/paper_cycle.py`:18-50) |
| `SkipIntent`, `ExecuteIntent`, `HaltIntent` | one round of the loop (paper_broker.py:410-567) with its `apply_fill_event` |
| `FinishCall`, `HaltMark` | `mark_account` and the report (paper_broker.py:569-594, `portfolio/reconciliation.py`:185-207) |
| `PayFunding` | `apply_funding_event` between two calls, the same event as often as it comes |

Every intent yields an event, a refusal too, and every event is applied to the
account with its time. A halt drops the working copy, as the exception does.

**OrderBook** says what execution may do to positions: a new plan starts empty,
an order fills up to its size, an opening leg only after its close is done, and
nothing else moves a position. There are no quotes, no cash and no calls.

**ForwardWorker** is one poll of the DS-40/180 worker at the grain of its file
writes.

| Variable | In the code |
|---|---|
| `closed`, `bars` | the last closed day at the exchange; how often each bar was revised |
| `ledger` | `ds40180_t50c3_paper_state.json`: days processed, last bar, recorded revision, sequence number, assets |
| `journal`, `pairs`, `torn` | the two event files and which of them ends in half a line |
| `snapshot` | the published snapshot |
| `process`, `pc`, `feed`, `copy`, `pending` | the process and the locals of `run_once` and `load_or_advance_forward_state` |

| Action | In the code |
|---|---|
| `Poll`, `RefuseFeed` | `load_market_data` (_okx.py:321), which leaves out what it cannot load; `build_engine` (_engine.py:53-80) |
| `Bootstrap`, `AnnounceLedger`, `ConfirmLedger`, `LoadLedger` | the first ledger and its event (_forward.py:608-633) |
| `RecordRevision`, `NothingRevised`, `ExitOnKeyError` | `_bar_digest` and the revision event (_forward.py:635-650); the `KeyError` that `main` does not catch (`ds40180_t50c3_paper.py`:436) |
| `AssetsChanged`, `Advance`, `JournalDay`, `SaveLedger` | `_advance_state` (_forward.py:400-527) and the writes after it (652-664) |
| `Observe`, `Publish` | `_append_observation` (_ab.py:438-478); the snapshot (`ds40180_t50c3_paper.py`:306-371) |
| `Die`, `Start` | a crash, SIGKILL, or SIGTERM, for which the worker has no handler; a new process |

**PaperStack** is `run_paper_stack.py` with the worker and its other children:
`StartChild`, `StartFails`, `BeginWatch`, `EndWatch` are `main` up to its
`finally`; `Terminate`, `ReapExited`, `KillAfterDeadline` are `_terminate`;
`Leave` ends the supervisor and `Relaunch` is the container's restart.

**LiveExecution** is the funding router in live mode with the two venues.

| Variable | In the code |
|---|---|
| `position` | what `fetch_position_base` reports for each leg, counted in the direction of the entry |
| `maker`, `orphans`, `market` | the last post-only order; the open rest of earlier ones; market orders still open |
| `stored` | the row that `save_position` writes: status and base amount |
| `pc`, `entry`, `flatten` | place and local variables of `run_router`, `open_candidate`, `_hedge_exact` and the two `_flatten_one` |
| `stray` | history: what orders filled when the router no longer watched them |

| Action | In the code |
|---|---|
| `Start`, `Adopt`, `RefuseToAdopt` | `_recover_live_position` (service.py:174-221) |
| `AssertCleanMarket`, `RefuseEntry`, `PrepareRaises`, `SaveOpening` | execution.py:270-318 and 92-134 |
| `PlaceMaker`, `Poll`, `HedgeIncrement`, `StopWatching`, `CancelMaker`, `CancelSwallowed`, `FinalFetch`, `FinalIncrement` | the watch of the post-only order (execution.py:320-404) and `cancel_order` (gateways.py:498-508) |
| `FetchBefore`, `HedgeOrder`, `HedgeConfirmed`, `HedgeAgain`, `HedgeFails` | `_hedge_exact` (execution.py:203-267) |
| `FillBelowMinimum`, `SaveOpen`, `Opened`, `ReconcileFails` | execution.py:406-468 |
| `PlaceMakerRaises`, `MakerCallRaises`, `HedgeCallRaises` | a call raises, with or without its effect: execution.py:469-499 |
| `FlattenFetch`, `FlattenOrder`, `FlattenRaises`, `Flattened`, `FlattenFailed` | `flatten_symbols` with a `_flatten_one` for each leg side by side (execution.py:501-583) |
| `ClosePosition`, `Mismatch`, `Shutdown`, `Stop` | the loop and the `finally` of `run_router` (service.py:314-371) |
| `MakerFills`, `OrphanFills`, `MarketFills`, `Crash` | the venues; the death of the process |

An exception that leaves `run_router` ends the process. The model lets it be
started again, as a service manager does, and as an operator would.

## 3. Runs

The runs of the engine, the scheduler and the router check for deadlock. Those
of PaperBroker and PaperStack do not: there the bound on cycles and calls, or
on launches, ends a behaviour. TLC finishes each in under three minutes.

| Run | Instance | Shows |
|---|---|---|
| `paper_cycle` | 2 runners, 6 requests, 3 account generations, 2 artifacts, torn lines | all safety properties of the engine, the inductive invariant, and that it implements `PaperLedger` |
| `scheduler` | daemon alone, 3 envelopes, 2 items per pass, clock 0..2 | finishing before forking, no telemetry row skipped, archives disjoint, nothing committed is turned away |
| `scheduler_shared` | daemon and operator, an expiring envelope enqueued again at will, a rival run by hand | results are backed by the engine, whoever else runs cycles, no envelope is lost |
| `scheduler_live` | daemon, two rival envelopes of which one expires | every request is archived; a committed cycle takes effect while its envelope is valid |
| `live_entry` | 3 units, 2 retries, 2 faults, 1 crash | a held position is settled, the hedge never exceeds what it hedges, only forgotten orders leave anything behind |
| `live_recovery` | 2 units, 2 retries, 2 faults, 1 crash, lingering market orders, swallowed cancellations | `RecordIsResolved` and `NoNakedLegStays` |
| `paper_broker` | a perpetual and two spot markets, 2 cycles, 2 calls per plan, one funding event | the account is the sum of its events, fills keep to the plan and to the liquidity, plans to the budget, guards never go off, reductions pay for increases, nothing the account takes on is dated before it, and the broker implements `OrderBook` |
| `paper_stack` | 3 days, 2 assets, 1 fault, 2 launches, the worker and one more child | days are processed once, in order, and journalled first; pairs and snapshot follow the ledger; the stack stops together, leaves no child behind, and catches up |
| `scheduler_expiry`, `live_orphan`, `live_cancel`, `forward_journal` | the same or smaller instances | findings, section 6 |

Why the bounds are enough. Two runners are as many as can disagree about one
lock; a third would be in the place of one of them, and the proofs cover any
number. The six requests of `MCPaperCycle` are the ways two requests can
collide: the same plan with other quotes (`requoted`), another snapshot from
the same account (`rival`), a successor (`second`), a successor that does not
move the clock and so collides in the telemetry file (`sameclock`), one that
raises (`broken`). Two artifacts are the least for which a crash falls between
two; the code's eight add no new case. In the scheduler one artifact and three
envelopes (a first cycle, its rival, its successor) let every guard of
`_claim_next` hold and fail, and two items per pass let a pass go on after one.
The clock is bounded by `MaxTime`; `MCLongLived` puts the expiry beyond that
bound so that `scheduler` shows what holds while nothing expires, and the other
instances put it within.

In PaperBroker the four books of targets ask for more than the budget, for a
move from one spot market to the other, for both kinds of markets at once, and
for a short perpetual beyond the gross cap, so that two cycles contain every
reduction, every increase and a sign flip with a parent. A request has at most
one quote that deviates, that of the perpetual or of one spot market: missing, thin, too far from the reference, expired, or
older than the others. `MaxCycles` and `MaxCalls` are two because what a call
finds is left by one call before it, of the same plan or of another.

In PaperStack three days let a catch-up cover two days at once; two assets are
the one without which there is no engine and another; two launches let the
second find whatever the first left behind. A fault is an incomplete feed, a
revised bar, a failed comparison or half a line; one is allowed, at any place,
together with deaths of the worker, exits of the other child, failing starts
and signals, which are not counted. With `MaxFaults = 2` the same properties
hold over 1.6 million states, in more time than a regular run should take.

In LiveExecution three units let an order fill in
parts below and above the minimum of two; two retries let an order be sent
again and the retries run out; two faults let the emergency fail after the
entry did, and one crash falls between any two steps of both. `MaxFaults` and
`MaxCrashes` are bounds of the model, not of the code.

Two properties of the scheduler hold only under a condition, and the runs say which.
`CommitIsRecoverable` and `ArchivesAreDisjoint` hold in `scheduler`, where nothing expires
and nothing is enqueued again, and fail without that restriction (section 6).
`NoFork` and `NoTelemetryHole` are checked for a daemon
that runs alone: an operator can commit a rival between two passes, or commit
a cycle while the daemon is between reading its marker (core.py:775) and the account
(core.py:789), so that its envelope is rejected as stale.

Two conditions of LiveExecution are CONSTANTS. `HoldingIsSettled` needs
`MaySwallow = FALSE`: `cancel_order` takes every error whose text contains
"closed" or "not found" for an order that is gone (gateways.py:503-507), a
closed connection included, and nothing looks at the order again (run
`live_cancel`, section 6). `NeverOverHedged` needs `MayLinger = FALSE`:
a market order that stays open past `max_unhedged_seconds` and fills after its
retry makes the hedge too large; `reconcile_position` then finds the mismatch
and the legs are flattened, which `live_recovery` covers.

`ReductionsFundIncreases` speaks of spot only, and of an equity marked at the
prices of the plan. A perpetual is closed before spot is sold, so a loss can
use up the cash that the sale would have brought; and a cycle sizes its targets
by the equity of the last mark (section 6). `CatchesUp` needs a worker that
stays up, a journal that verifies and the assets of the ledger: each of the
three can be lost for good (section 6).

Fairness. `SchedulerFairSpec` assumes weak fairness of the clock, of the
producer's single step under the lock, and of the daemon with its restart
(`DaemonStep`): its loop (core.py:1046-1066) polls until it is told to stop and
the container starts it again. `FairSpec` of PaperStack assumes weak fairness
of the worker, whose loop polls for ever, of the days, which close, and of the
supervisor, which looks twice a second and kills what is left at its deadline;
that a child honours SIGTERM is assumed nowhere. `LiveFairSpec` assumes
weak fairness of what the router does of itself (`RouterStep`): the event loop
runs, every wait has a deadline, and the process is started again. Fills,
candidates, reasons to close and signals are owed by nobody. Nothing is owed by
producers that have not enqueued, by operators, or by crashes; the liveness
properties of the scheduler are conditional on crashes ending.

## 4. What is proved

Each theorem holds for every value of the constants that satisfies the
assumption of the module it is about. Where it needs more than that, the theorem says so in an
ASSUME of its own, and the text below says what code or which decision of an
operator it stands for.

### The engine: `PaperCycleProofs`

- `Invariance`: `Spec => []IInv`;
- `TypeCorrect`, a conjunct of `IInv`, and `EvidenceFirst`, `Provenance`,
  `TelemetryBacked`, `Restorable`: the invariants of the run `paper_cycle`
  (`JournalVerifies` follows below);
- `NoRollback`, `EvidenceStays`: the action properties;
- `LedgerImplemented`: every step of the engine is a step of `PaperLedger` or
  a stutter.

The argument. None of these invariants is inductive alone. "Evidence before
the marker" needs to know that the runner about to write the marker has
written its artifacts and its batch, and that nobody else has run since: hence
`OnlyHolderRuns` (whoever is inside a cycle holds the lock) and
`HolderHasChecked` (what each place in the code has established: which account
stands, whether the marker is there, how many artifacts, which events). "Never
roll back" needs that the account still is the starting account when
`WriteAccount` runs, which the holder checked at the beginning, and nobody else
could change. The case without `account_state.json` is separate: the account
file does not protect the root then, and `FirstCycleIsAlone` says why nothing
else can have been committed (a root with any journal line or marker accepts no
new cycle). `IInv` is the conjunction. The proof that a step preserves it goes
by actions; telemetry needs that rows belong to cycles whose final account
sequence the account has reached, and that sequences only grow along the ledger.

### The journal: `PaperCycleProofs`, second part

`JournalAlwaysVerifies`: whatever crashes, tears and retries do, the complete
lines of `events.jsonl` pass `_verify_events`. The engine accepts a batch as a
whole, but writes it line by line, so every prefix has to verify as well. The
invariant `BatchFits` says what the writer at `write_lines` still has in
hand: the file continued by the events of its batch that are not recorded yet
verifies. It is kept because the line that is written next is the first of these events:
the file grows by it and what is missing shrinks by it, and the continued file stays
the same sequence (`LineContinues`, `ContinuedVerifies`). A prefix of a file
that verifies verifies (`PrefixVerifies`), which gives the theorem and lets a
batch begin after a crash. `BatchIsDistinct` says why "recorded" removes each
event once: no two events of a batch are equal.

`CollectionProofs` holds what these proofs need of `Selection` and of sums over
finite sets. The prover cannot use an induction theorem (they take an operator as
a parameter); these lemmas argue by a smallest counterexample instead: the
subsets for which the claim fails, if there were any, would have a member that is
minimal under inclusion, and taking one element out of that one gives a
contradiction.

### The scheduler: `SchedulerProofs`

Every step of the scheduler is a step of the engine or leaves the engine's
variables alone, so `IInv` is taken over. On top of it stand

- `SpoolInv`: type correctness, and what each place of a pass knows about its envelope
  and about the call of `run_paper_cycle` it made (`PassHolds`,
  `CycleIsThePasses`, `ResultIsBacked`, `CompletedIsBacked`). It holds with any
  operators at work on the root. From it: `SchedulerTypeCorrect`;
  `ResultsAreBacked` (an archived result has its marker, its row and its
  account); `SchedulerRunsTheEngine` (`SchedulerSpec => Spec`, so every theorem
  about the engine and its journal holds under the scheduler);
  `NothingIsDeleted` (an envelope never leaves the spool).
- `FileInv`, while nobody enqueues a sealed request again (`MayReenqueue =
  FALSE`; section 6 shows that the property fails otherwise): a request has one
  file. From it `OneArchive`.
- `SoloInv`, under `DaemonAlone`: the daemon is the only one that runs cycles,
  its scheduler journal is whole, and no envelope expires. Each part is needed:
  `scheduler_expiry` shows what expiry does to a committed cycle, and `NoFork`
  and `CommitIsRecoverable` are properties of the run `scheduler`, not of
  `scheduler_shared`, because an operator beside the daemon can break them. It says that the cycle
  which a crash cut short is in `processing/` and is the first to be run. From
  it `NothingForks` and `CommitsAreRecovered`.
- `RowInv`, under `DaemonAlone` and `ClockAdvances` (no two requests end in one
  account, and each cycle after the first moves the clock): `NoRowIsSkipped`,
  no cycle of the ledger misses its telemetry row but the one the daemon
  still has in hand.

### The forward worker and its supervisor: `ForwardWorkerProofs`, `PaperStackProofs`

For any set of assets, any list of children and any number of days, faults and
launches: `StackInvariance`, `WorkerTypeCorrect`; `JournalIsAhead`
(`EveryDayIsJournalled`); `StudyFollowsTheLedger`; `LedgerGrowsByDays` (the
ledger is only ever extended, day by day); `NoOrphans`. The invariant of the
worker, `WorkerInv`, says for each place of a poll what the copy in memory, the
list of days still to be journalled and the file have in common: the copy
begins with the file (`CopyExtendsLedger`), its days are consecutive, and all of them but the
pending ones are in the journal. `SupervisorInv` says which children run, by how far
`_terminate` has come.

### The live execution: `LiveExecutionProofs`

For every base amount and any number of retries, faults and deaths:
`LiveInvariance`, `LiveTypeCorrect`, and `ClosedLeavesStrays` (what a closed
record leaves on the venues was filled by orders the router no longer watched).
The invariant ties what the entry has seen of its order to what was filled and
what was hedged, place by place. Two theorems need more:

- `HeldMeansSettled` if no cancellation that fails is swallowed (`~
  MaySwallow`; gateways.py:498-508 swallows it, and section 6 has what follows);
- `HedgeStaysCovered` if a market order that was answered does not go on
  filling (`~ MayLinger`).

The runs of LiveExecution check these two under the same settings; `live_recovery` has both
switched on for the others.

### Risk and plan: `RiskAndPlanProofs`

Two theorems about operators, for any book over any instruments:

- `RiskKeepsTheLimits`: the book `Constrain` lets through keeps the gross cap
  and the collateral budget; it is nowhere larger and nowhere on the other
  side than what was asked for or, without sound data, than what is held.
- `PlanLeadsToTheTarget`: in `PlanIntents` every reduction, of whatever
  instrument, stands before every increase (`ReductionsFirst`); an instrument
  has one order, or a close and after it the opening leg that waits for it, a
  reduction is no larger than what is held, and spot is only reduced by what is
  there (`PlanShape`); and the orders of an instrument add up to what leads from
  what is held to the target. The order among the reductions, and among the
  increases, is by instrument; the theorem does not speak of it.

They rest on facts about sums that are scaled and cut towards zero
(`QuotientFacts`, `GrossOfScaled`): scaling by n parts in d leaves a sum that
is at most n parts in d of the old one, although each term is rounded.

### The paper broker: `PaperBrokerProofs`

For any instruments, limits, targets, prices, quotes, funding events and any number of
cycles and calls: `BrokerInvariance`, and from it the six invariants of the run
`paper_broker` (`BrokerTypeCorrect`, `EventsAlwaysExplainTheAccount`,
`ProgressAlwaysExplainsPositions`, `LiquidityIsAlwaysShared`,
`PlansAlwaysFitTheBudget`, `GuardsAreNeverNeeded`), the action property
`AccountIsChronological` (`TheAccountIsChronological`) and the refinement
`OrderBookImplemented`. The assumption on the quotes is that none lies its
whole price off the reference, that is, that bids and asks are positive.

The argument. `BrokerInv` has three parts.

- `PlanSound`: the plan has the shape and the budget the planner gave it. It is
  needed because the guards of `apply_fill_event` are about an order and the
  position it meets; that they find nothing follows from the shape alone.
- `AccountFits`: the events explain the account (`Explained`), the entry values
  lie on the side of the positions, and while the account is at the plan, its positions
  are the plan's start moved by the progress (`OnPlan`). An event may be
  delivered twice and is then ignored, while the caller still counts its lots;
  so the invariant also says that an event reported as `filled` is of an order
  that is filled, and an account that has not reached a plan holds no event of it.
- `CallSound`: between the copy a call works on and the account that stands.
  What the call counts as filled (`progress`) is at least what the account has;
  from the next intent on they agree, and an order counted as complete is
  complete, on which the opening leg of a flip relies. The lots moved and the liquidity that is
  left add up to no more than the quote had.

The step that needs most is `ExecuteIntent`. `LegPosition` says where the position
stands when an order is executed: moved by that order alone, or for the
opening leg of a flip, at zero and moved by the opening alone. Hence the fill fits
(`FillFits`), no guard has anything to refuse (`NothingMisfits`), and
the account stays explained (`FillKeepsTheAccount`) and on its plan
(`FillOnPlan`). A call that is broken off leaves the account and the plan as they
were, so the invariant holds of what stands.

For the chronology, the copy a call works on follows the account that stands
(`CallFollows`), one event after another (`FillFollows`), and what follows what
follows an account follows it (`FollowsOn`). The events of a call come in the
order of the plan and carry the times of their quotes; that one older than the
copy ends the call is what keeps them in order.

For the refinement, the book sees the account that stands only.
`FillsBetween` compares the account before and after a call: both are on the
same plan, so their positions differ by the sum of what was filled between
(`BookFills`). An account that comes to a new plan is compared with the account
as it is when the plan is activated, with nothing filled (`BookReplaces`).

### What is only model-checked

- Liveness under fairness (`scheduler_live`, `live_recovery`, `paper_stack`)
  and whatever needs ENABLED: out of this prover's reach.
- `ReductionsFundIncreases`. It does not hold for every value of the constants:
  the reserve has to be large enough for the fees and for the spread of the
  purchases, which no code checks (with `Reserve = 0` a purchase that uses the
  whole equity fails for want of its fee). That the reductions stand first, for
  any plan, is in `PlanLeadsToTheTarget`.
- The refuted properties of section 6, which the runs show to be false.

## 5. What is abstracted, and what is not modelled

- PaperCycle and Scheduler take account contents, quotes, plans and fills as
  identities; PaperBroker is what happens inside one such computation. The two
  meet in the assumption that a cycle is a function of its request, and that it
  raises the sequence and does not move the clock back, which `Unsound` ("clock")
  of PaperAccounting enforces.
- All fills of a cycle are stamped with the clock of its final account, which
  none of them exceeds; `PLAN_CREATED` carries the decision time of the
  snapshot, as the planner sets it (`planner.py`, `created_at_utc`).
- The computation of a cycle is a function of its request. A software update
  that changes the result between a crash and the retry would make
  `write_once_json` refuse it; that refusal is not modelled.
- An empty `events.jsonl` is not told apart from a missing one. The code treats
  the empty one as evidence and refuses a first cycle (cycle.py:364-368).
- Telemetry rows of different cycles are different rows.
- The files of the repository are written atomically by rename, except the
  journal's; loss of power (fsync ordering) is not modelled beyond the torn line.
- Scheduler: `status.json`, envelope files that do not parse, an invalid
  account file, `SCHEDULER_STARTED` and the other daemon events are left out;
  the scheduler journal is a set of events and never torn; lock waits have no
  duration, a timeout is a refusal that may happen when the lock is held;
  archive names and `request_id` are ranks that only order candidates. A
  second scheduler process (`run-once` beside the daemon) is serialised by
  `.scheduler.lock` for a whole pass and so adds no interleaving of its own.
- LiveExecution: base amounts are whole units, larger than every tolerance of
  the code, and the position a venue reports is right by the deadline of the
  code that waits for it. The rest of a reduce-only order dies. A fault is a
  call that raises, with or without effect, or a market order that fills in
  part. One pair of venues; candidates, prices, scanner and funding only decide
  when an entry or a close happens. `allow_external_positions`,
  `close_on_shutdown = false`, a second active record and the conversions of the
  gateways are left out; so is the check that both legs agree
  (execution.py:410-413), which cannot fail because `_hedge_exact` hedges what
  is required or raises.
- PaperBroker: whole lots and whole money instead of decimals of 50 digits, so
  minimum quantities are one lot and rounding is towards zero. A quote is
  executable at the reference price plus a spread; impact and the proxy spread
  are part of it. Fees are one part in `CommissionDivisor` for both markets.
  Symbol filters, minimum notionals, the v136 filter, the availability records
  from which "risk may increase" is computed, the source hash check and the
  cost warning of the report are left out. The checks of `project_plan_positions`
  are covered by `GuardsNeverGoOff`, which holds for the same plans.
- The account refuses whatever is older than itself, a refusal of the broker
  included, and with it the whole call (accounting.py:382). That is meant
  (`tests/runtime/test_runtime_integrity.py`:191-208,
  `docs/checkpoints/runtime-v1/RUNTIME_CAUSALITY_PROGRESS.md`:43): a request with
  one quote taken too early yields nothing until it is sealed again.
  `AccountIsChronological` is what the rule gives.
- Two raises of the broker are narrower in the model. A reduction in the wrong
  direction raises even when nothing would fill (paper_broker.py:298), `Misfit`
  looks at executed fills only; a fill of another plan is refused for rejections,
  too (accounting.py:460). Neither can be reached: the intents of a call are those
  of the plan the account is on, and their directions fit (`PlanShape`,
  `ProgressExplainsPositions`).
- ForwardWorker: the check of the journal after the bootstrap
  (`_ds40180_forward.py`:633) is left out; it reads the lines just written.
- Scheduler: an error of the file system in the middle of a cycle that leaves
  the daemon alive is not modelled; in the model a cycle ends by itself, raises
  where the code refuses, or dies with its process. Such an error rejects the
  request (core.py:906), and when the cycle was committed by then,
  `CommitIsRecoverable` says nothing of it.
- ForwardWorker: signals, positions, funding and NAV are left out, and so is
  the end of the study when the capital is gone. A file replaced by rename is
  written in one step; only the two event files can be torn. The check of the
  A/B journal is "not torn": its chain is built from the file itself, so it
  does not fall behind as the other one can.
- PaperStack: `initialize_account` and exit codes are left out; SIGKILL of the
  supervisor itself leaves the killing to the container, which is not modelled.
- Funding router, paper mode: `paper.py` of the router saves the closed
  position and the account in two transactions (line 75); a crash in between
  loses the realized result. Nothing in the repository promises more, so this
  is a hazard without a property.
- Control room: one backtest at a time behind one lock (`server.py`:169), the
  rest only reads.
- `init-account --force` beside a running cycle, and a torn scheduler journal
  (every later pass raises): hazards without a property.
- The other paper strategies (`dyn_paper.py`, `atlas_nx_r1_paper.py`,
  `consensus_paper.py`), the factor backtests and everything under `research/`
  are numeric programs without concurrency; what they compute is out of TLC's
  reach and has no reference definition in the repository to compare with.
- All other components of section 1: see `PROJECT.json` for the reason each.

## 6. Where code and documents disagree

1. `scheduler_expiry`. The docstring of `PaperCycleEnvelope` (core.py:219-221)
   promises that "a crash after the cycle commit can be recovered from the same
   envelope". Expiry is judged first (core.py:741): a daemon that dies after
   `COMMITTED.json` and before the account write, and restarts after the
   expiry, rejects the envelope and leaves the account behind its committed cycle.
2. `live_orphan`. The exception path of `open_candidate` (execution.py:469-499)
   flattens both legs and stores CLOSED, but nothing cancels the post-only
   order; only line 379 does, on the way without an exception. The rest of the
   order fills later: a naked leg that no active record names. The service's
   README (line 207) says that on any error of the entry both sides are closed.
   The recovery of a router that died with its order on the book
   (service.py:199-211) closes its record in the same way: set `MaxCrashes = 1`
   and `MaxFaults = 0` in `live_orphan.cfg`. `OnlyStraysRemain` shows that
   forgotten orders are the only cause.
3. `live_cancel`. The service's README (lines 200-204) cancels the rest of the
   post-only order before the position is stored OPEN, and the comment at
   gateways.py:502 says that an order already gone is reconciled by a final
   fetch. `cancel_order` also swallows an error that is not about a gone order
   if its text holds "closed" or "cancel". The final fetch then reports an open
   order, but only its filled amount is looked at (execution.py:385-408): the
   position is held with its order on the book, and what fills later is a leg
   without a hedge.
4. `forward_journal`. The event journal of the forward worker is to be an
   append-only hash chain (`docs/DS40180_T50C3_PAPER_RU.md:9`). A line is
   numbered after the ledger in memory, which is saved later. A SIGTERM in
   between, for which the worker has no handler, leaves the ledger a line
   behind: the next line repeats a number, and from then on every poll raises
   while the supervisor sees a healthy child.

Seen in the code and not made a run:

- `run_scheduler_once` reads the clock (core.py:861) before it waits up to 30 s
  for the lock (core.py:866), so a request that expires during the wait is still
  executed (`docs/PAPER_SCHEDULER_RU.md:124-130`). The model does so, too
  (`pass.time`).
- `enqueue_envelope` does not look in `processing/` (core.py:642-645). An
  interrupted envelope that is enqueued again is run twice and lands in both
  archives, which `verify_scheduler` calls an error (core.py:1000-1001).
  `ArchivesAreDisjoint` fails with `MayReenqueue = TRUE`.
- Fills of a cycle that died before its marker stay in the journal in front of
  the next cycle's committed state, so the state is not "reconstructible from
  events" (`docs/implementation/MASTER_IMPLEMENTATION_PLAN_RU.md:327`) without
  the markers.
- A cycle sizes its targets by the equity of the account's last mark
  (cycle.py:609-640), not at its own prices; after a fall the plan is larger
  than the caps allow at those prices. A call that finds its plan complete gives
  the account back without marking it (paper_broker.py:386-395). Together they
  let a sequence of cycles without orders go on with an old equity.
- Once the equity is gone every later cycle halts; only a new account ends that.
- A call that resumes a plan with the same quote uses its liquidity again; a
  partial fill that equals an earlier one is the same event and is ignored.
- One swap that cannot be loaded while the ledger holds it is a `KeyError` in
  `_bar_digest` (_forward.py:79-97), which `main` does not catch (`ds40180_t50c3_paper.py`:436):
  the worker exits and the supervisor ends the stack.
- A ledger made while an asset was missing refuses the full set of assets at
  every later poll (_forward.py:405-411), until it is migrated by hand. A poll
  that records a revision and then refuses breaks the journal as in 4.

## 7. Plan

Done: JournalRules, PaperCycle, PaperLedger, PaperCycleProofs, Scheduler,
LiveExecution, RiskAndPlan, PaperAccounting, PaperBroker, OrderBook,
ForwardWorker, PaperStack, and the modules of proofs in section 2.

Proofs done: the safety properties of every model, `ReductionsFundIncreases`
aside (section 4). Proofs to come: that property under an assumption on the
reserve, the commission and the spread, once the code states one; and what the
models to come will need.

Models to come, as far as something is promised that they could check:
**RuntimeCli** (`init-account` beside a cycle), **PaperTrader** (the router's
paper mode), **ControlRoomJobs**, a scheduler journal with a torn tail.
