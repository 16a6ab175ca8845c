------------------------------ MODULE Scheduler ------------------------------
(***************************************************************************)
(* The spool scheduler (scheduler/core.py) in front of the paper-cycle     *)
(* engine.  Producers enqueue sealed envelopes; one daemon moves them      *)
(* through inbox, processing, and completed or rejected, and runs their    *)
(* cycles.  Operators may run cycles by hand beside it.                    *)
(*                                                                         *)
(* An envelope is a record [request_id, request, created, not_before,      *)
(* expires]; two envelopes may seal one request.  Every file the spool     *)
(* gains, loses or moves is a step, so that a process may die in between.  *)
(* status.json only reports and is left out, and so are envelope files     *)
(* that do not parse; the scheduler journal is the set of its events.      *)
(***************************************************************************)
EXTENDS PaperCycle

CONSTANTS
    Daemon,         \* the runner that is the scheduler
    Envelopes,      \* sealed envelopes, each standing for its request_id
    NoEnvelope,
    MaxTime,        \* bound of the wall clock
    MaxItems,       \* max_items of a pass
    MayReenqueue    \* whether a producer enqueues an envelope again

ASSUME EnvelopesAssumption ==
    /\ NoEnvelope \notin Envelopes
    /\ \A e \in Envelopes :
        /\ e.request \in Requests
        /\ e.request_id \in Nat
        /\ e.created \in Nat /\ e.not_before \in Nat /\ e.expires \in Nat
        /\ e.request.decision_time <= e.created
        /\ e.created <= e.not_before
        /\ e.not_before < e.expires
    /\ \A e, f \in Envelopes : e.request_id = f.request_id => e = f

ASSUME SchedulerAssumption ==
    /\ Daemon \in Runners
    /\ MaxTime \in Nat
    /\ MaxItems \in Nat \ {0}
    /\ MayReenqueue \in BOOLEAN

VARIABLES
    now,            \* the wall clock
    spool_lock,     \* who holds .scheduler.lock
    spool,          \* envelopes in inbox/ and in processing/
    completed,      \* envelopes whose .request.json is in completed/
    results,        \* content of completed/*.result.json
    rejected,       \* envelopes whose .request.json is in rejected/
    errors,         \* content of rejected/*.error.json
    events,         \* .scheduler/events.jsonl
    enqueueing,     \* the envelope a producer is about to log
    pass            \* the memory of run_scheduler_once

archives == <<completed, results, rejected, errors>>
cycleVars == vars
spoolVars == <<now, spool_lock, spool, archives, events, enqueueing, pass>>
allVars == <<cycleVars, spoolVars>>

Folders == {"processing", "inbox"}

Spooled == spool["inbox"] \cup spool["processing"] \cup completed \cup rejected

None == [none |-> TRUE]

\* Nothing of a pass survives its end: where it stands, the clock it read, the
\* entry at hand and whether its marker was seen, the candidates not looked at
\* yet, the items it may still run.
Resting ==
    [ at |-> "idle", time |-> 0, folder |-> "inbox", envelope |-> NoEnvelope,
      marker |-> FALSE, reason |-> "none", resume |-> "idle", candidates |-> {},
      items |-> 0, restored |-> FALSE ]

SchedulerInit ==
    /\ Init
    /\ now = 0
    /\ spool_lock = "free"
    /\ spool = [f \in Folders |-> {}]
    /\ completed = {}
    /\ results = [e \in Envelopes |-> None]
    /\ rejected = {}
    /\ errors = [e \in Envelopes |-> None]
    /\ events = {}
    /\ enqueueing = NoEnvelope
    /\ pass = Resting

At(location) == pass.at = location /\ UNCHANGED now

\* A step of the pass that touches no file but those of the spool.
SpoolOnly == UNCHANGED <<cycleVars, enqueueing>>

Log(type, e) == events' = events \cup {<<type, e>>}

\* Slip: the lock is not released when the pass ends.
EndPass_KeepsLock == pass' = Resting /\ UNCHANGED spool_lock

\* The pass ends, returned or raised: the scheduler lock is released.
EndPass == pass' = Resting /\ spool_lock' = "free"

Tick ==
    /\ now < MaxTime
    /\ now' = now + 1
    /\ UNCHANGED <<cycleVars, spool_lock, spool, archives, events, enqueueing, pass>>

(***************************************************************************)
(* enqueue_envelope                                                        *)
(***************************************************************************)
Enqueue(e) ==
    /\ spool_lock = "free"
    /\ e.created <= now
    /\ MayReenqueue \/ e \notin Spooled
    /\ results[e] = None /\ errors[e] = None
    /\ e \notin spool["inbox"]
    /\ spool' = [spool EXCEPT !["inbox"] = @ \cup {e}]
    /\ spool_lock' = "producer"
    /\ enqueueing' = e
    /\ UNCHANGED <<cycleVars, now, archives, events, pass>>

LogEnqueued ==
    /\ spool_lock = "producer"
    /\ Log("REQUEST_ENQUEUED", enqueueing)
    /\ spool_lock' = "free"
    /\ enqueueing' = NoEnvelope
    /\ UNCHANGED <<cycleVars, now, spool, archives, pass>>

ProducerCrash ==
    /\ spool_lock = "producer"
    /\ spool_lock' = "free"
    /\ enqueueing' = NoEnvelope
    /\ UNCHANGED <<cycleVars, now, spool, archives, events, pass>>

(***************************************************************************)
(* run_scheduler_once: the clock is read first, then the lock is awaited.  *)
(***************************************************************************)
StartPass ==
    /\ At("idle")
    /\ pass' = [Resting EXCEPT !.at = "starting", !.time = now]
    /\ UNCHANGED <<spool_lock, spool, archives, events>> /\ SpoolOnly

LockSpool ==
    /\ At("starting")
    /\ spool_lock = "free"
    /\ spool_lock' = "daemon"
    /\ pass' = [pass EXCEPT !.at = "expire", !.items = MaxItems]
    /\ UNCHANGED <<spool, archives, events>> /\ SpoolOnly

SpoolLockTimeout ==
    /\ At("starting")
    /\ spool_lock # "free"
    /\ pass' = Resting
    /\ UNCHANGED <<spool_lock, spool, archives, events>> /\ SpoolOnly

\* _due_candidates rejects what has expired, processing/ before inbox/.
Expired(e) == e.not_before <= pass.time /\ e.expires <= pass.time

Rejecting(folder, e, reason, resume) ==
    pass' = [pass EXCEPT !.at = "reject", !.folder = folder, !.envelope = e,
                         !.reason = reason, !.resume = resume]

RejectExpired ==
    /\ At("expire")
    /\ \E f \in Folders : \E e \in spool[f] :
        /\ Expired(e)
        /\ f = "inbox" => \A d \in spool["processing"] : ~ Expired(d)
        /\ Rejecting(f, e, "expired", "expire")
    /\ UNCHANGED <<spool_lock, spool, archives, events>> /\ SpoolOnly

ListCandidates ==
    /\ At("expire")
    /\ \A f \in Folders : \A e \in spool[f] : ~ Expired(e)
    /\ pass' = [pass EXCEPT !.at = "scan",
                            !.candidates = { c \in Folders \X Envelopes :
                                               /\ c[2] \in spool[c[1]]
                                               /\ c[2].not_before <= pass.time }]
    /\ UNCHANGED <<spool_lock, spool, archives, events>> /\ SpoolOnly

\* Slip: new requests are looked at before interrupted ones.
Priority_InboxFirst(c) == IF c[1] = "inbox" THEN 0 ELSE 1

\* candidates.sort(): processing/ first, then not_before, created, request_id.
Priority(c) == IF c[1] = "processing" THEN 0 ELSE 1

Before(c, d) ==
    LET key(x) == <<Priority(x), x[2].not_before, x[2].created, x[2].request_id>>
    IN  \E i \in 1..4 : /\ key(c)[i] < key(d)[i]
                        /\ \A j \in 1..(i - 1) : key(c)[j] = key(d)[j]

Foremost(c) == \A d \in pass.candidates \ {c} : Before(c, d)

\* _claim_next looks for the marker of the cycle first and reads the account
\* after that; the account lock is not held, so both may move in between.
LookForMarker ==
    /\ At("scan")
    /\ \E c \in pass.candidates :
        /\ Foremost(c)
        /\ pass' = [pass EXCEPT !.at = "judge", !.candidates = @ \ {c},
                                !.folder = c[1], !.envelope = c[2],
                                !.marker = c[2].request \in committed]
    /\ UNCHANGED <<spool_lock, spool, archives, events>> /\ SpoolOnly

\* Slip: a committed cycle is judged by the account like any other.
MayClaim_AccountOnly(e) == account_state = e.request.starting_account

\* A committed cycle is claimed for archival whatever the account is by now;
\* otherwise the account must be the one that was sealed.
MayClaim(e) == pass.marker \/ account_state = e.request.starting_account

\* There is no account, or it has not come that far yet.
MustWait(e) ==
    account_state # NoAccount =>
        account_state.sequence < e.request.starting_account.sequence

ClaimNext ==
    /\ At("judge")
    /\ MayClaim(pass.envelope)
    /\ spool' = [ processing |-> spool["processing"] \cup {pass.envelope},
                  inbox |-> IF pass.folder = "inbox"
                            THEN spool["inbox"] \ {pass.envelope}
                            ELSE spool["inbox"] ]
    /\ pass' = [pass EXCEPT !.at = "run", !.folder = "processing",
                            !.marker = FALSE, !.candidates = {}]
    /\ UNCHANGED <<spool_lock, archives, events>> /\ SpoolOnly

LeaveWaiting ==
    /\ At("judge")
    /\ ~ MayClaim(pass.envelope) /\ MustWait(pass.envelope)
    /\ pass' = [pass EXCEPT !.at = "scan", !.envelope = NoEnvelope]
    /\ UNCHANGED <<spool_lock, spool, archives, events>> /\ SpoolOnly

RejectStale ==
    /\ At("judge")
    /\ ~ MayClaim(pass.envelope) /\ ~ MustWait(pass.envelope)
    /\ Rejecting(pass.folder, pass.envelope, "stale", "scan")
    /\ UNCHANGED <<spool_lock, spool, archives, events>> /\ SpoolOnly

NothingToClaim ==
    /\ At("scan")
    /\ pass.candidates = {}
    /\ EndPass
    /\ UNCHANGED <<spool, archives, events>> /\ SpoolOnly

\* run_paper_cycle on the claimed envelope.
RunCycle ==
    /\ At("run")
    /\ Acquire(Daemon, pass.envelope.request)
    /\ pass' = [pass EXCEPT !.at = "cycle",
                            !.restored = pass.envelope.request \in committed]
    /\ UNCHANGED <<spool_lock, spool, archives, events, enqueueing>>

\* Slip: the claimed envelope is dropped instead of returned.
AccountLockTimeout_Drops ==
    /\ At("run")
    /\ lock # NoRunner
    /\ spool' = [spool EXCEPT !["processing"] = @ \ {pass.envelope}]
    /\ EndPass
    /\ UNCHANGED <<archives, events>> /\ SpoolOnly

\* LockUnavailableError: an operator holds the account; back to the inbox.
AccountLockTimeout ==
    /\ At("run")
    /\ lock # NoRunner
    /\ spool' = [ processing |-> spool["processing"] \ {pass.envelope},
                  inbox |-> spool["inbox"] \cup {pass.envelope} ]
    /\ EndPass
    /\ UNCHANGED <<archives, events>> /\ SpoolOnly

\* Slip: a cycle that raised is archived like one that returned.
CycleReturns_IgnoresError ==
    /\ At("cycle")
    /\ pc[Daemon] = "idle"
    /\ pass' = [pass EXCEPT !.at = "complete"]
    /\ UNCHANGED <<spool_lock, spool, archives, events>> /\ SpoolOnly

CycleReturns ==
    /\ At("cycle")
    /\ pc[Daemon] = "idle"
    /\ IF outcome[Daemon] = "error"
       THEN Rejecting("processing", pass.envelope, "error", "next")
       ELSE pass' = [pass EXCEPT !.at = "complete"]
    /\ UNCHANGED <<spool_lock, spool, archives, events>> /\ SpoolOnly

(***************************************************************************)
(* _complete: request file, result file, event.                            *)
(***************************************************************************)
Result == [ time |-> pass.time, status |-> outcome[Daemon], restored |-> pass.restored ]

\* Slip: the request is copied to completed/ and stays in processing/.
ArchiveCompleted_Copies ==
    /\ At("complete")
    /\ UNCHANGED spool
    /\ completed' = completed \cup {pass.envelope}
    /\ pass' = [pass EXCEPT !.at = "result"]
    /\ UNCHANGED <<spool_lock, results, rejected, errors, events>> /\ SpoolOnly

ArchiveCompleted ==
    /\ At("complete")
    /\ spool' = [spool EXCEPT !["processing"] = @ \ {pass.envelope}]
    /\ completed' = completed \cup {pass.envelope}
    /\ pass' = [pass EXCEPT !.at = "result"]
    /\ UNCHANGED <<spool_lock, results, rejected, errors, events>> /\ SpoolOnly

WriteResult ==
    /\ At("result")
    /\ results[pass.envelope] \in {None, Result}
    /\ results' = [results EXCEPT ![pass.envelope] = Result]
    /\ pass' = [pass EXCEPT !.at = "completed"]
    /\ UNCHANGED <<spool_lock, spool, completed, rejected, errors, events>> /\ SpoolOnly

\* write_once_json raises on another content; the pass rejects the request.
ResultConflict ==
    /\ At("result")
    /\ results[pass.envelope] \notin {None, Result}
    /\ Rejecting("processing", pass.envelope, "conflict", "next")
    /\ UNCHANGED <<spool_lock, spool, archives, events>> /\ SpoolOnly

LogCompleted ==
    /\ At("completed")
    /\ Log("REQUEST_COMPLETED", pass.envelope)
    /\ pass' = [pass EXCEPT !.at = "next"]
    /\ UNCHANGED <<spool_lock, spool, archives>> /\ SpoolOnly

\* Slip: a pass takes one item more than it may.
NextItem_OffByOne ==
    /\ At("next")
    /\ IF pass.items > 0
       THEN /\ pass' = [Resting EXCEPT !.at = "expire", !.time = pass.time,
                                       !.items = pass.items - 1]
            /\ UNCHANGED spool_lock
       ELSE EndPass
    /\ UNCHANGED <<spool, archives, events>> /\ SpoolOnly

NextItem ==
    /\ At("next")
    /\ IF pass.items > 1
       THEN /\ pass' = [Resting EXCEPT !.at = "expire", !.time = pass.time,
                                       !.items = pass.items - 1]
            /\ UNCHANGED spool_lock
       ELSE EndPass
    /\ UNCHANGED <<spool, archives, events>> /\ SpoolOnly

(***************************************************************************)
(* _reject: request file (unless it is gone), error file, event.           *)
(***************************************************************************)
Error ==
    [ time |-> pass.time, reason |-> pass.reason, artifact |-> pass.envelope \in rejected ]

ArchiveRejected ==
    LET e == pass.envelope IN
    /\ At("reject")
    /\ rejected' = IF e \in spool[pass.folder] THEN rejected \cup {e} ELSE rejected
    /\ spool' = [spool EXCEPT ![pass.folder] = @ \ {e}]
    /\ pass' = [pass EXCEPT !.at = "error"]
    /\ UNCHANGED <<spool_lock, completed, results, errors, events>> /\ SpoolOnly

WriteError ==
    /\ At("error")
    /\ errors[pass.envelope] \in {None, Error}
    /\ errors' = [errors EXCEPT ![pass.envelope] = Error]
    /\ pass' = [pass EXCEPT !.at = "rejected"]
    /\ UNCHANGED <<spool_lock, spool, completed, results, rejected, events>> /\ SpoolOnly

\* Nothing catches this one: the pass fails and the daemon goes on.
ErrorConflict ==
    /\ At("error")
    /\ errors[pass.envelope] \notin {None, Error}
    /\ EndPass
    /\ UNCHANGED <<spool, archives, events>> /\ SpoolOnly

LogRejected ==
    /\ At("rejected")
    /\ Log("REQUEST_REJECTED", pass.envelope)
    /\ pass' = [pass EXCEPT !.at = pass.resume]
    /\ UNCHANGED <<spool_lock, spool, archives>> /\ SpoolOnly

\* The scheduler dies wherever it is, in the middle of a cycle too, ...
DaemonCrash ==
    /\ pass.at \notin {"idle", "down"}
    /\ IF pc[Daemon] # "idle" THEN Crash(Daemon) ELSE UNCHANGED cycleVars
    /\ pass' = [Resting EXCEPT !.at = "down"]
    /\ spool_lock' = IF spool_lock = "daemon" THEN "free" ELSE spool_lock
    /\ UNCHANGED <<now, spool, archives, events, enqueueing>>

\* ... and is started again, with nothing but the files.
RestartDaemon ==
    /\ At("down")
    /\ pass' = Resting
    /\ UNCHANGED <<spool_lock, spool, archives, events>> /\ SpoolOnly

DaemonStep ==
    \/ RestartDaemon
    \/ StartPass \/ LockSpool \/ SpoolLockTimeout
    \/ RejectExpired \/ ListCandidates
    \/ LookForMarker \/ ClaimNext \/ LeaveWaiting \/ RejectStale \/ NothingToClaim
    \/ RunCycle \/ AccountLockTimeout \/ CycleReturns
    \/ ArchiveCompleted \/ WriteResult \/ ResultConflict \/ LogCompleted \/ NextItem
    \/ ArchiveRejected \/ WriteError \/ ErrorConflict \/ LogRejected
    \/ CycleStep(Daemon) /\ UNCHANGED spoolVars

\* The paper-cycle command, run by hand on the same strategy root.
OperatorStep(p) ==
    /\ \/ \E r \in Requests : Acquire(p, r)
       \/ CycleStep(p)
       \/ Crash(p)
    /\ UNCHANGED spoolVars

SchedulerNext ==
    \/ Tick
    \/ \E e \in Envelopes : Enqueue(e)
    \/ LogEnqueued \/ ProducerCrash
    \/ DaemonStep \/ DaemonCrash
    \/ \E p \in Runners \ {Daemon} : OperatorStep(p)

SchedulerSpec == SchedulerInit /\ [][SchedulerNext]_allVars

\* The daemon polls for ever, is started again when it died, and the clock goes
\* on; producers, operators and crashes owe nothing.
SchedulerFairSpec ==
    /\ SchedulerSpec
    /\ WF_allVars(Tick)
    /\ WF_allVars(LogEnqueued)
    /\ WF_allVars(DaemonStep)

-----------------------------------------------------------------------------
PassLocations ==
    { "down", "idle", "starting", "expire", "scan", "judge", "run", "cycle", "complete", "result",
      "completed", "next", "reject", "error", "rejected" }

Reasons == { "none", "expired", "stale", "error", "conflict" }

\* The memory of a pass, and the files it leaves in the archives.
Memory ==
    [ at : PassLocations, time : 0..MaxTime, folder : Folders,
      envelope : Envelopes \cup {NoEnvelope}, marker : BOOLEAN, reason : Reasons,
      resume : {"idle", "expire", "scan", "next"},
      candidates : SUBSET (Folders \X Envelopes), items : 0..MaxItems,
      restored : BOOLEAN ]

ResultFiles == [ time : 0..MaxTime, status : Outcomes, restored : BOOLEAN ]

ErrorFiles == [ time : 0..MaxTime, reason : Reasons, artifact : BOOLEAN ]

LoggedTypes == { "REQUEST_ENQUEUED", "REQUEST_COMPLETED", "REQUEST_REJECTED" }

SpoolTypeOK ==
    /\ now \in 0..MaxTime
    /\ spool_lock \in {"free", "daemon", "producer"}
    /\ spool \in [Folders -> SUBSET Envelopes]
    /\ completed \subseteq Envelopes /\ rejected \subseteq Envelopes
    /\ results \in [Envelopes -> ResultFiles \cup {None}]
    /\ errors \in [Envelopes -> ErrorFiles \cup {None}]
    /\ events \subseteq LoggedTypes \X Envelopes
    /\ enqueueing \in Envelopes \cup {NoEnvelope}
    /\ pass \in Memory
    /\ pass.at \notin {"down", "idle", "starting"} => pass.items \in 1..MaxItems

\* Every variable holds what its file or its place in the code can hold.
SchedulerTypeOK == TypeOK /\ SpoolTypeOK

\* A request that entered the spool is never silently deleted: whatever dies
\* or is repeated, its file stays in one of the four directories.
NeverSilentlyDeleted == [][Spooled \subseteq Spooled']_allVars

\* A result in completed/ is backed by the ledger: its cycle is committed, the
\* account has reached it, its telemetry row is there.
CompletedIsBacked ==
    \A e \in Envelopes :
        results[e] # None =>
          /\ e.request \in committed
          /\ e.request \in telemetry
          /\ account_state # NoAccount
          /\ account_state.sequence >= e.request.final_account.sequence

\* Two cycles never commit from one account: a cycle that was interrupted after
\* its commit is finished before anything else can start where it started.
NoFork ==
    \A r, s \in committed : r.starting_account = s.starting_account => r = s

\* A committed cycle gets its telemetry row before a cycle of its successors
\* is committed: a crash leaves no hole in the forward record.
NoTelemetryHole ==
    \A r, s \in committed :
        s.starting_account = r.final_account => r \in telemetry

\* The promise in the docstring of PaperCycleEnvelope: while the account still
\* waits for a committed cycle, an envelope of it is in the spool to recover it.
CommitIsRecoverable ==
    \A e \in Envelopes :
        /\ e \in Spooled
        /\ e.request \in committed
        /\ account_state = e.request.starting_account
      => \E d \in spool["inbox"] \cup spool["processing"] : d.request = e.request

\* verify_scheduler raises when a request is in both archives.
ArchivesAreDisjoint ==
    \A e \in Envelopes : results[e] = None \/ errors[e] = None

\* In the absence of further crashes no spooled request is left behind: once
\* the account has come to the start of its cycle, or past it, it runs or is
\* found stale, and one that waits in vain for its account expires.
NoMoreCrashes == <>[](pass.at # "down")

HasItsAccount(e) ==
    /\ account_state # NoAccount
    /\ account_state.sequence >= e.request.starting_account.sequence

EveryRequestIsArchived ==
    NoMoreCrashes =>
      \A e \in Envelopes :
          (/\ e \in spool["inbox"] \cup spool["processing"]
           /\ HasItsAccount(e) \/ e.expires <= MaxTime)
            ~> (e \in completed \cup rejected)

\* A sealed cycle takes effect: after the last crash the account does not wait
\* for ever at the start of a cycle that committed, as long as the envelope of
\* that cycle has not expired.
LongLivedCyclesTakeEffect ==
    NoMoreCrashes =>
      \A e \in Envelopes :
          e.expires > MaxTime =>
            (e.request \in committed
               ~> account_state \notin {NoAccount, e.request.starting_account})
=============================================================================
