--------------------------- MODULE SchedulerProofs --------------------------
(***************************************************************************)
(* What holds of the scheduler beside any operators, and of a daemon that  *)
(* runs alone.  Every step of the scheduler is a step of the engine or     *)
(* leaves its files alone, so IInv holds throughout; on top of it come     *)
(* three invariants of the spool:                                          *)
(*   SpoolInv  what each place of a pass knows of its envelope and of the  *)
(*             call of run_paper_cycle it made;                            *)
(*   FileInv   that a request has one file, while nobody enqueues it again; *)
(*   SoloInv   that the cycle a crash cut short is the first to be run,    *)
(*             while nobody else runs cycles and nothing expires.          *)
(***************************************************************************)
EXTENDS Scheduler, PaperCycleProofs

-----------------------------------------------------------------------------
\* The ledger holds the cycle of an envelope, with its row and its account.
Backed(e) ==
    /\ e.request \in committed
    /\ e.request \in telemetry
    /\ account_state # NoAccount
    /\ account_state.sequence >= e.request.final_account.sequence

Handling ==
    { "judge", "run", "cycle", "complete", "result", "completed",
      "reject", "error", "rejected" }

\* The lock, the envelope at hand and the clock of a pass.
PassHolds ==
    /\ spool_lock = "daemon" <=> pass.at \notin {"idle", "starting", "down"}
    /\ spool_lock = "producer" => enqueueing \in Envelopes
    /\ pass.at \in Handling => pass.envelope \in Envelopes
    /\ pass.at \in {"reject", "error", "rejected"} => pass.resume # "idle"

\* The daemon is in a cycle only while its pass waits for one, and in that of
\* the envelope at hand.
CycleIsThePasses ==
    /\ pass.at # "cycle" => pc[Daemon] = "idle"
    /\ pass.at = "cycle" =>
         IF pc[Daemon] = "idle"
         THEN /\ outcome[Daemon] \in {"committed", "halt", "error"}
              /\ outcome[Daemon] # "error" => Backed(pass.envelope)
         ELSE request[Daemon] = pass.envelope.request

ResultIsBacked == pass.at \in {"complete", "result"} => Backed(pass.envelope)

SpoolInv ==
    /\ IInv
    /\ SchedulerTypeOK
    /\ PassHolds
    /\ CycleIsThePasses
    /\ ResultIsBacked
    /\ CompletedIsBacked

-----------------------------------------------------------------------------
\* Where the file of a request is.
FilesAreApart ==
    /\ spool["inbox"] \cap spool["processing"] = {}
    /\ completed \cap rejected = {}
    /\ (spool["inbox"] \cup spool["processing"]) \cap (completed \cup rejected) = {}

ArchivesAreWhole ==
    \A e \in Envelopes :
        /\ results[e] # None => e \in completed
        /\ errors[e] # None => e \in rejected

\* Where the file of the envelope at hand is.
FileAtHand ==
    /\ pass.at \in {"judge", "reject"} => pass.envelope \in spool[pass.folder]
    /\ pass.at \in {"run", "cycle", "complete"} => pass.envelope \in spool["processing"]
    /\ pass.at = "result" => pass.envelope \in completed /\ results[pass.envelope] = None
    /\ pass.at = "error" => pass.envelope \in rejected

\* The candidates not looked at are where they were listed.
CandidatesStand ==
    /\ \A c \in pass.candidates :
         /\ c[2] \in spool[c[1]]
         /\ pass.at \in {"judge", "reject"} => c[2] # pass.envelope
    /\ \/ pass.at \in {"scan", "judge"}
       \/ pass.at \in {"reject", "error", "rejected"} /\ pass.resume = "scan"
       \/ pass.candidates = {}

FileInv == FilesAreApart /\ ArchivesAreWhole /\ FileAtHand /\ CandidatesStand

-----------------------------------------------------------------------------
\* A daemon alone on its strategy root, a journal that is not torn, and
\* envelopes that do not expire within the life of the model.
DaemonAlone ==
    /\ Runners = {Daemon}
    /\ MayTear = FALSE
    /\ \A e \in Envelopes : e.expires > MaxTime

\* The cycle the account waits for is that of an envelope in processing/.
WaitedFor(r) == r \in committed /\ account_state \in {NoAccount, r.starting_account}

InProcessing(r) == \E d \in spool["processing"] : d.request = r

\* At most one envelope is in processing/, and it may be run.
OneInterrupted ==
    /\ \A d, e \in spool["processing"] : d = e
    /\ \A d \in spool["processing"] :
         /\ d.not_before <= now
         /\ pass.at \notin {"idle", "down"} => d.not_before <= pass.time
         /\ d.request \in committed \/ account_state = d.request.starting_account
    /\ pass.time <= now

\* Candidates are due, and those of processing/ are still there.
CandidatesAreDue ==
    \/ pass.at \in {"scan", "judge"}
    \/ pass.at \in {"reject", "error", "rejected"} /\ pass.resume = "scan"
  => \A c \in pass.candidates :
       /\ c[2].not_before <= pass.time
       /\ c[1] = "processing" => c[2] \in spool["processing"]

\* It comes before every other one.
InterruptedFirst ==
    /\ pass.at = "scan" =>
         \A d \in spool["processing"] : <<"processing", d>> \in pass.candidates
    /\ pass.at = "judge" =>
         /\ pass.envelope.not_before <= pass.time
         /\ pass.marker <=> pass.envelope.request \in committed
         /\ IF pass.folder = "inbox"
            THEN spool["processing"] = {}
            ELSE pass.envelope \in spool["processing"]
    /\ pass.at \in {"run", "cycle", "complete"} => pass.envelope \in spool["processing"]
    /\ pass.at \in {"result", "completed", "next"} => spool["processing"] = {}
    /\ pass.at \in {"reject", "error", "rejected"} =>
         /\ pass.resume # "expire"
         /\ pass.resume = "scan" => pass.folder = "inbox" /\ spool["processing"] = {}
         /\ pass.resume = "next" =>
              /\ spool["processing"] \subseteq {pass.envelope}
              /\ pass.folder = "processing"
              /\ pass.at # "reject" => spool["processing"] = {}

\* A call of run_paper_cycle that is over has not left its cycle half done.
CallIsOver ==
    \/ pass.at = "cycle" /\ pc[Daemon] = "idle"
    \/ pass.at = "complete"
    \/ pass.at = "reject" /\ pass.resume = "next"

SoloInv ==
    /\ ~ torn
    /\ account_state = NoAccount => committed = {}
    /\ \A r \in committed : r.starting_account.sequence <= account_state.sequence
    /\ \A r \in committed : WaitedFor(r) => InProcessing(r)
    /\ CallIsOver => ~ WaitedFor(pass.envelope.request)
    /\ OneInterrupted
    /\ CandidatesAreDue
    /\ InterruptedFirst

-----------------------------------------------------------------------------
\* Requests of one account history: no two cycles end in one account, and every
\* cycle but the first moves the clock.
ClockAdvances ==
    \A r, s \in Requests :
        /\ r.final_account = s.final_account => r = s
        /\ r.starting_account.sequence > 0 =>
             r.final_account.as_of > r.starting_account.as_of

\* No row is later than the account, and only the last cycle has its time.
RowsPrecede ==
    \A t \in telemetry :
        /\ t.final_account.as_of <= account_state.as_of
        /\ t.final_account.as_of = account_state.as_of => t.final_account = account_state

RowIsDue(r) ==
    /\ account_state \in {r.starting_account, r.final_account}
    /\ InProcessing(r)

RowInv ==
    /\ RowsPrecede
    /\ \A r \in committed \ telemetry : RowIsDue(r)
    /\ CallIsOver => pass.envelope.request \notin committed \ telemetry
    /\ NoTelemetryHole

LEMMA RestingTyped ==
    /\ Resting \in Memory
    /\ Resting.at = "idle" /\ Resting.time = 0
    /\ Resting.envelope = NoEnvelope /\ Resting.candidates = {}
<1>1. 0 \in 0..MaxTime /\ 0 \in 0..MaxItems
  BY SchedulerAssumption
<1> QED BY <1>1 DEF Resting, Memory, PassLocations, Folders, Reasons

LEMMA MarkMemory ==
    ASSUME pass \in Memory, NEW mark \in BOOLEAN
    PROVE  /\ [pass EXCEPT !.at = "cycle", !.restored = mark] \in Memory
           /\ \A f \in Folders, e \in Envelopes, c \in SUBSET (Folders \X Envelopes) :
                [pass EXCEPT !.at = "judge", !.candidates = c, !.folder = f,
                             !.envelope = e, !.marker = mark] \in Memory
  BY DEF Memory, PassLocations

LEMMA RejectingMemory ==
    ASSUME pass \in Memory, NEW f \in Folders, NEW e \in Envelopes, NEW reason \in Reasons,
           NEW resume \in {"expire", "scan", "next"}, Rejecting(f, e, reason, resume)
    PROVE  /\ pass' \in Memory
           /\ pass'.at = "reject" /\ pass'.folder = f /\ pass'.envelope = e
           /\ pass'.resume = resume /\ pass'.items = pass.items /\ pass'.time = pass.time
           /\ pass'.candidates = pass.candidates
  BY DEF Memory, Rejecting, PassLocations

LEMMA StartPassTypes ==
    ASSUME SpoolTypeOK, PassHolds, StartPass
    PROVE  SpoolTypeOK' /\ PassHolds'
<1>1. pass' \in Memory
  BY RestingTyped DEF StartPass, At, SpoolTypeOK, Memory, PassLocations
<1>2. pass'.at = "starting"
  BY RestingTyped DEF StartPass, Memory
<1> QED BY <1>1, <1>2 DEF SpoolTypeOK, PassHolds, StartPass, At, SpoolOnly, archives,
     Handling

LEMMA LockSpoolTypes ==
    ASSUME SpoolTypeOK, PassHolds, LockSpool
    PROVE  SpoolTypeOK' /\ PassHolds'
<1>1. MaxItems \in 1..MaxItems /\ MaxItems \in 0..MaxItems
  BY SchedulerAssumption
<1>2. pass' \in Memory /\ pass'.at = "expire" /\ pass'.items = MaxItems
  BY <1>1 DEF LockSpool, SpoolTypeOK, Memory, PassLocations
<1> QED BY <1>1, <1>2
        DEF SpoolTypeOK, PassHolds, LockSpool, At, SpoolOnly, archives, Handling

LEMMA RejectExpiredTypes ==
    ASSUME SpoolTypeOK, PassHolds, RejectExpired
    PROVE  SpoolTypeOK' /\ PassHolds'
<1>1. PICK f \in Folders : \E e \in spool[f] : Rejecting(f, e, "expired", "expire")
  BY DEF RejectExpired
<1>2. PICK e \in Envelopes : Rejecting(f, e, "expired", "expire")
  BY <1>1 DEF SpoolTypeOK
<1>3. /\ pass' \in Memory /\ pass'.at = "reject" /\ pass'.envelope = e
      /\ pass'.resume = "expire" /\ pass'.items = pass.items
  BY <1>2, RejectingMemory DEF SpoolTypeOK, Reasons
<1> QED BY <1>3 DEF SpoolTypeOK, PassHolds, RejectExpired, At, SpoolOnly, archives, Handling

LEMMA LookForMarkerTypes ==
    ASSUME SpoolTypeOK, PassHolds, LookForMarker
    PROVE  SpoolTypeOK' /\ PassHolds'
<1>1. PICK c \in pass.candidates :
        pass' = [pass EXCEPT !.at = "judge", !.candidates = @ \ {c}, !.folder = c[1],
                             !.envelope = c[2], !.marker = c[2].request \in committed]
  BY Zenon DEF LookForMarker
<1>2. pass.candidates \in SUBSET (Folders \X Envelopes)
  BY DEF SpoolTypeOK, Memory
<1>3. c[1] \in Folders /\ c[2] \in Envelopes /\ pass.candidates \ {c} \in SUBSET (Folders \X Envelopes)
  BY <1>2
<1>4. (c[2].request \in committed) \in BOOLEAN /\ "judge" \in PassLocations /\ pass \in Memory
  BY DEF PassLocations, SpoolTypeOK
<1>5. pass' \in Memory
  BY <1>1, <1>3, <1>4, MarkMemory, Zenon
<1>6. pass'.at = "judge" /\ pass'.envelope = c[2] /\ pass'.items = pass.items
  BY <1>1, <1>4 DEF Memory
<1> QED BY <1>3, <1>5, <1>6 DEF SpoolTypeOK, PassHolds, LookForMarker, At, SpoolOnly,
     archives, Handling

LEMMA ClaimNextTypes ==
    ASSUME SpoolTypeOK, PassHolds, ClaimNext
    PROVE  SpoolTypeOK' /\ PassHolds'
<1>1. /\ pass' = [pass EXCEPT !.at = "run", !.folder = "processing", !.marker = FALSE,
                              !.candidates = {}]
      /\ pass.at = "judge"
  BY DEF ClaimNext, At
<1>2. pass' \in Memory
  BY <1>1 DEF SpoolTypeOK, Memory, PassLocations, Folders
<1>3. pass'.at = "run" /\ pass'.envelope = pass.envelope /\ pass'.items = pass.items
  BY <1>1 DEF SpoolTypeOK, Memory
<1>4. pass.envelope \in Envelopes
  BY <1>1 DEF PassHolds, Handling
<1>5. spool' \in [Folders -> SUBSET Envelopes]
  BY <1>4 DEF ClaimNext, SpoolTypeOK, Folders
<1> QED BY <1>1, <1>2, <1>3, <1>4, <1>5
        DEF SpoolTypeOK, PassHolds, ClaimNext, At, SpoolOnly, archives, Handling

LEMMA NextItemTypes ==
    ASSUME SpoolTypeOK, PassHolds, NextItem
    PROVE  SpoolTypeOK' /\ PassHolds'
<1>1. pass.at = "next" /\ pass.items \in 1..MaxItems /\ pass.time \in 0..MaxTime
  BY DEF NextItem, At, SpoolTypeOK, Memory
<1>2. CASE pass.items > 1
  <2>1. pass.items - 1 \in 1..MaxItems /\ pass.items - 1 \in 0..MaxItems
    BY <1>1, <1>2, SchedulerAssumption
  <2>2. pass' = [Resting EXCEPT !.at = "expire", !.time = pass.time,
                                !.items = pass.items - 1]
    BY <1>2 DEF NextItem
  <2>3. pass' \in Memory
    BY <1>1, <2>1, <2>2, RestingTyped DEF Memory, PassLocations
  <2>4. pass'.at = "expire" /\ pass'.items = pass.items - 1 /\ pass'.envelope = NoEnvelope
    BY <2>2, RestingTyped DEF Memory
  <2> QED BY <1>1, <1>2, <2>1, <2>3, <2>4
          DEF SpoolTypeOK, PassHolds, NextItem, At, SpoolOnly, archives, Handling
<1>3. CASE ~ (pass.items > 1)
  <2>1. pass' = Resting /\ spool_lock' = "free"
    BY <1>3 DEF NextItem, EndPass
  <2>2. pass' \in Memory /\ pass'.at = "idle"
    BY <2>1, RestingTyped
  <2> QED BY <1>1, <2>1, <2>2
          DEF SpoolTypeOK, PassHolds, NextItem, At, SpoolOnly, archives, Handling
<1> QED BY <1>2, <1>3

LEMMA RunCycleTypes ==
    ASSUME SpoolTypeOK, PassHolds, RunCycle
    PROVE  SpoolTypeOK' /\ PassHolds'
<1>1. /\ pass.at = "run" /\ pass \in Memory
      /\ pass' = [pass EXCEPT !.at = "cycle", !.restored = pass.envelope.request \in committed]
  BY Zenon DEF RunCycle, At, SpoolTypeOK
<1>2. (pass.envelope.request \in committed) \in BOOLEAN /\ "cycle" \in PassLocations
  BY DEF PassLocations
<1>3. pass' \in Memory
  <2>1. \A mark \in BOOLEAN : [pass EXCEPT !.at = "cycle", !.restored = mark] \in Memory
    BY <1>1, MarkMemory
  <2> QED BY <1>1, <1>2, <2>1, Zenon
<1>4. pass'.at = "cycle" /\ pass'.envelope = pass.envelope /\ pass'.items = pass.items
  BY <1>1 DEF Memory
<1> QED BY <1>1, <1>3, <1>4 DEF SpoolTypeOK, PassHolds, RunCycle, At, SpoolOnly,
     archives, Handling

LEMMA CycleReturnsTypes ==
    ASSUME SpoolTypeOK, PassHolds, CycleReturns
    PROVE  SpoolTypeOK' /\ PassHolds'
<1>1. pass.at = "cycle" /\ pass \in Memory /\ pass.envelope \in Envelopes
  BY DEF CycleReturns, At, SpoolTypeOK, PassHolds, Handling
<1>2. /\ pass' \in Memory /\ pass'.envelope = pass.envelope /\ pass'.items = pass.items
      /\ \/ pass'.at = "complete"
         \/ pass'.at = "reject" /\ pass'.resume = "next"
  <2>1. CASE outcome[Daemon] = "error"
    <3>1. Rejecting("processing", pass.envelope, "error", "next")
      BY <2>1 DEF CycleReturns
    <3> QED BY <1>1, <3>1, RejectingMemory DEF Folders, Reasons
  <2>2. CASE outcome[Daemon] # "error"
    BY <1>1, <2>2 DEF CycleReturns, Memory, PassLocations
  <2> QED BY <2>1, <2>2
<1> QED BY <1>1, <1>2 DEF SpoolTypeOK, PassHolds, CycleReturns, At, SpoolOnly, archives,
     Handling

LEMMA DaemonCrashTypes ==
    ASSUME SpoolTypeOK, PassHolds, DaemonCrash
    PROVE  SpoolTypeOK' /\ PassHolds'
<1>1. pass' \in Memory /\ pass'.at = "down"
  BY RestingTyped DEF DaemonCrash, Memory, PassLocations
<1> QED BY <1>1 DEF SpoolTypeOK, PassHolds, DaemonCrash, archives, Handling

\* The other steps, by what they do to the files of the spool.
LEMMA OtherTypes ==
    ASSUME SpoolTypeOK, PassHolds, outcome \in [Runners -> Outcomes],
           \/ Tick \/ LogEnqueued \/ ProducerCrash
           \/ RestartDaemon \/ SpoolLockTimeout \/ ListCandidates \/ LeaveWaiting
           \/ RejectStale \/ NothingToClaim \/ AccountLockTimeout
           \/ ArchiveCompleted \/ WriteResult \/ ResultConflict \/ LogCompleted
           \/ ArchiveRejected \/ WriteError \/ ErrorConflict \/ LogRejected
    PROVE  SpoolTypeOK' /\ PassHolds'
<1> USE SchedulerAssumption, RestingTyped
    DEF SpoolTypeOK, PassHolds, At, SpoolOnly, archives, Memory, PassLocations, Handling
<1>1. CASE Tick
  BY <1>1 DEF Tick
<1>2. CASE LogEnqueued
  BY <1>2 DEF LogEnqueued, Log, LoggedTypes
<1>3. CASE ProducerCrash
  BY <1>3 DEF ProducerCrash
<1>4. CASE RestartDaemon
  BY <1>4 DEF RestartDaemon
<1>5. CASE SpoolLockTimeout
  BY <1>5 DEF SpoolLockTimeout
<1>6. CASE ListCandidates
  BY <1>6 DEF ListCandidates, Folders
<1>7. CASE LeaveWaiting
  BY <1>7 DEF LeaveWaiting
<1>8. CASE RejectStale
  BY <1>8 DEF RejectStale, Rejecting, Reasons, Folders
<1>9. CASE NothingToClaim
  BY <1>9 DEF NothingToClaim, EndPass
<1>10. CASE AccountLockTimeout
  BY <1>10 DEF AccountLockTimeout, EndPass, Folders
<1>11. CASE ArchiveCompleted
  BY <1>11 DEF ArchiveCompleted, Folders
<1>12. CASE WriteResult
  BY <1>12 DEF WriteResult, Result, ResultFiles
<1>13. CASE ResultConflict
  BY <1>13 DEF ResultConflict, Rejecting, Reasons, Folders
<1>14. CASE LogCompleted
  BY <1>14 DEF LogCompleted, Log, LoggedTypes
<1>15. CASE ArchiveRejected
  BY <1>15 DEF ArchiveRejected, Folders
<1>16. CASE WriteError
  BY <1>16 DEF WriteError, Error, ErrorFiles, Reasons
<1>17. CASE ErrorConflict
  BY <1>17 DEF ErrorConflict, EndPass
<1>18. CASE LogRejected
  BY <1>18 DEF LogRejected, Log, LoggedTypes
<1> QED BY <1>1, <1>2, <1>3, <1>4, <1>5, <1>6, <1>7, <1>8, <1>9, <1>10, <1>11, <1>12,
     <1>13, <1>14, <1>15, <1>16, <1>17, <1>18

LEMMA EnqueueTypes ==
    ASSUME SpoolTypeOK, PassHolds, NEW e \in Envelopes, Enqueue(e)
    PROVE  SpoolTypeOK' /\ PassHolds'
  BY DEF SpoolTypeOK, PassHolds, Enqueue, archives, Folders

-----------------------------------------------------------------------------
\* Every step of the scheduler is a step of the engine or a stutter of it.
LEMMA EngineStep ==
    ASSUME PassHolds, SchedulerNext
    PROVE  [Next]_vars
<1>1. Daemon \in Runners
  BY SchedulerAssumption
<1>2. CASE \/ Tick \/ LogEnqueued \/ ProducerCrash
           \/ RestartDaemon \/ StartPass \/ LockSpool \/ SpoolLockTimeout
           \/ RejectExpired \/ ListCandidates
           \/ LookForMarker \/ ClaimNext \/ LeaveWaiting \/ RejectStale \/ NothingToClaim
           \/ AccountLockTimeout \/ CycleReturns
           \/ ArchiveCompleted \/ WriteResult \/ ResultConflict \/ LogCompleted \/ NextItem
           \/ ArchiveRejected \/ WriteError \/ ErrorConflict \/ LogRejected
  BY <1>2 DEF Tick, LogEnqueued, ProducerCrash, RestartDaemon, StartPass, LockSpool,
     SpoolLockTimeout, RejectExpired, ListCandidates, LookForMarker, ClaimNext,
     LeaveWaiting, RejectStale, NothingToClaim, AccountLockTimeout, CycleReturns,
     ArchiveCompleted, WriteResult, ResultConflict, LogCompleted, NextItem,
     ArchiveRejected, WriteError, ErrorConflict, LogRejected, SpoolOnly, cycleVars
<1>3. ASSUME NEW e \in Envelopes, Enqueue(e) PROVE UNCHANGED vars
  BY <1>3 DEF Enqueue, cycleVars
<1>4. CASE RunCycle
  <2>1. pass.envelope.request \in Requests
    BY <1>4, EnvelopesAssumption DEF RunCycle, At, PassHolds, Handling
  <2> QED BY <1>1, <1>4, <2>1 DEF RunCycle, Next
<1>5. CASE CycleStep(Daemon) /\ UNCHANGED spoolVars
  BY <1>1, <1>5 DEF Next
<1>6. CASE DaemonCrash
  BY <1>1, <1>6 DEF DaemonCrash, Next, cycleVars
<1>7. ASSUME NEW p \in Runners \ {Daemon}, OperatorStep(p) PROVE Next
  BY <1>7 DEF OperatorStep, Next
<1> QED BY <1>2, <1>3, <1>4, <1>5, <1>6, <1>7 DEF SchedulerNext, DaemonStep

\* What backs a result stays: markers and rows are never taken away, and the
\* account only moves on.
LEMMA BackedStays ==
    ASSUME IInv, [Next]_vars, NEW e \in Envelopes, Backed(e)
    PROVE  Backed(e)'
<1>1. committed \subseteq committed' /\ telemetry \subseteq telemetry'
  BY DEF vars, files, control, Next, Acquire, Crash, CycleStep, BeginCycle, RefuseCycle,
     WriteArtifact, ArtifactsWritten, BeginAppend, RefuseAppend, WriteLine, LinesWritten,
     WriteCommitMarker, WriteAccount, AppendTelemetry, RefuseTelemetry, RestoreCycle,
     RefuseRestore
<1>2. CASE account_state' = account_state
  BY <1>1, <1>2 DEF Backed
<1>3. ASSUME NEW r \in committed, account_state = r.starting_account,
             account_state' = r.final_account
      PROVE  Backed(e)'
  <2>1. /\ r \in Requests /\ e.request \in Requests
        /\ account_state \in Accounts /\ account_state' \in Accounts
    BY <1>3, RequestsAssumption, EnvelopesAssumption DEF IInv, TypeOK
  <2>2. /\ account_state.sequence \in Nat /\ account_state'.sequence \in Nat
        /\ account_state'.sequence > account_state.sequence
        /\ e.request.final_account.sequence \in Nat
        /\ account_state' # NoAccount
    BY <1>3, <2>1, RequestsAssumption, AccountsAssumption
  <2> QED BY <1>1, <2>2 DEF Backed
<1> QED BY <1>2, <1>3, AccountSteps DEF Backed

\* A step that leaves the engine, the results and the place of the pass alone,
\* or keeps it away from a cycle and its result.
LEMMA QuietStep ==
    ASSUME SpoolInv, UNCHANGED <<cycleVars, results>>,
           \/ UNCHANGED pass
           \/ pass.at # "cycle" /\ pass'.at \notin {"cycle", "complete", "result"}
    PROVE  CycleIsThePasses' /\ ResultIsBacked' /\ CompletedIsBacked'
<1>1. UNCHANGED <<account_state, committed, telemetry, pc, request, outcome, results>>
  BY DEF cycleVars, vars, files, control
<1> QED BY <1>1 DEF SpoolInv, CycleIsThePasses, ResultIsBacked, CompletedIsBacked, Backed

LEMMA QuietActions ==
    ASSUME SpoolInv,
           \/ Tick \/ LogEnqueued \/ ProducerCrash \/ \E e \in Envelopes : Enqueue(e)
           \/ RestartDaemon \/ StartPass \/ LockSpool \/ SpoolLockTimeout
           \/ RejectExpired \/ ListCandidates
           \/ LookForMarker \/ ClaimNext \/ LeaveWaiting \/ RejectStale \/ NothingToClaim
           \/ AccountLockTimeout \/ ResultConflict \/ LogCompleted \/ NextItem
           \/ ArchiveRejected \/ WriteError \/ ErrorConflict \/ LogRejected
    PROVE  CycleIsThePasses' /\ ResultIsBacked' /\ CompletedIsBacked'
<1> DEFINE Quiet == /\ UNCHANGED <<cycleVars, results>>
                    /\ \/ UNCHANGED pass
                       \/ /\ pass.at # "cycle"
                          /\ pass'.at \notin {"cycle", "complete", "result"}
<1>1. pass \in Memory
  BY DEF SpoolInv, SchedulerTypeOK, SpoolTypeOK
<1>2. CASE Tick \/ LogEnqueued \/ ProducerCrash \/ \E e \in Envelopes : Enqueue(e)
  BY <1>2, QuietStep DEF Tick, LogEnqueued, ProducerCrash, Enqueue, archives
<1>3. CASE \/ RestartDaemon \/ StartPass \/ LockSpool \/ SpoolLockTimeout
           \/ RejectExpired \/ ListCandidates
  <2>1. Quiet
    BY <1>1, <1>3, RestingTyped DEF Memory, At, SpoolOnly, archives, RestartDaemon,
         StartPass,
       LockSpool, SpoolLockTimeout, RejectExpired, Rejecting, ListCandidates
  <2> QED BY <2>1, QuietStep
<1>4. CASE LookForMarker \/ ClaimNext \/ LeaveWaiting \/ RejectStale \/ NothingToClaim
  <2>1. Quiet
    BY <1>1, <1>4, RestingTyped DEF Memory, At, SpoolOnly, archives, LookForMarker,
         ClaimNext,
       LeaveWaiting, RejectStale, Rejecting, NothingToClaim, EndPass
  <2> QED BY <2>1, QuietStep
<1>5. CASE \/ AccountLockTimeout \/ ResultConflict \/ LogCompleted \/ NextItem
           \/ ArchiveRejected \/ WriteError \/ ErrorConflict \/ LogRejected
  <2>1. Quiet
    BY <1>1, <1>5, RestingTyped DEF Memory, At, SpoolOnly, archives, AccountLockTimeout,
       ResultConflict, Rejecting, LogCompleted, NextItem, EndPass, ArchiveRejected,
       WriteError, ErrorConflict, LogRejected
  <2> QED BY <2>1, QuietStep
<1> QED BY <1>2, <1>3, <1>4, <1>5

\* The pass that waits for run_paper_cycle, and the cycle it waits for.
LEMMA CycleActions ==
    ASSUME SpoolInv, PassHolds', IInv', [Next]_vars,
           RunCycle \/ DaemonCrash \/ (CycleStep(Daemon) /\ UNCHANGED spoolVars)
    PROVE  CycleIsThePasses' /\ ResultIsBacked' /\ CompletedIsBacked'
<1> DEFINE e == pass.envelope
<1>1. /\ pass \in Memory /\ Daemon \in Runners /\ IInv
      /\ pc \in [Runners -> Locations] /\ request \in [Runners -> Requests \cup {NoRequest}]
      /\ outcome \in [Runners -> Outcomes]
  BY SchedulerAssumption DEF SpoolInv, SchedulerTypeOK, SpoolTypeOK, IInv, TypeOK
<1>2. results' = results
  BY DEF RunCycle, DaemonCrash, spoolVars, archives
<1>3. CompletedIsBacked'
  <2>1. \A f \in Envelopes : results[f] # None => Backed(f)
    BY DEF SpoolInv, CompletedIsBacked, Backed
  <2>2. \A f \in Envelopes : results[f] # None => Backed(f)'
    BY <1>1, <2>1, BackedStays
  <2> QED BY <1>2, <2>2 DEF CompletedIsBacked, Backed
<1>4. CASE RunCycle
  <2>1. pass'.at = "cycle" /\ pass'.envelope = e
    BY <1>1, <1>4 DEF RunCycle, At, Memory
  <2>2. pc'[Daemon] = "locked" /\ request'[Daemon] = e.request
    BY <1>1, <1>4 DEF RunCycle, Acquire
  <2> QED BY <1>3, <2>1, <2>2 DEF CycleIsThePasses, ResultIsBacked
<1>5. CASE DaemonCrash
  <2>1. pass'.at = "down"
    BY <1>5, RestingTyped DEF DaemonCrash, Memory
  <2>2. pc'[Daemon] = "idle"
    BY <1>1, <1>5 DEF DaemonCrash, Crash, Return, cycleVars, vars, control
  <2> QED BY <1>3, <2>1, <2>2 DEF CycleIsThePasses, ResultIsBacked
<1>6. CASE CycleStep(Daemon) /\ UNCHANGED spoolVars
  <2>1. pass' = pass
    BY <1>6 DEF spoolVars
  <2>2. pc[Daemon] # "idle"
    BY <1>6 DEF CycleStep, BeginCycle, RefuseCycle, WriteArtifact, ArtifactsWritten,
       BeginAppend, RefuseAppend, WriteLine, LinesWritten, WriteCommitMarker, WriteAccount,
       AppendTelemetry, RefuseTelemetry, RestoreCycle, RefuseRestore
  <2>3. pass.at = "cycle" /\ request[Daemon] = e.request /\ e \in Envelopes
    BY <2>2 DEF SpoolInv, CycleIsThePasses, PassHolds, Handling
  <2>4. \/ pc'[Daemon] # "idle" /\ request'[Daemon] = request[Daemon]
        \/ pc'[Daemon] = "idle" /\ outcome'[Daemon] = "error"
        \/ AppendTelemetry(Daemon)
    BY <1>1, <1>6, <2>2 DEF CycleStep, BeginCycle, RefuseCycle, WriteArtifact,
         ArtifactsWritten,
       BeginAppend, RefuseAppend, WriteLine, LinesWritten, WriteCommitMarker, WriteAccount,
       RefuseTelemetry, RestoreCycle, RefuseRestore, Goto, Return, files, control, Locations
  <2>5. ASSUME AppendTelemetry(Daemon)
        PROVE  /\ pc'[Daemon] = "idle" /\ outcome'[Daemon] \in {"committed", "halt"}
               /\ Backed(e)'
    <3>1. /\ e.request \in committed /\ account_state = e.request.final_account
          /\ e.request \in Requests
      BY <1>1, <2>3, <2>5, EnvelopesAssumption
      DEF IInv, HolderHasChecked, Checked, AppendTelemetry
    <3>2. e.request \in telemetry' /\ e.request \in committed' /\ account_state' = account_state
      BY <2>3, <2>5, <3>1 DEF AppendTelemetry
    <3>3. account_state # NoAccount /\ account_state.sequence \in Nat
      BY <3>1, RequestsAssumption, AccountsAssumption
    <3>4. pc'[Daemon] = "idle" /\ outcome'[Daemon] \in {"committed", "halt"}
      BY <1>1, <2>5 DEF AppendTelemetry, Return
    <3> QED BY <2>1, <3>1, <3>2, <3>3, <3>4 DEF Backed
  <2>6. CycleIsThePasses'
    BY <2>1, <2>3, <2>4, <2>5 DEF CycleIsThePasses, Backed
  <2> QED BY <1>3, <2>1, <2>3, <2>6 DEF ResultIsBacked
<1> QED BY <1>4, <1>5, <1>6

\* Where a call that is over goes to completed/ or to rejected/.
LEMMA ReturnActions ==
    ASSUME SpoolInv, PassHolds', CycleReturns \/ ArchiveCompleted \/ WriteResult
    PROVE  CycleIsThePasses' /\ ResultIsBacked' /\ CompletedIsBacked'
<1>1. /\ pass \in Memory /\ results \in [Envelopes -> ResultFiles \cup {None}]
      /\ pass.envelope \in Envelopes
  BY DEF SpoolInv, SchedulerTypeOK, SpoolTypeOK, PassHolds, Handling, At, CycleReturns,
     ArchiveCompleted, WriteResult
<1>2. UNCHANGED <<account_state, committed, telemetry, pc, request, outcome>>
  BY DEF CycleReturns, ArchiveCompleted, WriteResult, SpoolOnly, cycleVars, vars, files,
       control
<1>3. CASE CycleReturns
  <2>1. CASE outcome[Daemon] = "error"
    <3>1. pass'.at = "reject" /\ results' = results /\ pc[Daemon] = "idle"
      BY <1>1, <1>3, <2>1 DEF CycleReturns, Rejecting, Memory, archives
    <3> QED BY <1>2, <3>1 DEF SpoolInv, CycleIsThePasses, ResultIsBacked, CompletedIsBacked
  <2>2. CASE outcome[Daemon] # "error"
    <3>1. /\ pass'.at = "complete" /\ results' = results /\ pc[Daemon] = "idle"
          /\ pass'.envelope = pass.envelope /\ pass.at = "cycle"
      BY <1>1, <1>3, <2>2 DEF CycleReturns, At, Memory, archives
    <3>2. Backed(pass.envelope)
      BY <2>2, <3>1 DEF SpoolInv, CycleIsThePasses
    <3> QED BY <1>2, <3>1, <3>2
            DEF SpoolInv, CycleIsThePasses, ResultIsBacked, CompletedIsBacked, Backed
  <2> QED BY <2>1, <2>2
<1>4. CASE ArchiveCompleted
  <2>1. /\ pass'.at = "result" /\ results' = results /\ pass.at = "complete"
        /\ pass'.envelope = pass.envelope
    BY <1>1, <1>4 DEF ArchiveCompleted, At, Memory
  <2> QED BY <1>2, <2>1
          DEF SpoolInv, CycleIsThePasses, ResultIsBacked, CompletedIsBacked, Backed
<1>5. CASE WriteResult
  <2>1. /\ pass'.at = "completed" /\ pass.at = "result"
        /\ results' = [results EXCEPT ![pass.envelope] = Result]
    BY <1>1, <1>5 DEF WriteResult, At, Memory
  <2>2. Backed(pass.envelope)
    BY <2>1 DEF SpoolInv, ResultIsBacked
  <2>3. \A f \in Envelopes \ {pass.envelope} : results'[f] = results[f]
    BY <1>1, <2>1
  <2> QED BY <1>2, <2>1, <2>2, <2>3
          DEF SpoolInv, CycleIsThePasses, ResultIsBacked, CompletedIsBacked, Backed
<1> QED BY <1>3, <1>4, <1>5

\* An operator's cycle moves the ledger on, and nothing of the daemon.
LEMMA OperatorActions ==
    ASSUME SpoolInv, [Next]_vars, NEW p \in Runners \ {Daemon}, OperatorStep(p)
    PROVE  CycleIsThePasses' /\ ResultIsBacked' /\ CompletedIsBacked'
<1>1. /\ Daemon \in Runners /\ IInv
      /\ pc \in [Runners -> Locations] /\ request \in [Runners -> Requests \cup {NoRequest}]
      /\ outcome \in [Runners -> Outcomes]
  BY SchedulerAssumption DEF SpoolInv, IInv, TypeOK
<1>2. pass' = pass /\ results' = results
  BY DEF OperatorStep, spoolVars, archives
<1>3. pc'[Daemon] = pc[Daemon] /\ request'[Daemon] = request[Daemon]
        /\ outcome'[Daemon] = outcome[Daemon]
  BY <1>1 DEF OperatorStep, Acquire, Crash, CycleStep, BeginCycle, RefuseCycle,
     WriteArtifact, ArtifactsWritten, BeginAppend, RefuseAppend, WriteLine, LinesWritten,
     WriteCommitMarker, WriteAccount, AppendTelemetry, RefuseTelemetry, RestoreCycle,
     RefuseRestore, Goto, Return, files, control
<1>4. \A f \in Envelopes : Backed(f) => Backed(f)'
  BY <1>1, BackedStays
<1>5. CompletedIsBacked'
  BY <1>2, <1>4 DEF SpoolInv, CompletedIsBacked, Backed
<1>6. pass.at \in {"cycle", "complete", "result"} => pass.envelope \in Envelopes
  BY DEF SpoolInv, PassHolds, Handling
<1>7. CycleIsThePasses' /\ ResultIsBacked'
  BY <1>2, <1>3, <1>4, <1>6 DEF SpoolInv, CycleIsThePasses, ResultIsBacked, Backed
<1> QED BY <1>5, <1>7

-----------------------------------------------------------------------------
LEMMA SpoolInitInv == SchedulerInit => SpoolInv
<1> SUFFICES ASSUME SchedulerInit PROVE SpoolInv
  OBVIOUS
<1>1. IInv /\ TypeOK
  BY InitInv DEF SchedulerInit, IInv
<1>2. SpoolTypeOK
  BY RestingTyped, SchedulerAssumption DEF SchedulerInit, SpoolTypeOK
<1>3. PassHolds
  BY RestingTyped DEF SchedulerInit, PassHolds, Handling
<1>4. CycleIsThePasses /\ ResultIsBacked
  BY RestingTyped, SchedulerAssumption
  DEF SchedulerInit, Init, CycleIsThePasses, ResultIsBacked
<1>5. CompletedIsBacked
  BY DEF SchedulerInit, CompletedIsBacked
<1> QED BY <1>1, <1>2, <1>3, <1>4, <1>5 DEF SpoolInv, SchedulerTypeOK

LEMMA SpoolStepInv == SpoolInv /\ [SchedulerNext]_allVars => SpoolInv'
<1> SUFFICES ASSUME SpoolInv, [SchedulerNext]_allVars PROVE SpoolInv'
  OBVIOUS
<1>1. CASE UNCHANGED allVars
  <2>1. UNCHANGED vars /\ IInv
    BY <1>1 DEF allVars, cycleVars, SpoolInv
  <2>2. IInv'
    BY <2>1, StepInv
  <2>3. SpoolTypeOK' /\ PassHolds'
    BY <1>1 DEF allVars, spoolVars, archives, SpoolInv, SchedulerTypeOK, SpoolTypeOK,
         PassHolds
  <2>4. CycleIsThePasses' /\ ResultIsBacked' /\ CompletedIsBacked'
    BY <1>1, QuietStep DEF allVars, spoolVars, archives
  <2> QED BY <2>2, <2>3, <2>4 DEF SpoolInv, SchedulerTypeOK, IInv
<1>2. CASE SchedulerNext
  <2>1. IInv /\ PassHolds /\ SpoolTypeOK /\ outcome \in [Runners -> Outcomes]
    BY DEF SpoolInv, SchedulerTypeOK, IInv, TypeOK
  <2>2. [Next]_vars
    BY <1>2, <2>1, EngineStep
  <2>3. IInv'
    BY <2>1, <2>2, StepInv
  <2>4. ASSUME \/ CycleStep(Daemon) /\ UNCHANGED spoolVars
               \/ \E p \in Runners \ {Daemon} : OperatorStep(p)
        PROVE  SpoolTypeOK' /\ PassHolds'
    BY <2>1, <2>4 DEF OperatorStep, spoolVars, archives, SpoolTypeOK, PassHolds
  <2>5. SpoolTypeOK' /\ PassHolds'
    BY <1>2, <2>1, <2>4, EnqueueTypes, StartPassTypes, LockSpoolTypes, RejectExpiredTypes,
       LookForMarkerTypes, ClaimNextTypes, NextItemTypes, RunCycleTypes, CycleReturnsTypes,
       DaemonCrashTypes, OtherTypes
    DEF SchedulerNext, DaemonStep
  <2>6. CycleIsThePasses' /\ ResultIsBacked' /\ CompletedIsBacked'
    BY <1>2, <2>2, <2>3, <2>5, QuietActions, CycleActions, ReturnActions, OperatorActions
    DEF SchedulerNext, DaemonStep
  <2> QED BY <2>3, <2>5, <2>6 DEF SpoolInv, SchedulerTypeOK, IInv
<1> QED BY <1>1, <1>2

\* The invariant of the spool, beside any operators, with envelopes enqueued
\* again or not.
THEOREM SpoolInvariance == SchedulerSpec => []SpoolInv
  BY SpoolInitInv, SpoolStepInv, PTL DEF SchedulerSpec

\* Every file of the spool and the memory of a pass are what the code can produce.
THEOREM SchedulerTypeCorrect == SchedulerSpec => []SchedulerTypeOK
<1>1. SpoolInv => SchedulerTypeOK
  BY DEF SpoolInv
<1> QED BY <1>1, SpoolInvariance, PTL

\* A result file in completed/ speaks of a cycle the ledger holds, whoever else
\* runs cycles and whenever the daemon dies.
THEOREM ResultsAreBacked == SchedulerSpec => []CompletedIsBacked
<1>1. SpoolInv => CompletedIsBacked
  BY DEF SpoolInv
<1> QED BY <1>1, SpoolInvariance, PTL

\* The scheduler runs the engine: all that is proved of Spec holds beside it.
THEOREM SchedulerRunsTheEngine == SchedulerSpec => Spec
<1>1. SchedulerInit => Init
  BY DEF SchedulerInit
<1>2. SpoolInv /\ [SchedulerNext]_allVars => [Next]_vars
  BY EngineStep DEF SpoolInv, allVars, cycleVars
<1> QED BY <1>1, <1>2, SpoolInvariance, PTL DEF SchedulerSpec, Spec

-----------------------------------------------------------------------------
\* No step of producers, daemon, operators or crashes makes the file of a
\* request vanish from all four directories.
THEOREM NothingIsDeleted == SchedulerSpec => NeverSilentlyDeleted
<1>1. SpoolInv /\ [SchedulerNext]_allVars => Spooled \subseteq Spooled'
  <2> SUFFICES ASSUME SpoolInv, [SchedulerNext]_allVars PROVE Spooled \subseteq Spooled'
    OBVIOUS
  <2>1. /\ spool \in [Folders -> SUBSET Envelopes]
        /\ pass.folder \in Folders
    BY DEF SpoolInv, SchedulerTypeOK, SpoolTypeOK, Memory
  <2>2. CASE ArchiveCompleted
    BY <2>1, <2>2 DEF ArchiveCompleted, Spooled, Folders
  <2>3. CASE ArchiveRejected
    BY <2>1, <2>3 DEF ArchiveRejected, Spooled, Folders
  <2>4. CASE ClaimNext \/ AccountLockTimeout
    BY <2>4 DEF ClaimNext, AccountLockTimeout, archives, Spooled
  <2>5. ASSUME NEW e \in Envelopes, Enqueue(e) PROVE Spooled \subseteq Spooled'
    BY <2>1, <2>5 DEF Enqueue, archives, Spooled, Folders
  <2>6. ASSUME [SchedulerNext]_allVars, ~ ArchiveCompleted, ~ ArchiveRejected,
               ~ ClaimNext, ~ AccountLockTimeout, ~ \E e \in Envelopes : Enqueue(e)
        PROVE  UNCHANGED <<spool, completed, rejected>>
    BY <2>6 DEF SchedulerNext, allVars, spoolVars, archives, Tick, LogEnqueued,
       ProducerCrash, DaemonStep, RestartDaemon, StartPass, LockSpool, SpoolLockTimeout,
       RejectExpired, ListCandidates, LookForMarker, LeaveWaiting, RejectStale,
       NothingToClaim, RunCycle, CycleReturns, WriteResult, ResultConflict, LogCompleted,
       NextItem, WriteError, ErrorConflict, LogRejected, DaemonCrash, OperatorStep
  <2> QED BY <2>2, <2>3, <2>4, <2>5, <2>6 DEF Spooled
<1> QED BY <1>1, SpoolInvariance, PTL DEF SchedulerSpec, NeverSilentlyDeleted
LEMMA BackedIsOver ==
    ASSUME NEW e \in Envelopes, Backed(e), account_state \in Accounts
    PROVE  ~ WaitedFor(e.request)
<1>1. /\ e.request.final_account.sequence \in Nat
      /\ e.request.starting_account.sequence \in Nat
      /\ e.request.final_account.sequence > e.request.starting_account.sequence
  BY EnvelopesAssumption, RequestsAssumption, AccountsAssumption
<1> QED BY <1>1, AccountsAssumption DEF Backed, WaitedFor

\* candidates.sort() puts processing/ before inbox/.
LEMMA ProcessingFirst ==
    ASSUME NEW c \in Folders \X Envelopes, NEW d \in Folders \X Envelopes,
           c[1] = "inbox", d[1] = "processing"
    PROVE  ~ Before(c, d)
<1> DEFINE key(x) == <<Priority(x), x[2].not_before, x[2].created, x[2].request_id>>
<1>1. key(c)[1] = 1 /\ key(d)[1] = 0
  BY DEF Priority
<1>2. ASSUME NEW i \in 1..4, key(c)[i] < key(d)[i],
             \A j \in 1..(i - 1) : key(c)[j] = key(d)[j]
      PROVE  FALSE
  <2>1. CASE i = 1
    BY <1>1, <1>2, <2>1
  <2>2. CASE i > 1
    BY <1>1, <1>2, <2>2
  <2> QED BY <2>1, <2>2
<1> HIDE DEF key
<1> QED BY <1>2 DEF Before, key


LEMMA SoloSpool ==
    ASSUME SpoolInv, SoloInv, DaemonAlone,
           \/ StartPass \/ LockSpool \/ SpoolLockTimeout \/ ListCandidates
           \/ NothingToClaim \/ ArchiveCompleted \/ WriteResult \/ ResultConflict
           \/ LogCompleted \/ NextItem \/ ArchiveRejected \/ WriteError \/ ErrorConflict
           \/ LogRejected \/ RestartDaemon
    PROVE  SoloInv'
<1> USE SchedulerAssumption, RestingTyped
    DEF SoloInv, SpoolInv, SchedulerTypeOK, SpoolTypeOK, PassHolds, At
<1>1. spool \in [Folders -> SUBSET Envelopes] /\ pass \in Memory
  OBVIOUS
<1>2. UNCHANGED <<now, account_state, committed, torn, pc>>
  BY DEF StartPass, LockSpool, SpoolLockTimeout, ListCandidates, NothingToClaim,
     ArchiveCompleted, WriteResult, ResultConflict, LogCompleted, NextItem, ArchiveRejected,
     WriteError, ErrorConflict, LogRejected, RestartDaemon, SpoolOnly, cycleVars, vars,
     files, control
<1>3. account_state = NoAccount \/ account_state \in Accounts
  BY DEF TypeOK
<1>4. CASE StartPass
  BY <1>1, <1>2, <1>4 DEF StartPass, OneInterrupted, CandidatesAreDue, InterruptedFirst,
       CallIsOver, WaitedFor,
     InProcessing, archives, Memory
<1>5. CASE LockSpool
  BY <1>1, <1>2, <1>5 DEF LockSpool, OneInterrupted, CandidatesAreDue, InterruptedFirst,
       CallIsOver, WaitedFor,
     InProcessing, archives, Memory
<1>6. CASE SpoolLockTimeout
  BY <1>1, <1>2, <1>6 DEF SpoolLockTimeout, OneInterrupted, CandidatesAreDue,
       InterruptedFirst, CallIsOver, WaitedFor,
     InProcessing, archives, Memory
<1>7. CASE ListCandidates
  BY <1>1, <1>2, <1>7 DEF ListCandidates, OneInterrupted, CandidatesAreDue,
       InterruptedFirst, CallIsOver, WaitedFor,
     InProcessing, archives, Memory, Folders
<1>8. CASE NothingToClaim
  BY <1>1, <1>2, <1>8 DEF NothingToClaim, OneInterrupted, CandidatesAreDue,
       InterruptedFirst, CallIsOver, WaitedFor,
     InProcessing, archives, Memory, EndPass
<1>9. CASE ArchiveCompleted
  BY <1>1, <1>2, <1>9 DEF ArchiveCompleted, OneInterrupted, CandidatesAreDue,
       InterruptedFirst, CallIsOver, WaitedFor,
     InProcessing, archives, Memory, Folders
<1>10. CASE WriteResult
  BY <1>1, <1>2, <1>10 DEF WriteResult, OneInterrupted, CandidatesAreDue,
       InterruptedFirst, CallIsOver, WaitedFor,
     InProcessing, archives, Memory
<1>11. CASE LogCompleted
  BY <1>1, <1>2, <1>11 DEF LogCompleted, OneInterrupted, CandidatesAreDue,
       InterruptedFirst, CallIsOver, WaitedFor,
     InProcessing, archives, Memory
<1>12. CASE NextItem
  <2>1. /\ pass'.at \in {"expire", "idle"} /\ pass'.time \in {0, pass.time}
        /\ pass.at = "next" /\ spool' = spool /\ pass.time \in 0..MaxTime
        /\ pass'.at = "expire" => pass'.time = pass.time
    BY <1>1, <1>12 DEF NextItem, EndPass, Memory
  <2> QED BY <1>2, <2>1 DEF OneInterrupted, CandidatesAreDue, InterruptedFirst,
       CallIsOver, WaitedFor, InProcessing
<1>13. CASE ArchiveRejected
  BY <1>1, <1>2, <1>13 DEF ArchiveRejected, OneInterrupted, CandidatesAreDue,
       InterruptedFirst, CallIsOver, WaitedFor,
     InProcessing, archives, Memory, Folders
<1>14. CASE WriteError
  BY <1>1, <1>2, <1>14 DEF WriteError, OneInterrupted, CandidatesAreDue,
       InterruptedFirst, CallIsOver, WaitedFor,
     InProcessing, archives, Memory
<1>15. CASE ErrorConflict
  BY <1>1, <1>2, <1>15 DEF ErrorConflict, OneInterrupted, CandidatesAreDue,
       InterruptedFirst, CallIsOver, WaitedFor,
     InProcessing, archives, Memory, EndPass
<1>16. CASE LogRejected
  BY <1>1, <1>2, <1>16 DEF LogRejected, OneInterrupted, CandidatesAreDue,
       InterruptedFirst, CallIsOver, WaitedFor,
     InProcessing, archives, Memory
<1>17. CASE RestartDaemon
  BY <1>1, <1>2, <1>17 DEF RestartDaemon, OneInterrupted, CandidatesAreDue,
       InterruptedFirst, CallIsOver, WaitedFor,
     InProcessing, archives, Memory
<1>18. CASE ResultConflict
  <2>1. ~ WaitedFor(pass.envelope.request)
    BY <1>3, <1>18, BackedIsOver DEF ResultConflict, ResultIsBacked, Backed, Handling
  <2>2. /\ pass.at = "result" /\ spool' = spool
        /\ pass'.at = "reject" /\ pass'.resume = "next" /\ pass'.folder = "processing"
        /\ pass'.envelope = pass.envelope /\ pass'.time = pass.time
    BY <1>1, <1>18 DEF ResultConflict, Rejecting, Memory
  <2> QED BY <1>2, <2>1, <2>2 DEF OneInterrupted, CandidatesAreDue, InterruptedFirst,
       CallIsOver,
          WaitedFor, InProcessing
<1> QED BY <1>4, <1>5, <1>6, <1>7, <1>8, <1>9, <1>10, <1>11, <1>12, <1>13, <1>14, <1>15,
     <1>16, <1>17, <1>18

LEMMA SoloQuiet ==
    ASSUME SpoolInv, SoloInv, DaemonAlone,
           \/ Tick \/ LogEnqueued \/ ProducerCrash \/ \E e \in Envelopes : Enqueue(e)
    PROVE  SoloInv'
<1>1. /\ UNCHANGED <<account_state, committed, torn, pc, pass>>
      /\ spool'["processing"] = spool["processing"] /\ spool["inbox"] \subseteq spool'["inbox"]
      /\ now \in Nat /\ now' \in Nat /\ now <= now'
      /\ pass \in Memory
  BY SchedulerAssumption DEF Tick, LogEnqueued, ProducerCrash, Enqueue, archives,
       cycleVars, vars, files, control,
     SpoolInv, SchedulerTypeOK, SpoolTypeOK, Folders
<1>2. \A e \in Envelopes : e.not_before \in Nat
  BY EnvelopesAssumption
<1>3. pass.folder \in {"processing", "inbox"} /\ pass.time \in Nat /\ spool["processing"] \subseteq Envelopes
  BY <1>1, SchedulerAssumption DEF Memory, Folders, SpoolInv, SchedulerTypeOK, SpoolTypeOK
<1> QED BY <1>1, <1>2, <1>3 DEF SoloInv, OneInterrupted, CandidatesAreDue,
     InterruptedFirst, CallIsOver, WaitedFor,
           InProcessing

\* What is judged: an interrupted envelope may always be claimed.
LEMMA SoloJudge ==
    ASSUME SpoolInv, SoloInv, DaemonAlone,
           \/ RejectExpired \/ LookForMarker \/ ClaimNext \/ LeaveWaiting \/ RejectStale
    PROVE  SoloInv'
<1>1. /\ spool \in [Folders -> SUBSET Envelopes] /\ pass \in Memory /\ pass.folder \in Folders
      /\ pass.time \in 0..MaxTime /\ now \in 0..MaxTime
      /\ pass.candidates \subseteq Folders \X Envelopes
      /\ pass.at = "judge" => pass.envelope \in Envelopes
  BY DEF SpoolInv, SchedulerTypeOK, SpoolTypeOK, Memory, PassHolds, Handling
<1>2. UNCHANGED <<now, account_state, committed, torn, pc>>
  BY DEF RejectExpired, LookForMarker, ClaimNext, LeaveWaiting, RejectStale, At, SpoolOnly,
     cycleVars, vars, files, control
<1>3. CASE RejectExpired
  <2>1. PICK f \in Folders : \E e \in spool[f] : Expired(e)
    BY <1>3 DEF RejectExpired
  <2>2. PICK e \in Envelopes : Expired(e)
    BY <1>1, <2>1
  <2>3. e.expires \in Nat /\ e.expires > MaxTime
    BY EnvelopesAssumption DEF DaemonAlone
  <2> QED BY <1>1, <2>2, <2>3, SchedulerAssumption DEF Expired
<1>4. CASE LookForMarker
  <2>1. PICK c \in pass.candidates :
          /\ Foremost(c)
          /\ pass' = [pass EXCEPT !.at = "judge", !.candidates = @ \ {c}, !.folder = c[1],
                                  !.envelope = c[2], !.marker = c[2].request \in committed]
    BY <1>4, Zenon DEF LookForMarker
  <2>2. c \in Folders \X Envelopes /\ c[1] \in Folders /\ c[2] \in Envelopes
    BY <1>1
  <2>3. /\ pass'.at = "judge" /\ pass'.folder = c[1] /\ pass'.envelope = c[2]
        /\ pass'.marker = (c[2].request \in committed) /\ pass'.time = pass.time
    BY <1>1, <2>1 DEF Memory
  <2>4. spool' = spool /\ pass.at = "scan"
    BY <1>4 DEF LookForMarker, At
  <2>5. c[1] = "inbox" => spool["processing"] = {}
    <3> SUFFICES ASSUME c[1] = "inbox", NEW d \in spool["processing"] PROVE FALSE
      OBVIOUS
    <3>1. <<"processing", d>> \in pass.candidates \ {c}
      BY <2>4 DEF SoloInv, InterruptedFirst
    <3>2. Before(c, <<"processing", d>>)
      BY <2>1, <3>1 DEF Foremost
    <3>3. <<"processing", d>> \in Folders \X Envelopes
      BY <1>1, <3>1
    <3> QED BY <2>2, <3>2, <3>3, ProcessingFirst
  <2>6. /\ \A d \in pass'.candidates : d \in pass.candidates
        /\ c[2].not_before <= pass.time
        /\ c[1] # "inbox" => c[2] \in spool["processing"]
    BY <1>1, <2>1, <2>2, <2>4 DEF Memory, SoloInv, CandidatesAreDue, Folders
  <2> QED BY <1>2, <2>3, <2>4, <2>5, <2>6
          DEF SoloInv, OneInterrupted, CandidatesAreDue, InterruptedFirst, CallIsOver,
               WaitedFor, InProcessing
<1>5. ASSUME pass.at = "judge", pass.folder = "processing"
      PROVE  MayClaim(pass.envelope)
  BY <1>1, <1>5 DEF SoloInv, OneInterrupted, InterruptedFirst, MayClaim
<1>6. CASE ClaimNext
  <2>1. /\ pass'.at = "run" /\ pass'.envelope = pass.envelope /\ pass'.time = pass.time
        /\ pass.at = "judge" /\ MayClaim(pass.envelope)
    BY <1>1, <1>6 DEF ClaimNext, At, Memory
  <2>2. /\ spool'["processing"] = spool["processing"] \cup {pass.envelope}
        /\ spool["processing"] \subseteq {pass.envelope}
    BY <1>1, <1>6, <2>1 DEF ClaimNext, SoloInv, OneInterrupted, InterruptedFirst
  <2>3. /\ pass.envelope.not_before <= pass.time /\ pass.time <= now
        /\ pass.envelope.not_before \in Nat /\ pass.time \in Nat /\ now \in Nat
    BY <1>1, <2>1, SchedulerAssumption, EnvelopesAssumption
    DEF SoloInv, OneInterrupted, InterruptedFirst
  <2>4. \/ pass.envelope.request \in committed
        \/ account_state = pass.envelope.request.starting_account
    BY <2>1 DEF MayClaim, SoloInv, InterruptedFirst
  <2> QED BY <1>2, <2>1, <2>2, <2>3, <2>4
          DEF SoloInv, OneInterrupted, CandidatesAreDue, InterruptedFirst, CallIsOver,
               WaitedFor, InProcessing
<1>7. CASE LeaveWaiting
  <2>1. /\ pass'.at = "scan" /\ pass'.time = pass.time /\ pass'.candidates = pass.candidates
        /\ pass.at = "judge" /\ ~ MayClaim(pass.envelope) /\ spool' = spool
    BY <1>1, <1>7 DEF LeaveWaiting, At, Memory
  <2>2. spool["processing"] = {}
    BY <1>1, <1>5, <2>1 DEF Folders, SoloInv, InterruptedFirst
  <2> QED BY <1>1, <1>2, <2>1, <2>2
          DEF SoloInv, OneInterrupted, CandidatesAreDue, InterruptedFirst, CallIsOver,
               WaitedFor, InProcessing
<1>8. CASE RejectStale
  <2>1. /\ pass'.at = "reject" /\ pass'.time = pass.time /\ pass'.folder = pass.folder
        /\ pass'.resume = "scan" /\ pass'.candidates = pass.candidates
        /\ pass.at = "judge" /\ ~ MayClaim(pass.envelope) /\ spool' = spool
    BY <1>1, <1>8 DEF RejectStale, Rejecting, At, Memory
  <2>2. spool["processing"] = {} /\ pass.folder = "inbox"
    BY <1>1, <1>5, <2>1 DEF Folders, SoloInv, InterruptedFirst
  <2> QED BY <1>1, <1>2, <2>1, <2>2
          DEF SoloInv, OneInterrupted, CandidatesAreDue, InterruptedFirst, CallIsOver,
               WaitedFor, InProcessing
<1> QED BY <1>3, <1>4, <1>6, <1>7, <1>8

\* The call of run_paper_cycle: nobody else holds the account.
LEMMA SoloCall ==
    ASSUME SpoolInv, SoloInv, DaemonAlone, AccountLockTimeout \/ CycleReturns
    PROVE  SoloInv'
<1>1. /\ spool \in [Folders -> SUBSET Envelopes] /\ pass \in Memory
      /\ pass.at = "cycle" => pass.envelope \in Envelopes
  BY DEF SpoolInv, SchedulerTypeOK, SpoolTypeOK, PassHolds, Handling
<1>2. CASE AccountLockTimeout
  <2>1. pc[Daemon] = "idle" /\ lock = Daemon
    BY <1>2, SchedulerAssumption
    DEF AccountLockTimeout, At, SpoolInv, CycleIsThePasses, IInv, TypeOK, DaemonAlone
  <2> QED BY <2>1, SchedulerAssumption DEF SpoolInv, IInv, OnlyHolderRuns
<1>3. CASE CycleReturns
  <2>1. UNCHANGED <<now, account_state, committed, torn, pc, spool>>
    BY <1>3 DEF CycleReturns, At, SpoolOnly, cycleVars, vars, files, control
  <2>2. /\ pass.at = "cycle" /\ pc[Daemon] = "idle"
        /\ pass'.envelope = pass.envelope /\ pass'.time = pass.time
        /\ \/ pass'.at = "complete"
           \/ pass'.at = "reject" /\ pass'.resume = "next" /\ pass'.folder = "processing"
    BY <1>1, <1>3 DEF CycleReturns, At, Rejecting, Memory
  <2> QED BY <1>1, <2>1, <2>2
          DEF SoloInv, OneInterrupted, CandidatesAreDue, InterruptedFirst, CallIsOver,
               WaitedFor, InProcessing
<1> QED BY <1>2, <1>3

-----------------------------------------------------------------------------
\* The cycle the daemon is in: its envelope is the only one in processing/.
LEMMA SoloHolder ==
    ASSUME SpoolInv, SoloInv, DaemonAlone, CycleStep(Daemon)
    PROVE  /\ pass.at = "cycle" /\ pc[Daemon] # "idle"
           /\ request[Daemon] = pass.envelope.request
           /\ pass.envelope \in Envelopes /\ pass.envelope.request \in Requests
           /\ spool["processing"] = {pass.envelope}
           /\ \A s : InProcessing(s) <=> s = pass.envelope.request
<1>1. pc[Daemon] # "idle"
  BY DEF CycleStep, BeginCycle, RefuseCycle, WriteArtifact, ArtifactsWritten, BeginAppend,
     RefuseAppend, WriteLine, LinesWritten, WriteCommitMarker, WriteAccount,
     AppendTelemetry,
     RefuseTelemetry, RestoreCycle, RefuseRestore
<1>2. pass.at = "cycle" /\ request[Daemon] = pass.envelope.request
  BY <1>1 DEF SpoolInv, CycleIsThePasses
<1>3. pass.envelope \in Envelopes /\ pass.envelope.request \in Requests
  BY <1>2, EnvelopesAssumption DEF SpoolInv, PassHolds, Handling
<1>4. spool["processing"] = {pass.envelope}
  BY <1>2 DEF SoloInv, OneInterrupted, InterruptedFirst
<1> QED BY <1>1, <1>2, <1>3, <1>4 DEF InProcessing

\* What a step of it does to the ledger, and how it may end.
LEMMA SoloEffect ==
    ASSUME SpoolInv, SoloInv, DaemonAlone, CycleStep(Daemon),
           NEW r, r = pass.envelope.request
    PROVE  /\ torn' = torn
           /\ \/ /\ UNCHANGED <<account_state, committed, telemetry>>
                 /\ pc'[Daemon] = "idle" => ~ WaitedFor(r)
              \/ /\ AppendTelemetry(Daemon) /\ pc'[Daemon] = "idle"
                 /\ UNCHANGED <<account_state, committed>>
                 /\ r \in committed /\ account_state = r.final_account
                 /\ telemetry' = telemetry \cup {r}
              \/ /\ r \notin committed /\ account_state = r.starting_account
                 /\ committed' = committed \cup {r}
                 /\ UNCHANGED <<account_state, telemetry>>
                 /\ pc'[Daemon] # "idle"
              \/ /\ r \in committed
                 /\ account_state \in {r.starting_account, r.final_account}
                 /\ account_state' = r.final_account
                 /\ UNCHANGED <<committed, telemetry>>
                 /\ pc'[Daemon] # "idle"
<1>1. /\ pass.at = "cycle" /\ request[Daemon] = r /\ r \in Requests
      /\ spool["processing"] = {pass.envelope}
  BY SoloHolder
<1>2. /\ Daemon \in Runners /\ IInv /\ ~ torn /\ Checked(r, pc[Daemon])
      /\ pc \in [Runners -> Locations]
      /\ account_state = NoAccount => committed = {}
  BY <1>1, SchedulerAssumption DEF SpoolInv, SoloInv, IInv, TypeOK, HolderHasChecked
<1>3. r.starting_account # NoAccount /\ r.final_account # NoAccount
        /\ r.starting_account # r.final_account
  BY <1>1, RequestsAssumption, AccountsAssumption
<1>4. CASE \/ BeginCycle(Daemon) \/ WriteArtifact(Daemon) \/ ArtifactsWritten(Daemon)
           \/ BeginAppend(Daemon) \/ WriteLine(Daemon) \/ LinesWritten(Daemon)
  BY <1>2, <1>4 DEF BeginCycle, WriteArtifact, ArtifactsWritten, BeginAppend, WriteLine,
     LinesWritten, Goto, files, control
<1>5. CASE RefuseCycle(Daemon) \/ RefuseAppend(Daemon)
  BY <1>1, <1>2, <1>5 DEF RefuseCycle, RefuseAppend, Checked, WaitedFor, files
<1>6. CASE RefuseTelemetry(Daemon)
  BY <1>1, <1>2, <1>3, <1>6 DEF RefuseTelemetry, Checked, WaitedFor, files
<1>7. CASE RefuseRestore(Daemon)
  <2>1. r \in committed /\ ~ (EvidenceIntact(r) /\ MayRestoreAccount(r))
    BY <1>1, <1>7 DEF RefuseRestore
  <2>2. ~ WaitedFor(r)
    BY <1>2, <2>1 DEF WaitedFor, IInv, EvidenceBeforeCommit, EvidenceIntact,
         MayRestoreAccount
  <2> QED BY <1>2, <1>7, <2>2 DEF RefuseRestore, files
<1>8. CASE AppendTelemetry(Daemon)
  BY <1>1, <1>2, <1>8 DEF AppendTelemetry, Return, Checked
<1>9. CASE WriteCommitMarker(Daemon)
  <2>1. r \notin committed
    BY <1>2, <1>9 DEF WriteCommitMarker, Checked
  <2>2. account_state = r.starting_account
    BY <1>1, <2>1 DEF SoloInv, OneInterrupted
  <2> QED BY <1>1, <1>2, <1>9, <2>1, <2>2 DEF WriteCommitMarker, Goto
<1>10. CASE WriteAccount(Daemon) \/ RestoreCycle(Daemon)
  BY <1>1, <1>2, <1>10 DEF WriteAccount, RestoreCycle, MayRestoreAccount, Checked, Goto
<1> QED BY <1>4, <1>5, <1>6, <1>7, <1>8, <1>9, <1>10 DEF CycleStep

LEMMA SoloCycle ==
    ASSUME SpoolInv, SoloInv, DaemonAlone, CycleStep(Daemon), UNCHANGED spoolVars
    PROVE  SoloInv'
<1> DEFINE r == pass.envelope.request
<1>1. /\ pass.at = "cycle" /\ pc[Daemon] # "idle" /\ r \in Requests
      /\ spool["processing"] = {pass.envelope}
      /\ \A s : InProcessing(s) <=> s = r
  BY SoloHolder
<1>2. pass' = pass /\ spool' = spool /\ now' = now
  BY DEF spoolVars
<1>3. /\ \A s : InProcessing(s)' <=> s = r
      /\ CallIsOver' => pc'[Daemon] = "idle"
  BY <1>1, <1>2 DEF InProcessing, CallIsOver
<1>4. ~ torn'
  BY SoloEffect DEF SoloInv
<1>5. /\ committed \subseteq Requests
      /\ account_state = NoAccount => committed = {}
      /\ \A s \in committed : s.starting_account.sequence <= account_state.sequence
      /\ \A s \in committed : WaitedFor(s) => s = r
  BY <1>1 DEF SoloInv, SpoolInv, IInv, TypeOK
<1>6. /\ r.starting_account \in Accounts /\ r.final_account \in Accounts
      /\ r.starting_account # NoAccount /\ r.final_account # NoAccount
      /\ r.starting_account.sequence \in Nat /\ r.final_account.sequence \in Nat
      /\ r.starting_account.sequence < r.final_account.sequence
      /\ \A s \in committed : s.starting_account.sequence \in Nat
  BY <1>1, <1>5, RequestsAssumption, AccountsAssumption
<1>7. CandidatesAreDue' /\ InterruptedFirst' /\ (pass.time <= now)'
  BY <1>1, <1>2 DEF SoloInv, CandidatesAreDue, InterruptedFirst, OneInterrupted
<1>8. ASSUME committed \subseteq committed', account_state' = account_state \/ r \in committed'
      PROVE  OneInterrupted'
  BY <1>1, <1>2, <1>8 DEF SoloInv, OneInterrupted
<1>9. CASE /\ UNCHANGED <<account_state, committed>>
           /\ pc'[Daemon] = "idle" => ~ WaitedFor(r)
  <2>1. /\ \A s \in committed' : WaitedFor(s)' => InProcessing(s)'
        /\ CallIsOver' => ~ WaitedFor(r)'
    BY <1>3, <1>5, <1>9 DEF WaitedFor
  <2> QED BY <1>2, <1>4, <1>5, <1>7, <1>8, <1>9, <2>1 DEF SoloInv, WaitedFor
<1>10. CASE /\ r \notin committed /\ account_state = r.starting_account
            /\ committed' = committed \cup {r} /\ account_state' = account_state
            /\ pc'[Daemon] # "idle"
  <2>1. \A s \in committed' : WaitedFor(s)' => InProcessing(s)'
    BY <1>3, <1>5, <1>10 DEF WaitedFor
  <2> QED BY <1>2, <1>3, <1>4, <1>5, <1>6, <1>7, <1>8, <1>10, <2>1 DEF SoloInv
<1>11. CASE /\ r \in committed
            /\ account_state \in {r.starting_account, r.final_account}
            /\ account_state' = r.final_account
            /\ committed' = committed /\ pc'[Daemon] # "idle"
  <2>1. \A s \in committed : ~ WaitedFor(s)'
    <3> SUFFICES ASSUME NEW s \in committed, s.starting_account = r.final_account
                 PROVE  FALSE
      BY <1>6, <1>11 DEF WaitedFor
    <3>1. account_state = r.final_account
      BY <1>5, <1>6, <1>11
    <3> QED BY <1>5, <1>6, <3>1 DEF WaitedFor
  <2>2. \A s \in committed : s.starting_account.sequence <= account_state'.sequence
    BY <1>5, <1>6, <1>11
  <2> QED BY <1>2, <1>3, <1>4, <1>6, <1>7, <1>8, <1>11, <2>1, <2>2 DEF SoloInv
<1>12. CASE /\ pc'[Daemon] = "idle" /\ UNCHANGED <<account_state, committed>>
            /\ account_state = r.final_account
  <2>1. ~ WaitedFor(r)
    BY <1>6, <1>12 DEF WaitedFor
  <2> QED BY <1>9, <1>12, <2>1
<1> HIDE DEF r
<1> QED BY <1>9, <1>10, <1>11, <1>12, SoloEffect DEF r

LEMMA SoloRunOrDie ==
    ASSUME SpoolInv, SoloInv, DaemonAlone, RunCycle \/ DaemonCrash
    PROVE  SoloInv'
<1>1. /\ pass \in Memory /\ Daemon \in Runners /\ pc \in [Runners -> Locations] /\ now \in 0..MaxTime
  BY SchedulerAssumption DEF SpoolInv, SchedulerTypeOK, SpoolTypeOK, TypeOK
<1>2. UNCHANGED <<now, account_state, committed, torn, spool>>
  BY DEF RunCycle, At, Acquire, DaemonCrash, Crash, DaemonAlone, cycleVars, vars, files
<1>3. CASE RunCycle
  <2>1. /\ pass'.at = "cycle" /\ pass.at = "run" /\ pass'.envelope = pass.envelope
        /\ pass'.time = pass.time /\ pc'[Daemon] = "locked"
    BY <1>1, <1>3 DEF RunCycle, At, Acquire, Memory
  <2> QED BY <1>2, <2>1 DEF SoloInv, OneInterrupted, CandidatesAreDue, InterruptedFirst,
          CallIsOver, WaitedFor, InProcessing
<1>4. CASE DaemonCrash
  <2>1. pass'.at = "down" /\ pass'.time = 0
    BY <1>4, RestingTyped DEF DaemonCrash, Memory
  <2> QED BY <1>1, <1>2, <2>1 DEF SoloInv, OneInterrupted, CandidatesAreDue,
       InterruptedFirst,
          CallIsOver, WaitedFor, InProcessing
<1> QED BY <1>3, <1>4

LEMMA SoloInit ==
    ASSUME SchedulerInit, DaemonAlone PROVE SoloInv
  BY RestingTyped DEF SchedulerInit, Init, SoloInv, OneInterrupted, CandidatesAreDue,
     InterruptedFirst, CallIsOver, Folders

LEMMA SoloStep ==
    ASSUME SpoolInv, SoloInv, DaemonAlone, [SchedulerNext]_allVars PROVE SoloInv'
<1>1. CASE UNCHANGED allVars
  BY <1>1 DEF allVars, cycleVars, vars, files, control, spoolVars, SoloInv, OneInterrupted,
     CandidatesAreDue, InterruptedFirst, CallIsOver, WaitedFor, InProcessing
<1>2. \A p \in Runners \ {Daemon} : FALSE
  BY DEF DaemonAlone
<1> QED BY <1>1, <1>2, SoloSpool, SoloQuiet, SoloJudge, SoloCall, SoloCycle, SoloRunOrDie
        DEF SchedulerNext, DaemonStep

\* Two cycles never commit from one account.
LEMMA ForkStep ==
    ASSUME SpoolInv, SoloInv, DaemonAlone, [SchedulerNext]_allVars, NoFork
    PROVE  NoFork'
<1>1. CASE CycleStep(Daemon)
  <2> DEFINE r == pass.envelope.request
  <2>1. /\ r.starting_account \in Accounts
        /\ \A s : InProcessing(s) <=> s = r
    BY <1>1, SoloHolder, RequestsAssumption
  <2>2. CASE committed' = committed
    BY <2>2 DEF NoFork
  <2>3. CASE /\ r \notin committed /\ account_state = r.starting_account
             /\ committed' = committed \cup {r}
    <3>1. \A s \in committed : s.starting_account # r.starting_account
      BY <2>1, <2>3 DEF SoloInv, WaitedFor
    <3> QED BY <2>3, <3>1 DEF NoFork
  <2> QED BY <1>1, <2>2, <2>3, SoloEffect
<1>2. CASE ~ CycleStep(Daemon)
  <2>1. committed' = committed
    BY <1>2 DEF SchedulerNext, allVars, cycleVars, vars, files, DaemonAlone, SpoolOnly,
         Tick,
       Enqueue, LogEnqueued, ProducerCrash, DaemonStep, RestartDaemon, StartPass, LockSpool,
       SpoolLockTimeout, RejectExpired, ListCandidates, LookForMarker, ClaimNext,
       LeaveWaiting,
       RejectStale, NothingToClaim, RunCycle, Acquire, AccountLockTimeout, CycleReturns,
       ArchiveCompleted, WriteResult, ResultConflict, LogCompleted, NextItem,
       ArchiveRejected,
       WriteError, ErrorConflict, LogRejected, DaemonCrash, Crash
  <2> QED BY <2>1 DEF NoFork
<1> QED BY <1>1, <1>2

\* The invariant of a daemon alone, whatever producers do and whenever it dies.
THEOREM SoloInvariance ==
    ASSUME DaemonAlone
    PROVE  SchedulerSpec => []SoloInv
<1>1. SchedulerInit => SoloInv
  BY SoloInit
<1>2. SpoolInv /\ SoloInv /\ [SchedulerNext]_allVars => SoloInv'
  BY SoloStep
<1> QED BY <1>1, <1>2, SpoolInvariance, PTL DEF SchedulerSpec

\* A daemon alone finishes the cycle it was in before it starts another from
\* the same account: no crash makes it commit two.
THEOREM NothingForks ==
    ASSUME DaemonAlone
    PROVE  SchedulerSpec => []NoFork
<1>1. SchedulerInit => NoFork
  BY DEF SchedulerInit, Init, NoFork
<1>2. SpoolInv /\ SoloInv /\ NoFork /\ [SchedulerNext]_allVars => NoFork'
  BY ForkStep
<1> QED BY <1>1, <1>2, SpoolInvariance, SoloInvariance, PTL DEF SchedulerSpec

\* The envelope of a cycle that a crash left between its marker and its account
\* is still in the spool, as long as no envelope expires.
THEOREM CommitsAreRecovered ==
    ASSUME DaemonAlone
    PROVE  SchedulerSpec => []CommitIsRecoverable
<1>1. SoloInv => CommitIsRecoverable
  BY DEF SoloInv, WaitedFor, InProcessing, CommitIsRecoverable
<1> QED BY <1>1, SoloInvariance, PTL

-----------------------------------------------------------------------------
LEMMA ReturnMoves ==
    ASSUME pass \in Memory, CycleReturns
    PROVE  /\ pass.at = "cycle" /\ spool' = spool /\ UNCHANGED archives
           /\ pass'.envelope = pass.envelope /\ pass'.candidates = pass.candidates
           /\ \/ pass'.at = "complete"
              \/ pass'.at = "reject" /\ pass'.folder = "processing"
<1>1. CASE outcome[Daemon] = "error"
  BY <1>1 DEF CycleReturns, At, Rejecting, Memory
<1>2. CASE outcome[Daemon] # "error"
  BY <1>2 DEF CycleReturns, At, Memory
<1> QED BY <1>1, <1>2

\* While nobody enqueues an envelope again, its file is in one place.
LEMMA FileStep ==
    ASSUME SpoolInv, FileInv, MayReenqueue = FALSE, [SchedulerNext]_allVars
    PROVE  FileInv'
<1> USE RestingTyped, SchedulerAssumption
    DEF FileInv, FilesAreApart, ArchivesAreWhole, FileAtHand, CandidatesStand, archives,
         Memory,
        PassHolds, Handling, At, Folders
<1>1. /\ spool \in [Folders -> SUBSET Envelopes] /\ pass \in Memory /\ PassHolds
      /\ results \in [Envelopes -> ResultFiles \cup {None}]
      /\ errors \in [Envelopes -> ErrorFiles \cup {None}]
  BY DEF SpoolInv, SchedulerTypeOK, SpoolTypeOK
<1>2. CASE UNCHANGED <<spool, archives, pass>>
  BY <1>2
<1>3. ASSUME NEW e \in Envelopes, Enqueue(e) PROVE FileInv'
  <2>1. /\ e \notin Spooled /\ UNCHANGED <<archives, pass>>
        /\ spool' = [spool EXCEPT !["inbox"] = @ \cup {e}]
    BY <1>3 DEF Enqueue
  <2> QED BY <1>1, <2>1 DEF Spooled
<1>4. CASE StartPass
  BY <1>1, <1>4 DEF StartPass
<1>5. CASE LockSpool
  BY <1>1, <1>5 DEF LockSpool
<1>6. CASE SpoolLockTimeout
  BY <1>1, <1>6 DEF SpoolLockTimeout
<1>7. CASE RejectExpired
  BY <1>1, <1>7 DEF RejectExpired, Rejecting
<1>8. CASE ListCandidates
  BY <1>1, <1>8 DEF ListCandidates
<1>9. CASE LookForMarker
  BY <1>1, <1>9 DEF LookForMarker, Foremost
<1>10. CASE ClaimNext
  BY <1>1, <1>10 DEF ClaimNext
<1>11. CASE LeaveWaiting
  BY <1>1, <1>11 DEF LeaveWaiting
<1>12. CASE RejectStale
  BY <1>1, <1>12 DEF RejectStale, Rejecting
<1>13. CASE NothingToClaim
  BY <1>1, <1>13 DEF NothingToClaim, EndPass
<1>14. CASE RunCycle
  BY <1>1, <1>14 DEF RunCycle
<1>15. CASE AccountLockTimeout
  BY <1>1, <1>15 DEF AccountLockTimeout, EndPass
<1>16. CASE ArchiveCompleted
  BY <1>1, <1>16 DEF ArchiveCompleted
<1>17. CASE WriteResult
  BY <1>1, <1>17 DEF WriteResult, None
<1>18. CASE ResultConflict
  BY <1>1, <1>18 DEF ResultConflict, Rejecting
<1>19. CASE LogCompleted
  BY <1>1, <1>19 DEF LogCompleted
<1>20. CASE ArchiveRejected
  BY <1>1, <1>20 DEF ArchiveRejected
<1>21. CASE WriteError
  BY <1>1, <1>21 DEF WriteError, None
<1>22. CASE ErrorConflict
  BY <1>1, <1>22 DEF ErrorConflict, EndPass
<1>23. CASE LogRejected
  BY <1>1, <1>23 DEF LogRejected
<1>24. CASE DaemonCrash
  BY <1>1, <1>24 DEF DaemonCrash
<1>25. CASE RestartDaemon
  BY <1>1, <1>25 DEF RestartDaemon
<1>26. CASE CycleReturns
  <2>1. /\ pass.at = "cycle" /\ spool' = spool /\ UNCHANGED archives
        /\ pass'.envelope = pass.envelope /\ pass'.candidates = pass.candidates
        /\ \/ pass'.at = "complete"
           \/ pass'.at = "reject" /\ pass'.folder = "processing"
    BY <1>1, <1>26, ReturnMoves
  <2> QED BY <2>1
<1>27. CASE NextItem
  <2>1. /\ pass.at = "next" /\ spool' = spool /\ UNCHANGED archives
        /\ pass'.at \in {"expire", "idle"} /\ pass'.candidates = {}
    BY <1>1, <1>27 DEF NextItem, EndPass
  <2> QED BY <2>1
<1> HIDE DEF FileInv
<1> QED BY <1>2, <1>3, <1>4, <1>5, <1>6, <1>7, <1>8, <1>9, <1>10, <1>11, <1>12, <1>13,
     <1>14, <1>15, <1>16, <1>17, <1>18, <1>19, <1>20, <1>21, <1>22, <1>23, <1>24, <1>25, <1>26, <1>27
        DEF SchedulerNext, DaemonStep, allVars, spoolVars, OperatorStep, Tick, LogEnqueued,
            ProducerCrash

\* Enqueued once, a request ends in one archive only.
THEOREM OneArchive ==
    ASSUME MayReenqueue = FALSE
    PROVE  SchedulerSpec => []ArchivesAreDisjoint
<1>1. SchedulerInit => FileInv
  BY RestingTyped DEF SchedulerInit, FileInv, FilesAreApart, ArchivesAreWhole, FileAtHand,
     CandidatesStand, Folders
<1>2. SpoolInv /\ FileInv /\ [SchedulerNext]_allVars => FileInv'
  BY FileStep
<1>3. FileInv => ArchivesAreDisjoint
  BY DEF FileInv, FilesAreApart, ArchivesAreWhole, ArchivesAreDisjoint
<1> QED BY <1>1, <1>2, <1>3, SpoolInvariance, PTL DEF SchedulerSpec

-----------------------------------------------------------------------------
\* The clock of the account has passed every row but its own.
LEMMA RowsStep ==
    ASSUME IInv, RowsPrecede, ClockAdvances, [Next]_vars
    PROVE  RowsPrecede'
<1>1. CASE account_state' = account_state
  <2>1. CASE telemetry' = telemetry
    BY <1>1, <2>1 DEF RowsPrecede
  <2>2. CASE \E p \in Runners : AppendTelemetry(p)
    <3>1. PICK r \in Requests : telemetry' = telemetry \cup {r} /\ account_state = r.final_account
      BY <2>2 DEF IInv, OnlyHolderRuns, HolderHasChecked, Checked, AppendTelemetry
    <3>2. r.final_account.as_of \in Nat
      BY RequestsAssumption, AccountsAssumption
    <3> QED BY <1>1, <3>1, <3>2 DEF RowsPrecede
  <2>3. ASSUME ~ \E p \in Runners : AppendTelemetry(p) PROVE telemetry' = telemetry
    BY <2>3 DEF Next, vars, files, Acquire, Crash, CycleStep, BeginCycle, RefuseCycle,
       WriteArtifact, ArtifactsWritten, BeginAppend, RefuseAppend, WriteLine, LinesWritten,
       WriteCommitMarker, WriteAccount, RefuseTelemetry, RestoreCycle, RefuseRestore
  <2> QED BY <2>1, <2>2, <2>3
<1>2. ASSUME NEW r \in committed, account_state \in {NoAccount, r.starting_account},
             account_state' = r.final_account, account_state' # account_state,
             telemetry' = telemetry
      PROVE  RowsPrecede'
  <2>1. /\ r \in Requests /\ telemetry \subseteq Requests
        /\ \A t \in telemetry : account_state # NoAccount
                                /\ t.final_account.sequence <= account_state.sequence
    BY <1>2 DEF IInv, TypeOK, TelemetryFollowsAccount
  <2>2. CASE telemetry = {}
    BY <1>2, <2>2 DEF RowsPrecede
  <2>3. CASE telemetry # {}
    <3>1. account_state = r.starting_account
      BY <1>2, <2>1, <2>3
    <3>2. \A t \in telemetry : /\ t.final_account.as_of \in Nat
                               /\ t.final_account.sequence \in Nat
                               /\ t.final_account.sequence > 0
      BY <2>1, RequestsAssumption, AccountsAssumption
    <3>3. /\ account_state.as_of \in Nat /\ account_state.sequence \in Nat
          /\ r.final_account.as_of \in Nat
      BY <2>1, <3>1, RequestsAssumption, AccountsAssumption
    <3>4. account_state.sequence > 0
      BY <2>1, <2>3, <3>2, <3>3
    <3>5. r.final_account.as_of > account_state.as_of
      BY <2>1, <3>1, <3>4 DEF ClockAdvances
    <3> QED BY <1>2, <3>2, <3>3, <3>5 DEF RowsPrecede
  <2> QED BY <2>2, <2>3
<1>3. ASSUME account_state' # account_state PROVE telemetry' = telemetry
  BY <1>3 DEF Next, vars, files, Acquire, Crash, CycleStep, BeginCycle, RefuseCycle,
     WriteArtifact, ArtifactsWritten, BeginAppend, RefuseAppend, WriteLine, LinesWritten,
     WriteCommitMarker, WriteAccount, AppendTelemetry, RefuseTelemetry, RestoreCycle,
     RefuseRestore
<1> QED BY <1>1, <1>2, <1>3, AccountSteps

\* A cycle of the daemon is refused its row by nothing, and its restoration
\* neither: what it leaves without a row has no marker.
LEMMA RefusedWithoutMarker ==
    ASSUME SpoolInv, SoloInv, DaemonAlone, ClockAdvances, RowInv,
           CycleStep(Daemon), pc'[Daemon] = "idle", ~ AppendTelemetry(Daemon)
    PROVE  pass.envelope.request \notin committed \ telemetry
<1> DEFINE r == pass.envelope.request
<1>1. /\ request[Daemon] = r /\ r \in Requests
      /\ Daemon \in Runners /\ IInv /\ ~ torn /\ Checked(r, pc[Daemon])
      /\ pc \in [Runners -> Locations] /\ telemetry \subseteq Requests
  BY SoloHolder, SchedulerAssumption DEF SpoolInv, SoloInv, IInv, TypeOK, HolderHasChecked
<1>2. CASE RefuseTelemetry(Daemon)
  <2>1. account_state = r.final_account /\ TelemetryConflict(r)
    BY <1>1, <1>2 DEF RefuseTelemetry, Checked
  <2>2. PICK t \in telemetry : t # r /\ t.final_account.as_of = r.final_account.as_of
    BY <2>1 DEF TelemetryConflict
  <2>3. t.final_account = r.final_account
    BY <2>1, <2>2 DEF RowInv, RowsPrecede
  <2> QED BY <1>1, <2>2, <2>3 DEF ClockAdvances
<1>3. CASE RefuseRestore(Daemon)
  <2>1. r \in committed /\ ~ (EvidenceIntact(r) /\ MayRestoreAccount(r))
    BY <1>1, <1>3 DEF RefuseRestore
  <2>2. EvidenceIntact(r)
    BY <1>1, <2>1 DEF IInv, EvidenceBeforeCommit, EvidenceIntact
  <2>3. account_state # NoAccount
    BY <2>1 DEF SoloInv
  <2> QED BY <2>1, <2>2, <2>3 DEF MayRestoreAccount, RowInv, RowIsDue
<1>4. CASE RefuseCycle(Daemon) \/ RefuseAppend(Daemon)
  BY <1>1, <1>4 DEF RefuseCycle, RefuseAppend, Checked
<1> QED BY <1>1, <1>2, <1>3, <1>4 DEF CycleStep, BeginCycle, WriteArtifact,
     ArtifactsWritten,
        BeginAppend, WriteLine, LinesWritten, WriteCommitMarker, WriteAccount, RestoreCycle,
        Goto, control

LEMMA RowCycle ==
    ASSUME SpoolInv, SoloInv, DaemonAlone, ClockAdvances, RowInv, [Next]_vars,
           CycleStep(Daemon), UNCHANGED spoolVars
    PROVE  RowInv'
<1> DEFINE r == pass.envelope.request
<1>1. /\ pass.at = "cycle" /\ r \in Requests
      /\ \A s : InProcessing(s) <=> s = r
  BY SoloHolder
<1>2. /\ \A s : InProcessing(s)' <=> s = r
      /\ CallIsOver' => pc'[Daemon] = "idle"
      /\ pass' = pass
  BY <1>1 DEF spoolVars, InProcessing, CallIsOver
<1>3. RowsPrecede'
  BY RowsStep DEF RowInv, SpoolInv
<1>4. /\ committed \subseteq Requests
      /\ r.final_account.sequence \in Nat /\ r.starting_account.sequence \in Nat
      /\ r.starting_account.sequence < r.final_account.sequence
      /\ \A s \in committed : /\ s.starting_account.sequence \in Nat
                              /\ s.starting_account.sequence <= account_state.sequence
      /\ \A s \in committed \ telemetry : s = r
  BY <1>1, RequestsAssumption, AccountsAssumption DEF SpoolInv, SoloInv, IInv, TypeOK,
       RowInv, RowIsDue
<1>5. CASE /\ UNCHANGED <<account_state, committed, telemetry>>
           /\ ~ AppendTelemetry(Daemon)
  <2>1. CallIsOver' => r \notin committed \ telemetry
    BY <1>2, <1>5, RefusedWithoutMarker
  <2> QED BY <1>2, <1>3, <1>4, <1>5, <2>1 DEF RowInv, RowIsDue, NoTelemetryHole
<1>6. CASE telemetry' = telemetry \cup {r} /\ UNCHANGED <<account_state, committed>>
  BY <1>2, <1>3, <1>4, <1>6 DEF RowInv, RowIsDue, NoTelemetryHole
<1>7. CASE /\ r \notin committed /\ account_state = r.starting_account
           /\ committed' = committed \cup {r}
           /\ UNCHANGED <<account_state, telemetry>> /\ pc'[Daemon] # "idle"
  <2>1. committed \subseteq telemetry
    BY <1>4, <1>7
  <2>2. \A s \in committed' : s.starting_account # r.final_account
    BY <1>4, <1>7
  <2>3. NoTelemetryHole'
    BY <1>7, <2>1, <2>2 DEF NoTelemetryHole
  <2> QED BY <1>2, <1>3, <1>7, <2>1, <2>3 DEF RowInv, RowIsDue
<1>8. CASE /\ account_state' = r.final_account
           /\ UNCHANGED <<committed, telemetry>> /\ pc'[Daemon] # "idle"
  BY <1>2, <1>3, <1>4, <1>8 DEF RowInv, RowIsDue, NoTelemetryHole
<1>9. CASE AppendTelemetry(Daemon)
  <2>1. request[Daemon] = r
    BY SoloHolder
  <2> QED BY <1>6, <1>9, <2>1 DEF AppendTelemetry
<1>10. CASE ~ AppendTelemetry(Daemon)
  <2> HIDE DEF r
  <2> QED BY <1>5, <1>7, <1>8, <1>10, SoloEffect DEF r
<1> QED BY <1>9, <1>10

\* The steps of a pass that leave the ledger alone take the envelope of a cycle
\* out of processing/ only when its row is there.
LEMMA RowSpool ==
    ASSUME SpoolInv, SoloInv, DaemonAlone, ClockAdvances, RowInv, [Next]_vars,
           [SchedulerNext]_allVars, ~ (CycleStep(Daemon) /\ UNCHANGED spoolVars)
    PROVE  RowInv'
<1>1. UNCHANGED <<account_state, committed, telemetry>>
  BY DEF SchedulerNext, allVars, cycleVars, vars, files, DaemonAlone, SpoolOnly, Tick,
     Enqueue, LogEnqueued, ProducerCrash, DaemonStep, RestartDaemon, StartPass, LockSpool,
     SpoolLockTimeout, RejectExpired, ListCandidates, LookForMarker, ClaimNext,
     LeaveWaiting,
     RejectStale, NothingToClaim, RunCycle, Acquire, AccountLockTimeout, CycleReturns,
     ArchiveCompleted, WriteResult, ResultConflict, LogCompleted, NextItem, ArchiveRejected,
     WriteError, ErrorConflict, LogRejected, DaemonCrash, Crash
<1>2. RowsPrecede' /\ NoTelemetryHole'
  BY <1>1, RowsStep DEF RowInv, SpoolInv, NoTelemetryHole
<1>3. /\ spool \in [Folders -> SUBSET Envelopes] /\ pass \in Memory
      /\ pc \in [Runners -> Locations] /\ Daemon \in Runners
  BY SchedulerAssumption DEF SpoolInv, SchedulerTypeOK, SpoolTypeOK, TypeOK
<1>4. ASSUME AccountLockTimeout PROVE FALSE
  <2>1. pc[Daemon] = "idle" /\ lock = Daemon
    BY <1>4, SchedulerAssumption
    DEF AccountLockTimeout, At, SpoolInv, CycleIsThePasses, IInv, TypeOK, DaemonAlone
  <2> QED BY <2>1, SchedulerAssumption DEF SpoolInv, IInv, OnlyHolderRuns
<1>5. ASSUME NEW r \in committed \ telemetry PROVE InProcessing(r)'
  <2>1. PICK d \in spool["processing"] : d.request = r
    BY DEF RowInv, RowIsDue, InProcessing
  <2>2. CASE d \in spool'["processing"]
    BY <2>1, <2>2 DEF InProcessing
  <2>3. CASE ArchiveCompleted
    <3>1. d = pass.envelope /\ CallIsOver
      BY <2>3 DEF ArchiveCompleted, At, SoloInv, OneInterrupted, InterruptedFirst,
           CallIsOver
    <3> QED BY <2>1, <3>1 DEF RowInv
  <2>4. CASE ArchiveRejected
    <3>1. CASE pass.resume = "next"
      <4>1. d = pass.envelope /\ CallIsOver
        BY <2>4, <3>1 DEF ArchiveRejected, At, SoloInv, InterruptedFirst, CallIsOver
      <4> QED BY <2>1, <4>1 DEF RowInv
    <3>2. CASE pass.resume = "scan"
      BY <2>4, <3>2 DEF ArchiveRejected, At, SoloInv, InterruptedFirst
    <3> QED BY <1>3, <2>4, <3>1, <3>2
            DEF ArchiveRejected, At, SpoolInv, PassHolds, Memory, SoloInv, InterruptedFirst
  <2>5. CASE ~ ArchiveCompleted /\ ~ ArchiveRejected
    <3>1. \/ spool' = spool
          \/ ClaimNext \/ AccountLockTimeout
          \/ \E e \in Envelopes : Enqueue(e)
      BY <2>5 DEF SchedulerNext, allVars, spoolVars, DaemonAlone, Tick,
         LogEnqueued, ProducerCrash, DaemonStep, RestartDaemon, StartPass, LockSpool,
         SpoolLockTimeout, RejectExpired, ListCandidates, LookForMarker, LeaveWaiting,
         RejectStale, NothingToClaim, RunCycle, CycleReturns,
         WriteResult, ResultConflict, LogCompleted, NextItem,
         WriteError, ErrorConflict, LogRejected, DaemonCrash
    <3>2. ASSUME NEW e \in Envelopes, Enqueue(e) PROVE spool'["processing"] = spool["processing"]
      BY <1>3, <3>2 DEF Enqueue, Folders
    <3>3. ASSUME ClaimNext PROVE spool["processing"] \subseteq spool'["processing"]
      BY <3>3 DEF ClaimNext
    <3> QED BY <1>4, <2>1, <2>2, <3>1, <3>2, <3>3
  <2> QED BY <2>3, <2>4, <2>5
<1>6. \A r \in committed \ telemetry : RowIsDue(r)'
  BY <1>1, <1>5 DEF RowInv, RowIsDue
<1>7. ASSUME CallIsOver' PROVE pass'.envelope.request \notin committed \ telemetry
  <2>1. CASE ResultConflict
    <3>1. pass'.envelope = pass.envelope /\ Backed(pass.envelope)
      BY <1>3, <2>1 DEF ResultConflict, At, Rejecting, Memory, SpoolInv, ResultIsBacked
    <3> QED BY <3>1 DEF Backed
  <2>2. CASE CycleReturns
    <3>1. pass'.envelope = pass.envelope /\ CallIsOver
      BY <1>3, <2>2 DEF CycleReturns, At, Rejecting, Memory, CallIsOver
    <3> QED BY <3>1 DEF RowInv
  <2>3. CASE pass' = pass /\ pc' = pc
    BY <1>7, <2>3 DEF RowInv, CallIsOver
  <2>4. CASE RunCycle
    BY <1>3, <1>7, <2>4 DEF RunCycle, At, Acquire, CallIsOver, Memory
  <2>5. CASE RejectExpired \/ RejectStale
    BY <1>3, <1>7, <2>5 DEF RejectExpired, RejectStale, Rejecting, CallIsOver, Memory
  <2>6. CASE \/ RestartDaemon \/ StartPass \/ LockSpool \/ SpoolLockTimeout \/ ListCandidates
             \/ LookForMarker \/ ClaimNext \/ LeaveWaiting \/ NothingToClaim
             \/ ArchiveCompleted \/ WriteResult \/ LogCompleted \/ NextItem
             \/ ArchiveRejected \/ WriteError \/ ErrorConflict \/ LogRejected \/ DaemonCrash
    <3>1. pass'.at \notin {"cycle", "complete", "reject"}
      BY <1>3, <2>6, RestingTyped DEF RestartDaemon, StartPass, LockSpool, SpoolLockTimeout,
         ListCandidates, LookForMarker, ClaimNext, LeaveWaiting, NothingToClaim, EndPass,
         ArchiveCompleted, WriteResult, LogCompleted, NextItem, ArchiveRejected, WriteError,
         ErrorConflict, LogRejected, DaemonCrash, Memory
    <3> QED BY <1>7, <3>1 DEF CallIsOver
  <2> QED BY <1>4, <2>1, <2>2, <2>3, <2>4, <2>5, <2>6
          DEF SchedulerNext, DaemonStep, DaemonAlone, allVars, cycleVars, spoolVars,
               vars, control,
              Tick, Enqueue, LogEnqueued, ProducerCrash
<1> QED BY <1>1, <1>2, <1>6, <1>7 DEF RowInv

\* A daemon alone leaves no hole in the forward record: a cycle commits after
\* the row of its predecessor is written.
THEOREM NoRowIsSkipped ==
    ASSUME DaemonAlone, ClockAdvances
    PROVE  SchedulerSpec => []NoTelemetryHole
<1>1. SchedulerInit => RowInv
  BY RestingTyped DEF SchedulerInit, Init, RowInv, RowsPrecede, CallIsOver, NoTelemetryHole
<1>2. SpoolInv /\ SoloInv /\ RowInv /\ [SchedulerNext]_allVars => RowInv'
  <2> SUFFICES ASSUME SpoolInv, SoloInv, RowInv, [SchedulerNext]_allVars PROVE RowInv'
    OBVIOUS
  <2>1. [Next]_vars
    BY EngineStep DEF SpoolInv, allVars, cycleVars
  <2>2. CASE CycleStep(Daemon) /\ UNCHANGED spoolVars
    BY <2>1, <2>2, RowCycle
  <2> QED BY <2>1, <2>2, RowSpool
<1>3. RowInv => NoTelemetryHole
  BY DEF RowInv
<1> QED BY <1>1, <1>2, <1>3, SpoolInvariance, SoloInvariance, PTL DEF SchedulerSpec
=============================================================================
