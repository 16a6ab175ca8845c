----------------------------- MODULE PaperCycle -----------------------------
(***************************************************************************)
(* The paper-cycle engine (operations/cycle.py) on the files of one        *)
(* strategy root: account_state.json, the artifacts and COMMITTED.json of  *)
(* every cycle directory, events.jsonl and forward_telemetry.csv.          *)
(*                                                                         *)
(* Runners are the processes that call run_paper_cycle: the scheduler and  *)
(* the paper-cycle command.  Every file change a cycle makes is a step of  *)
(* its own, so that a runner may die between any two of them; the advisory *)
(* lock dies with its holder, the files stay.                              *)
(*                                                                         *)
(* What a cycle computes (risk decision, plan, fills, final account,       *)
(* reconciliation) is a function of its sealed request, so a request is a  *)
(* record that carries the result; a cycle directory is named by it.       *)
(*   cycle_id                        identity of the request               *)
(*   starting_account, final_account the account before and after          *)
(*   decision_time, state_sequence, target_hash                            *)
(*                                   of the strategy and market snapshots  *)
(*   plan, fills                     id of the plan, number of its fills   *)
(*   status                          "committed", "halt", or "raises" when *)
(*                                   the computation itself raises         *)
(***************************************************************************)
EXTENDS JournalRules

CONSTANTS
    Runners,        \* processes that run cycles
    NoRunner,       \* nobody holds .paper-cycle.lock
    Accounts,       \* paper account states, each standing for its account_hash
    NoAccount,      \* account_state.json does not exist
    Requests,       \* sealed cycle requests, each standing for its cycle_id
    NoRequest,      \* a runner that runs nothing
    NumArtifacts,   \* evidence files of a cycle directory
    MayTear         \* whether a crash may cut a journal line in half

\* An account is known by its hash; its sequence and clock are part of it.
ASSUME AccountsAssumption ==
    /\ \A a \in Accounts : a.sequence \in Nat /\ a.as_of \in Nat
    /\ NoAccount \notin Accounts

\* Executing a plan moves the account on: activate_paper_plan and mark_account
\* each add one to the sequence and neither lets as_of_utc go back.
ASSUME RequestsAssumption ==
    /\ NoRequest \notin Requests
    /\ \A r \in Requests :
        /\ r.starting_account \in Accounts
        /\ r.final_account \in Accounts
        /\ r.final_account.sequence > r.starting_account.sequence
        /\ r.final_account.as_of >= r.starting_account.as_of
        /\ r.decision_time \in Nat
        /\ r.final_account.as_of >= r.decision_time
        /\ r.state_sequence \in Nat
        /\ r.fills \in Nat
        /\ r.status \in {"committed", "halt", "raises"}
    \* Hashes are injective: the cycle id covers the whole request, the plan
    \* id the target and the account, the target hash the snapshots.
    /\ \A r, s \in Requests :
        /\ r.cycle_id = s.cycle_id => r = s
        /\ r.plan = s.plan => /\ r.target_hash = s.target_hash
                              /\ r.starting_account = s.starting_account
        /\ r.target_hash = s.target_hash => /\ r.state_sequence = s.state_sequence
                                            /\ r.decision_time = s.decision_time

ASSUME RunnersAssumption == NoRunner \notin Runners

ASSUME ArtifactsAssumption == NumArtifacts \in Nat /\ MayTear \in BOOLEAN

VARIABLES
    account_state,  \* account_state.json
    artifacts,      \* evidence files written so far, per cycle directory
    committed,      \* requests whose cycle directory holds COMMITTED.json
    journal,        \* complete lines of events.jsonl
    torn,           \* events.jsonl ends in a line cut short
    telemetry,      \* requests whose row stands in forward_telemetry.csv
    lock,           \* holder of .paper-cycle.lock
    pc,             \* where each runner is in _run_paper_cycle_locked
    request,        \* the request each runner is executing
    outcome         \* how the last call of each runner ended

files == <<account_state, artifacts, committed, journal, torn, telemetry>>
control == <<lock, pc, request, outcome>>
vars == <<files, control>>

Locations ==
    { "idle", "locked", "artifacts", "append", "lines", "commit", "account",
      "telemetry" }

Outcomes == { "none", "committed", "halt", "error", "crashed" }

(***************************************************************************)
(* The journal batch of a request: _event_specs.  The snapshot and the     *)
(* target are shared by requests of one strategy snapshot, the plan by     *)
(* requests that only differ in their quotes.  Fills are stamped with the  *)
(* clock of the final account, which none of them exceeds.                 *)
(***************************************************************************)
Event(type, r, time, payload) ==
    [type |-> type, sequence |-> r.state_sequence, time |-> time, payload |-> payload]

EventSpecs(r) ==
    LET t == r.decision_time
        u == r.final_account.as_of
    IN  << Event("SNAPSHOT_ACCEPTED", r, t, <<r.target_hash>>),
           Event("TARGET_COMPUTED", r, t, <<r.target_hash>>),
           Event("PLAN_CREATED", r, t, <<r.plan>>) >>
        \o [i \in 1..r.fills |-> Event("FILL_RECORDED", r, u, <<r.cycle_id, i>>)]
        \o << Event("STATE_COMMITTED", r, u, <<r.final_account>>),
              Event("RECONCILIATION_COMPLETED", r, u, <<r.cycle_id>>) >>
        \o (IF r.status = "halt"
            THEN << Event("HALT_RAISED", r, u, <<r.cycle_id>>) >>
            ELSE << >>)

\* Positions of the batch whose event the journal does not hold.
Missing(r) ==
    { i \in DOMAIN EventSpecs(r) : ~ Recorded(journal, EventSpecs(r)[i]) }

TargetEvents == { e \in Range(journal) : e.type = "TARGET_COMPUTED" }

\* _assert_monotonic_strategy_sequence against the latest journalled target.
SequenceIsMonotonic(r) ==
    \A e \in TargetEvents :
        /\ e.sequence <= r.state_sequence
        /\ e.sequence = r.state_sequence => e.payload = <<r.target_hash>>

\* Slip: a missing account file is taken for a fresh root.
StartingAccountMatches_NoPristineCheck(r) ==
    account_state # NoAccount => account_state = r.starting_account

\* _assert_starting_account: the runtime account is the one the request was
\* sealed against, or nothing at all has happened in this root.
StartingAccountMatches(r) ==
    IF account_state # NoAccount
    THEN account_state = r.starting_account
    ELSE /\ journal = << >> /\ ~ torn
         /\ committed = {}
         /\ r.starting_account.sequence = 0

\* Slip: rows are appended without a look at the timestamps.
TelemetryConflict_Unchecked(r) == FALSE

\* The telemetry file holds one row per timestamp.
TelemetryConflict(r) ==
    \E t \in telemetry : t # r /\ t.final_account.as_of = r.final_account.as_of

Init ==
    /\ account_state \in {NoAccount} \cup { a \in Accounts : a.sequence = 0 }
    /\ artifacts = [r \in Requests |-> 0]
    /\ committed = {}
    /\ journal = << >>
    /\ torn = FALSE
    /\ telemetry = {}
    /\ lock = NoRunner
    /\ pc = [p \in Runners |-> "idle"]
    /\ request = [p \in Runners |-> NoRequest]
    /\ outcome = [p \in Runners |-> "none"]

Goto(p, location) ==
    /\ pc' = [pc EXCEPT ![p] = location]
    /\ UNCHANGED <<lock, request, outcome>>

\* run_paper_cycle returns or raises: the lock is released either way.
Return(p, how) ==
    /\ lock' = NoRunner
    /\ pc' = [pc EXCEPT ![p] = "idle"]
    /\ request' = [request EXCEPT ![p] = NoRequest]
    /\ outcome' = [outcome EXCEPT ![p] = how]

\* Slip: the lock is opened but not awaited.
Acquire_Unlocked(p, r) ==
    /\ pc[p] = "idle"
    /\ lock' = p
    /\ pc' = [pc EXCEPT ![p] = "locked"]
    /\ request' = [request EXCEPT ![p] = r]
    /\ outcome' = [outcome EXCEPT ![p] = "none"]
    /\ UNCHANGED files

\* run_paper_cycle takes the single-writer lock.
Acquire(p, r) ==
    /\ pc[p] = "idle"
    /\ lock = NoRunner
    /\ lock' = p
    /\ pc' = [pc EXCEPT ![p] = "locked"]
    /\ request' = [request EXCEPT ![p] = r]
    /\ outcome' = [outcome EXCEPT ![p] = "none"]
    /\ UNCHANGED files

\* No COMMITTED.json yet: check the preconditions, compute the cycle.
MayBegin(r) ==
    /\ StartingAccountMatches(r)
    /\ ~ torn
    /\ SequenceIsMonotonic(r)
    /\ r.status # "raises"

BeginCycle(p) ==
    LET r == request[p] IN
    /\ pc[p] = "locked"
    /\ r \notin committed
    /\ MayBegin(r)
    /\ Goto(p, "artifacts")
    /\ UNCHANGED files

RefuseCycle(p) ==
    LET r == request[p] IN
    /\ pc[p] = "locked"
    /\ r \notin committed
    /\ ~ MayBegin(r)
    /\ Return(p, "error")
    /\ UNCHANGED files

\* write_once_json of one artifact; a retry finds the same bytes in place.
WriteArtifact(p) ==
    LET r == request[p] IN
    /\ pc[p] = "artifacts"
    /\ artifacts[r] < NumArtifacts
    /\ artifacts' = [artifacts EXCEPT ![r] = @ + 1]
    /\ UNCHANGED <<account_state, committed, journal, torn, telemetry, control>>

\* Slip: the marker is written before the journal batch.
ArtifactsWritten_MarkerFirst(p) ==
    /\ pc[p] = "artifacts"
    /\ artifacts[request[p]] = NumArtifacts
    /\ Goto(p, "commit")
    /\ UNCHANGED files

ArtifactsWritten(p) ==
    /\ pc[p] = "artifacts"
    /\ artifacts[request[p]] = NumArtifacts
    /\ Goto(p, "append")
    /\ UNCHANGED files

\* append_many verifies the file and the extended file before it writes.
BeginAppend(p) ==
    LET r == request[p] IN
    /\ pc[p] = "append"
    /\ AcceptsBatch(journal, EventSpecs(r))
    /\ Goto(p, "lines")
    /\ UNCHANGED files

RefuseAppend(p) ==
    LET r == request[p] IN
    /\ pc[p] = "append"
    /\ ~ AcceptsBatch(journal, EventSpecs(r))
    /\ Return(p, "error")
    /\ UNCHANGED files

\* Slip: the journal is opened with O_TRUNC instead of O_APPEND.
WriteLine_Truncates(p) ==
    LET r == request[p] IN
    /\ pc[p] = "lines"
    /\ \E i \in Missing(r) :
        /\ \A k \in Missing(r) : i <= k
        /\ journal' = SubSeq(EventSpecs(r), 1, i)
    /\ UNCHANGED <<account_state, artifacts, committed, torn, telemetry, control>>

\* The os.write loop: the bytes of the batch reach the file front to back.
WriteLine(p) ==
    LET r == request[p] IN
    /\ pc[p] = "lines"
    /\ \E i \in Missing(r) :
        /\ \A k \in Missing(r) : i <= k
        /\ journal' = Append(journal, EventSpecs(r)[i])
    /\ UNCHANGED <<account_state, artifacts, committed, torn, telemetry, control>>

\* Slip: the account is written before the marker.
LinesWritten_AccountFirst(p) ==
    /\ pc[p] = "lines"
    /\ Missing(request[p]) = {}
    /\ Goto(p, "account")
    /\ UNCHANGED files

LinesWritten(p) ==
    /\ pc[p] = "lines"
    /\ Missing(request[p]) = {}
    /\ Goto(p, "commit")
    /\ UNCHANGED files

\* COMMITTED.json names the hashes of the artifacts and of the batch.
WriteCommitMarker(p) ==
    /\ pc[p] = "commit"
    /\ committed' = committed \cup {request[p]}
    /\ Goto(p, "account")
    /\ UNCHANGED <<account_state, artifacts, journal, torn, telemetry>>

WriteAccount(p) ==
    /\ pc[p] = "account"
    /\ account_state' = request[p].final_account
    /\ Goto(p, "telemetry")
    /\ UNCHANGED <<artifacts, committed, journal, torn, telemetry>>

AppendTelemetry(p) ==
    LET r == request[p] IN
    /\ pc[p] = "telemetry"
    /\ ~ TelemetryConflict(r)
    /\ telemetry' = telemetry \cup {r}
    /\ Return(p, IF r.status = "halt" THEN "halt" ELSE "committed")
    /\ UNCHANGED <<account_state, artifacts, committed, journal, torn>>

RefuseTelemetry(p) ==
    /\ pc[p] = "telemetry"
    /\ TelemetryConflict(request[p])
    /\ Return(p, "error")
    /\ UNCHANGED files

(***************************************************************************)
(* COMMITTED.json is there: _restore_committed_side_effects checks the     *)
(* evidence it names and brings the account and the telemetry up to it.    *)
(***************************************************************************)
EvidenceIntact(r) ==
    /\ artifacts[r] = NumArtifacts
    /\ ~ torn
    /\ Missing(r) = {}

\* Slip: a restore puts the account of the cycle back, whatever stands there.
MayRestoreAccount_Always(r) == TRUE

\* Slip: a restore only accepts an account that was already written.
MayRestoreAccount_OnlyFinal(r) == account_state = r.final_account

MayRestoreAccount(r) ==
    IF account_state # NoAccount
    THEN account_state \in {r.final_account, r.starting_account}
    ELSE \A e \in TargetEvents : e.sequence <= r.state_sequence

RestoreCycle(p) ==
    LET r == request[p] IN
    /\ pc[p] = "locked"
    /\ r \in committed
    /\ EvidenceIntact(r)
    /\ MayRestoreAccount(r)
    /\ account_state' = r.final_account
    /\ Goto(p, "telemetry")
    /\ UNCHANGED <<artifacts, committed, journal, torn, telemetry>>

RefuseRestore(p) ==
    LET r == request[p] IN
    /\ pc[p] = "locked"
    /\ r \in committed
    /\ ~ (EvidenceIntact(r) /\ MayRestoreAccount(r))
    /\ Return(p, "error")
    /\ UNCHANGED files

\* The process dies: the kernel drops its lock; a batch being written may
\* leave half a line behind.
Crash(p) ==
    /\ pc[p] # "idle"
    /\ Return(p, "crashed")
    /\ torn' \in IF MayTear /\ pc[p] = "lines" /\ Missing(request[p]) # {}
                 THEN {torn, TRUE}
                 ELSE {torn}
    /\ UNCHANGED <<account_state, artifacts, committed, journal, telemetry>>

\* The steps of a cycle that holds the lock, the crash excepted.
CycleStep(p) ==
    \/ BeginCycle(p) \/ RefuseCycle(p)
    \/ WriteArtifact(p) \/ ArtifactsWritten(p)
    \/ BeginAppend(p) \/ RefuseAppend(p)
    \/ WriteLine(p) \/ LinesWritten(p)
    \/ WriteCommitMarker(p) \/ WriteAccount(p)
    \/ AppendTelemetry(p) \/ RefuseTelemetry(p)
    \/ RestoreCycle(p) \/ RefuseRestore(p)

Next ==
    \E p \in Runners :
        \/ \E r \in Requests : Acquire(p, r)
        \/ CycleStep(p)
        \/ Crash(p)

Spec == Init /\ [][Next]_vars

-----------------------------------------------------------------------------
JournalEvents == UNION { Range(EventSpecs(r)) : r \in Requests }

\* Every variable holds what its file or its place in the code can hold.
TypeOK ==
    /\ account_state \in Accounts \cup {NoAccount}
    /\ artifacts \in [Requests -> 0..NumArtifacts]
    /\ committed \subseteq Requests
    /\ journal \in Seq(JournalEvents)
    /\ torn \in BOOLEAN
    /\ telemetry \subseteq Requests
    /\ lock \in Runners \cup {NoRunner}
    /\ pc \in [Runners -> Locations]
    /\ request \in [Runners -> Requests \cup {NoRequest}]
    /\ outcome \in [Runners -> Outcomes]

\* COMMITTED.json never precedes its evidence: whoever finds the marker, after
\* any crash, finds every artifact and every journal event it names.
EvidenceBeforeCommit ==
    \A r \in committed : artifacts[r] = NumArtifacts /\ Missing(r) = {}

\* account_state.json is a fresh account or the result of a sealed cycle; a
\* cycle that died half way never shows in it.
AccountHasProvenance ==
    \/ account_state = NoAccount
    \/ account_state.sequence = 0
    \/ \E r \in committed : account_state = r.final_account

\* Every file of events the engine ever leaves verifies, the ones a crash cut
\* short between two lines and a later cycle continued included.
JournalVerifies == VerifyEvents(journal)

\* A sealed cycle whose account is still waiting for it is always restored by
\* a retry, unless the journal itself was damaged.
SealedCycleIsRestorable ==
    \A r \in committed :
        account_state \in {NoAccount, r.starting_account} /\ ~ torn
          => EvidenceIntact(r) /\ MayRestoreAccount(r)

\* forward_telemetry.csv holds one row per timestamp, and only rows of cycles
\* whose account was written: the account has reached their sequence.
TelemetryFollowsAccount ==
    \A t \in telemetry :
        /\ t \in committed
        /\ account_state # NoAccount
        /\ t.final_account.sequence <= account_state.sequence
        /\ \A u \in telemetry :
               t.final_account.as_of = u.final_account.as_of => t = u

\* No step takes the account back to an older sequence or away: an older
\* request that is run again, in any order, cannot roll back a newer account.
AccountNeverRollsBack ==
    [][ account_state # NoAccount =>
          /\ account_state' # NoAccount
          /\ account_state' # account_state =>
               account_state'.sequence > account_state.sequence ]_vars

\* An immutable artifact, marker or journal line, once there, stays.
EvidenceIsImmutable ==
    [][ /\ committed \subseteq committed'
        /\ \A r \in Requests : artifacts[r] <= artifacts'[r]
        /\ \A i \in DOMAIN journal : journal'[i] = journal[i] ]_vars

\* The engine implements the ledger: the account file is its head, the markers
\* are its sealed cycles.
Ledger == INSTANCE PaperLedger WITH head <- account_state, sealed <- committed

ImplementsLedger == Ledger!Spec

(***************************************************************************)
(* Why it works: what the holder of the lock has checked and written stays *)
(* true until it returns, and what a dead holder left behind is still what *)
(* the next one checks for.                                                *)
(***************************************************************************)
\* Only the holder of .paper-cycle.lock is anywhere in a cycle.
OnlyHolderRuns ==
    \A p \in Runners :
        /\ pc[p] # "idle" <=> lock = p
        /\ pc[p] # "idle" => request[p] \in Requests

\* The account that a cycle in progress starts from is still in place; without
\* an account file the cycle is the first of this root and the journal its own.
StartStands(r) ==
    \/ account_state = r.starting_account
    \/ /\ account_state = NoAccount
       /\ committed = {}
       /\ r.starting_account.sequence = 0
       /\ \A e \in Range(journal) : e.sequence = r.state_sequence

Checked(r, location) ==
    /\ location \in {"artifacts", "append", "lines", "commit"} =>
         r \notin committed /\ StartStands(r)
    /\ location \in {"append", "lines", "commit"} => artifacts[r] = NumArtifacts
    /\ location = "commit" => Missing(r) = {}
    /\ location = "account" =>
         r \in committed /\ account_state \in {NoAccount, r.starting_account}
    /\ location = "telemetry" =>
         r \in committed /\ account_state = r.final_account

HolderHasChecked == \A p \in Runners : Checked(request[p], pc[p])

\* As long as there is no account file there is at most one committed cycle,
\* and the journal holds nothing but its events.
FirstCycleIsAlone ==
    account_state = NoAccount =>
        \A r \in committed :
            /\ committed = {r}
            /\ \A e \in Range(journal) : e.sequence = r.state_sequence

IInv ==
    /\ TypeOK
    /\ OnlyHolderRuns
    /\ HolderHasChecked
    /\ FirstCycleIsAlone
    /\ EvidenceBeforeCommit
    /\ AccountHasProvenance
    /\ TelemetryFollowsAccount
=============================================================================
