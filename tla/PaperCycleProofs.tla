-------------------------- MODULE PaperCycleProofs --------------------------
(***************************************************************************)
(* What holds of the paper-cycle engine for any runners, accounts and      *)
(* requests, by an inductive invariant over the runner that holds the      *)
(* lock: what it has checked and written so far is still so, because       *)
(* nobody else can touch the files.                                        *)
(***************************************************************************)
EXTENDS PaperCycle, CollectionProofs

-----------------------------------------------------------------------------
\* The batch of a request is made of its own events.
BatchPayloads(r) ==
    { <<r.target_hash>>, <<r.plan>>, <<r.final_account>>, <<r.cycle_id>> }
      \cup { <<r.cycle_id, i>> : i \in 1..r.fills }

BatchEvents(r) ==
    [ type     : { "SNAPSHOT_ACCEPTED", "TARGET_COMPUTED", "PLAN_CREATED",
                   "FILL_RECORDED", "STATE_COMMITTED",
                   "RECONCILIATION_COMPLETED", "HALT_RAISED" },
      sequence : { r.state_sequence },
      time     : { r.decision_time, r.final_account.as_of },
      payload  : BatchPayloads(r) ]

\* _event_specs stamps every event with the sequence of the request.
LEMMA BatchShape ==
    ASSUME NEW r \in Requests
    PROVE  EventSpecs(r) \in Seq(BatchEvents(r))
<1> DEFINE t == r.decision_time
           u == r.final_account.as_of
           head == << Event("SNAPSHOT_ACCEPTED", r, t, <<r.target_hash>>),
                      Event("TARGET_COMPUTED", r, t, <<r.target_hash>>),
                      Event("PLAN_CREATED", r, t, <<r.plan>>) >>
           fill == [i \in 1..r.fills |-> Event("FILL_RECORDED", r, u, <<r.cycle_id, i>>)]
           tail == << Event("STATE_COMMITTED", r, u, <<r.final_account>>),
                      Event("RECONCILIATION_COMPLETED", r, u, <<r.cycle_id>>) >>
           halt == IF r.status = "halt"
                   THEN << Event("HALT_RAISED", r, u, <<r.cycle_id>>) >>
                   ELSE << >>
<1>1. \A ty \in { "SNAPSHOT_ACCEPTED", "TARGET_COMPUTED", "PLAN_CREATED",
                  "FILL_RECORDED", "STATE_COMMITTED",
                  "RECONCILIATION_COMPLETED", "HALT_RAISED" } :
        \A tm \in {t, u} : \A pl \in BatchPayloads(r) :
          Event(ty, r, tm, pl) \in BatchEvents(r)
  BY DEF Event, BatchEvents
<1>2. head \in Seq(BatchEvents(r))
  <2>1. <<r.target_hash>> \in BatchPayloads(r) /\ <<r.plan>> \in BatchPayloads(r)
    BY DEF BatchPayloads
  <2>2. /\ Event("SNAPSHOT_ACCEPTED", r, t, <<r.target_hash>>) \in BatchEvents(r)
        /\ Event("TARGET_COMPUTED", r, t, <<r.target_hash>>) \in BatchEvents(r)
        /\ Event("PLAN_CREATED", r, t, <<r.plan>>) \in BatchEvents(r)
    BY <1>1, <2>1
  <2> QED BY <2>2
<1>3. fill \in Seq(BatchEvents(r))
  <2>1. \A i \in 1..r.fills : <<r.cycle_id, i>> \in BatchPayloads(r)
    BY DEF BatchPayloads
  <2>2. \A i \in 1..r.fills :
          Event("FILL_RECORDED", r, u, <<r.cycle_id, i>>) \in BatchEvents(r)
    BY <1>1, <2>1
  <2>3. r.fills \in Nat
    BY RequestsAssumption
  <2>4. fill \in [1..r.fills -> BatchEvents(r)]
    BY <2>2
  <2> HIDE DEF fill
  <2> QED BY <2>3, <2>4
<1>4. tail \in Seq(BatchEvents(r)) /\ halt \in Seq(BatchEvents(r))
  <2>1. <<r.final_account>> \in BatchPayloads(r) /\ <<r.cycle_id>> \in BatchPayloads(r)
    BY DEF BatchPayloads
  <2>2. /\ Event("STATE_COMMITTED", r, u, <<r.final_account>>) \in BatchEvents(r)
        /\ Event("RECONCILIATION_COMPLETED", r, u, <<r.cycle_id>>) \in BatchEvents(r)
        /\ Event("HALT_RAISED", r, u, <<r.cycle_id>>) \in BatchEvents(r)
    BY <1>1, <2>1
  <2> QED BY <2>2
<1>5. EventSpecs(r) = head \o fill \o tail \o halt
  BY DEF EventSpecs
<1> HIDE DEF head, fill, tail, halt
<1> QED BY <1>2, <1>3, <1>4, <1>5

LEMMA BatchSequence ==
    ASSUME NEW r \in Requests, NEW i \in DOMAIN EventSpecs(r)
    PROVE  /\ EventSpecs(r)[i] \in JournalEvents
           /\ EventSpecs(r)[i].sequence = r.state_sequence
<1>1. EventSpecs(r)[i] \in BatchEvents(r)
  BY BatchShape
<1>2. EventSpecs(r)[i].sequence = r.state_sequence
  BY <1>1 DEF BatchEvents
<1>3. EventSpecs(r)[i] \in Range(EventSpecs(r))
  BY DEF Range
<1> QED BY <1>2, <1>3 DEF JournalEvents

\* A line appended to the journal is added to what it records.
LEMMA AppendAddsOne ==
    ASSUME NEW S, NEW s \in Seq(S), NEW e \in S
    PROVE  /\ Append(s, e) \in Seq(S)
           /\ Range(Append(s, e)) = Range(s) \cup {e}
<1>1. /\ Append(s, e) \in Seq(S)
      /\ DOMAIN Append(s, e) = 1..(Len(s) + 1)
      /\ Len(s) \in Nat /\ DOMAIN s = 1..Len(s)
      /\ \A i \in 1..Len(s) : Append(s, e)[i] = s[i]
      /\ Append(s, e)[Len(s) + 1] = e
  OBVIOUS
<1>2. Range(s) \subseteq Range(Append(s, e))
  BY <1>1 DEF Range
<1>3. e \in Range(Append(s, e))
  BY <1>1 DEF Range
<1>4. \A x \in Range(Append(s, e)) : x \in Range(s) \/ x = e
  <2> SUFFICES ASSUME NEW i \in 1..(Len(s) + 1)
               PROVE  Append(s, e)[i] \in Range(s) \/ Append(s, e)[i] = e
    BY <1>1 DEF Range
  <2>1. CASE i = Len(s) + 1
    BY <1>1, <2>1
  <2>2. CASE i \in 1..Len(s)
    BY <1>1, <2>2 DEF Range
  <2> QED BY <1>1, <2>1, <2>2
<1> QED BY <1>1, <1>2, <1>3, <1>4

-----------------------------------------------------------------------------
\* The control part of a step: the holder of the lock moves, or gives it up.
LEMMA GotoControl ==
    ASSUME TypeOK, OnlyHolderRuns,
           NEW p \in Runners, pc[p] # "idle",
           NEW location \in Locations \ {"idle"}, Goto(p, location)
    PROVE  /\ OnlyHolderRuns'
           /\ lock' \in Runners \cup {NoRunner}
           /\ pc' \in [Runners -> Locations]
           /\ request' \in [Runners -> Requests \cup {NoRequest}]
           /\ outcome' \in [Runners -> Outcomes]
           /\ pc'[p] = location
           /\ request[p] \in Requests
           /\ request' = request
           /\ \A q \in Runners \ {p} : pc'[q] = "idle"
  BY RunnersAssumption DEF TypeOK, OnlyHolderRuns, Goto

LEMMA ReturnControl ==
    ASSUME TypeOK, OnlyHolderRuns,
           NEW p \in Runners, pc[p] # "idle",
           NEW how \in Outcomes, Return(p, how)
    PROVE  /\ OnlyHolderRuns'
           /\ lock' \in Runners \cup {NoRunner}
           /\ pc' \in [Runners -> Locations]
           /\ request' \in [Runners -> Requests \cup {NoRequest}]
           /\ outcome' \in [Runners -> Outcomes]
           /\ \A q \in Runners : pc'[q] = "idle"
  BY RunnersAssumption DEF TypeOK, OnlyHolderRuns, Return, Locations

\* Nothing is claimed of a runner that is idle or has only taken the lock.
LEMMA NothingChecked ==
    ASSUME NEW r, NEW location \in {"idle", "locked"}
    PROVE  Checked(r, location)
  BY DEF Checked

\* A step that gives up the lock and leaves the files alone, but for a torn
\* line, keeps the invariant.
LEMMA ReturnKeeps ==
    ASSUME IInv, NEW p \in Runners, pc[p] # "idle",
           NEW how \in Outcomes, Return(p, how), torn' \in BOOLEAN,
           UNCHANGED <<account_state, artifacts, committed, journal, telemetry>>
    PROVE  IInv'
<1>1. /\ OnlyHolderRuns'
      /\ TypeOK'
      /\ \A q \in Runners : pc'[q] = "idle"
  BY ReturnControl DEF IInv, TypeOK
<1>2. HolderHasChecked'
  BY <1>1 DEF HolderHasChecked, Checked
<1>3. /\ FirstCycleIsAlone'
      /\ EvidenceBeforeCommit'
      /\ AccountHasProvenance'
      /\ TelemetryFollowsAccount'
  BY DEF IInv, FirstCycleIsAlone, EvidenceBeforeCommit, Missing, Recorded,
         AccountHasProvenance, TelemetryFollowsAccount
<1> QED BY <1>1, <1>2, <1>3 DEF IInv

\* A step of the holder that leaves the files alone keeps the invariant when
\* the holder has checked what its new place demands.
LEMMA GotoKeeps ==
    ASSUME IInv, NEW p \in Runners, pc[p] # "idle",
           NEW location \in Locations \ {"idle"}, Goto(p, location),
           UNCHANGED files, Checked(request[p], location)
    PROVE  IInv'
<1>1. /\ OnlyHolderRuns'
      /\ TypeOK'
      /\ pc'[p] = location
      /\ request' = request
      /\ \A q \in Runners \ {p} : pc'[q] = "idle"
  BY GotoControl DEF IInv, TypeOK, files
<1>2. HolderHasChecked'
  <2> SUFFICES ASSUME NEW q \in Runners
               PROVE  Checked(request[q], pc[q])'
    BY DEF HolderHasChecked
  <2>1. CASE q = p
    BY <1>1, <2>1 DEF files, Checked, StartStands, Missing, Recorded
  <2>2. CASE q # p
    BY <1>1, <2>2 DEF Checked
  <2> QED BY <2>1, <2>2
<1>3. /\ FirstCycleIsAlone'
      /\ EvidenceBeforeCommit'
      /\ AccountHasProvenance'
      /\ TelemetryFollowsAccount'
  BY DEF IInv, FirstCycleIsAlone, EvidenceBeforeCommit, Missing, Recorded,
         AccountHasProvenance, TelemetryFollowsAccount, files
<1> QED BY <1>1, <1>2, <1>3 DEF IInv

-----------------------------------------------------------------------------
\* Nothing has happened yet.
LEMMA InitInv == Init => IInv
<1> SUFFICES ASSUME Init PROVE IInv
  OBVIOUS
<1>1. TypeOK
  <2>1. 0 \in 0..NumArtifacts
    BY ArtifactsAssumption
  <2>2. artifacts \in [Requests -> 0..NumArtifacts]
    BY <2>1 DEF Init
  <2>3. journal \in Seq(JournalEvents)
    BY DEF Init
  <2>4. torn \in BOOLEAN
    BY DEF Init
  <2> QED BY <2>2, <2>3, <2>4 DEF Init, TypeOK, Locations, Outcomes
<1>2. OnlyHolderRuns /\ HolderHasChecked
  BY RunnersAssumption DEF Init, OnlyHolderRuns, HolderHasChecked, Checked
<1>3. /\ FirstCycleIsAlone /\ EvidenceBeforeCommit
      /\ AccountHasProvenance /\ TelemetryFollowsAccount
  BY DEF Init, FirstCycleIsAlone, EvidenceBeforeCommit, AccountHasProvenance,
         TelemetryFollowsAccount
<1> QED BY <1>1, <1>2, <1>3 DEF IInv

\* Taking the lock.
LEMMA AcquireInv ==
    ASSUME IInv, NEW p \in Runners, NEW r \in Requests, Acquire(p, r)
    PROVE  IInv'
<1>1. OnlyHolderRuns'
  BY RunnersAssumption DEF IInv, TypeOK, OnlyHolderRuns, Acquire
<1>2. TypeOK'
  BY DEF IInv, TypeOK, Acquire, files, Locations, Outcomes
<1>3. \A q \in Runners : pc'[q] \in {"idle", "locked"}
  BY RunnersAssumption DEF IInv, TypeOK, OnlyHolderRuns, Acquire
<1>4. HolderHasChecked'
  BY <1>3 DEF HolderHasChecked, Checked
<1>5. /\ FirstCycleIsAlone'
      /\ EvidenceBeforeCommit'
      /\ AccountHasProvenance'
      /\ TelemetryFollowsAccount'
  BY DEF IInv, FirstCycleIsAlone, EvidenceBeforeCommit, Missing, Recorded,
         AccountHasProvenance, TelemetryFollowsAccount, files, Acquire
<1> QED BY <1>1, <1>2, <1>4, <1>5 DEF IInv

\* The checks before a fresh cycle establish what its first steps rely on.
LEMMA BeginCycleInv ==
    ASSUME IInv, NEW p \in Runners, BeginCycle(p)
    PROVE  IInv'
<1>1. request[p] \in Requests /\ pc[p] # "idle"
  BY DEF IInv, OnlyHolderRuns, BeginCycle
<1>2. StartStands(request[p])
  BY DEF BeginCycle, MayBegin, StartingAccountMatches, StartStands, Range
<1>3. Checked(request[p], "artifacts")
  BY <1>2 DEF BeginCycle, Checked
<1> QED BY <1>1, <1>3, GotoKeeps DEF BeginCycle, Locations

\* A cycle that is refused before, in the middle or at the end, and one that
\* dies, only gives up the lock.
LEMMA RefusalInv ==
    ASSUME IInv, NEW p \in Runners,
           RefuseCycle(p) \/ RefuseAppend(p) \/ RefuseTelemetry(p) \/ RefuseRestore(p)
    PROVE  IInv'
<1>1. pc[p] # "idle" /\ Return(p, "error") /\ UNCHANGED files
  BY DEF RefuseCycle, RefuseAppend, RefuseTelemetry, RefuseRestore
<1>2. "error" \in Outcomes /\ torn \in BOOLEAN
  BY DEF Outcomes, IInv, TypeOK
<1> QED BY <1>1, <1>2, ReturnKeeps DEF files

LEMMA CrashInv ==
    ASSUME IInv, NEW p \in Runners, Crash(p)
    PROVE  IInv'
<1>1. "crashed" \in Outcomes /\ torn \in BOOLEAN
  BY DEF Outcomes, IInv, TypeOK
<1>2. torn' \in {torn, TRUE}
  BY DEF Crash
<1>3. torn' \in BOOLEAN
  BY <1>1, <1>2
<1> QED BY <1>1, <1>3, ReturnKeeps DEF Crash

\* The steps that only move the holder on.
LEMMA ProgressInv ==
    ASSUME IInv, NEW p \in Runners,
           ArtifactsWritten(p) \/ BeginAppend(p) \/ LinesWritten(p)
    PROVE  IInv'
<1>1. Checked(request[p], pc[p])
  BY DEF IInv, HolderHasChecked
<1>2. CASE ArtifactsWritten(p)
  <2>1. Checked(request[p], "append")
    BY <1>1, <1>2 DEF ArtifactsWritten, Checked
  <2> QED BY <1>2, <2>1, GotoKeeps DEF ArtifactsWritten, Locations
<1>3. CASE BeginAppend(p)
  <2>1. Checked(request[p], "lines")
    BY <1>1, <1>3 DEF BeginAppend, Checked
  <2> QED BY <1>3, <2>1, GotoKeeps DEF BeginAppend, Locations
<1>4. CASE LinesWritten(p)
  <2>1. Checked(request[p], "commit")
    BY <1>1, <1>4 DEF LinesWritten, Checked
  <2> QED BY <1>4, <2>1, GotoKeeps DEF LinesWritten, Locations
<1> QED BY <1>2, <1>3, <1>4

\* Everybody but the holder is idle, and nothing is claimed of them.
LEMMA OthersIdle ==
    ASSUME IInv, NEW p \in Runners, pc[p] # "idle", NEW q \in Runners \ {p}
    PROVE  pc[q] = "idle"
  BY DEF IInv, OnlyHolderRuns

\* An artifact more does not undo what was checked or committed.
LEMMA WriteArtifactInv ==
    ASSUME IInv, NEW p \in Runners, WriteArtifact(p)
    PROVE  IInv'
<1> DEFINE r == request[p]
<1>1. /\ r \in Requests /\ pc[p] = "artifacts" /\ r \notin committed /\ StartStands(r)
      /\ artifacts \in [Requests -> 0..NumArtifacts] /\ NumArtifacts \in Nat
      /\ artifacts[r] < NumArtifacts
  BY ArtifactsAssumption
  DEF IInv, TypeOK, OnlyHolderRuns, HolderHasChecked, Checked, WriteArtifact
<1>2. artifacts' \in [Requests -> 0..NumArtifacts]
  BY <1>1 DEF WriteArtifact
<1>3. TypeOK' /\ OnlyHolderRuns'
  BY <1>2 DEF IInv, TypeOK, OnlyHolderRuns, WriteArtifact, control
<1>4. HolderHasChecked'
  <2> SUFFICES ASSUME NEW q \in Runners
               PROVE  Checked(request[q], pc[q])'
    BY DEF HolderHasChecked
  <2>1. pc' = pc /\ request' = request
    BY DEF WriteArtifact, control
  <2>2. CASE q = p
    BY <1>1, <2>1, <2>2
    DEF WriteArtifact, Checked, StartStands
  <2>3. CASE q # p
    BY <1>1, <2>1, <2>3, OthersIdle DEF Checked
  <2> QED BY <2>2, <2>3
<1>5. EvidenceBeforeCommit'
  <2>1. \A s \in committed : artifacts'[s] = artifacts[s]
    BY <1>1 DEF WriteArtifact, IInv, TypeOK
  <2> QED BY <2>1 DEF IInv, EvidenceBeforeCommit, Missing, Recorded, WriteArtifact
<1>6. FirstCycleIsAlone' /\ AccountHasProvenance' /\ TelemetryFollowsAccount'
  BY DEF IInv, FirstCycleIsAlone, AccountHasProvenance, TelemetryFollowsAccount,
         WriteArtifact
<1> QED BY <1>3, <1>4, <1>5, <1>6 DEF IInv

\* A line more records what it recorded before, and one event of the batch.
LEMMA WriteLineJournal ==
    ASSUME IInv, NEW p \in Runners, WriteLine(p)
    PROVE  /\ journal' \in Seq(JournalEvents)
           /\ Range(journal) \subseteq Range(journal')
           /\ \A e \in Range(journal') \ Range(journal) :
                  e.sequence = request[p].state_sequence
<1> DEFINE r == request[p]
<1>1. r \in Requests
  BY DEF IInv, OnlyHolderRuns, WriteLine
<1>2. PICK i \in DOMAIN EventSpecs(r) : journal' = Append(journal, EventSpecs(r)[i])
  BY DEF WriteLine, Missing
<1>3. /\ EventSpecs(r)[i] \in JournalEvents
      /\ EventSpecs(r)[i].sequence = r.state_sequence
  BY <1>1, BatchSequence
<1>4. journal \in Seq(JournalEvents)
  BY DEF IInv, TypeOK
<1>5. /\ journal' \in Seq(JournalEvents)
      /\ Range(journal') = Range(journal) \cup {EventSpecs(r)[i]}
  BY <1>2, <1>3, <1>4, AppendAddsOne
<1> QED BY <1>3, <1>5

LEMMA WriteLineInv ==
    ASSUME IInv, NEW p \in Runners, WriteLine(p)
    PROVE  IInv'
<1> DEFINE r == request[p]
<1>1. /\ r \in Requests /\ pc[p] = "lines" /\ r \notin committed /\ StartStands(r)
      /\ artifacts[r] = NumArtifacts
  BY DEF IInv, OnlyHolderRuns, HolderHasChecked, Checked, WriteLine
<1>2. /\ journal' \in Seq(JournalEvents)
      /\ Range(journal) \subseteq Range(journal')
      /\ \A e \in Range(journal') \ Range(journal) : e.sequence = r.state_sequence
  BY WriteLineJournal
<1>3. UNCHANGED <<account_state, artifacts, committed, torn, telemetry, control>>
  BY DEF WriteLine
<1>4. TypeOK' /\ OnlyHolderRuns'
  BY <1>2, <1>3 DEF IInv, TypeOK, OnlyHolderRuns, control
<1>5. HolderHasChecked'
  <2> SUFFICES ASSUME NEW q \in Runners
               PROVE  Checked(request[q], pc[q])'
    BY DEF HolderHasChecked
  <2>1. CASE q = p
    BY <1>1, <1>2, <1>3, <2>1 DEF Checked, StartStands, control
  <2>2. CASE q # p
    BY <1>1, <1>3, <2>2, OthersIdle DEF Checked, control
  <2> QED BY <2>1, <2>2
<1>6. EvidenceBeforeCommit'
  BY <1>2, <1>3 DEF IInv, EvidenceBeforeCommit, Missing, Recorded
<1>7. FirstCycleIsAlone'
  <2> SUFFICES ASSUME account_state = NoAccount, NEW s \in committed
               PROVE  FALSE
    BY <1>3 DEF FirstCycleIsAlone
  <2>1. r.starting_account # NoAccount
    BY <1>1, RequestsAssumption, AccountsAssumption
  <2> QED BY <1>1, <2>1 DEF StartStands
<1>8. AccountHasProvenance' /\ TelemetryFollowsAccount'
  BY <1>3 DEF IInv, AccountHasProvenance, TelemetryFollowsAccount
<1> QED BY <1>4, <1>5, <1>6, <1>7, <1>8 DEF IInv

\* The marker is written when everything it names is there.
LEMMA WriteCommitMarkerInv ==
    ASSUME IInv, NEW p \in Runners, WriteCommitMarker(p)
    PROVE  IInv'
<1> DEFINE r == request[p]
<1>1. /\ r \in Requests /\ pc[p] = "commit" /\ r \notin committed /\ StartStands(r)
      /\ artifacts[r] = NumArtifacts /\ Missing(r) = {}
  BY DEF IInv, OnlyHolderRuns, HolderHasChecked, Checked, WriteCommitMarker
<1>2. /\ committed' = committed \cup {r} /\ Goto(p, "account")
      /\ UNCHANGED <<account_state, artifacts, journal, torn, telemetry>>
  BY DEF WriteCommitMarker
<1>3. /\ OnlyHolderRuns'
      /\ TypeOK'
      /\ pc'[p] = "account" /\ request' = request
      /\ \A q \in Runners \ {p} : pc'[q] = "idle"
  <2>1. "account" \in Locations \ {"idle"} /\ pc[p] # "idle" /\ TypeOK /\ OnlyHolderRuns
    BY <1>1 DEF Locations, IInv
  <2> QED BY <1>1, <1>2, <2>1, GotoControl DEF TypeOK
<1>4. HolderHasChecked'
  <2> SUFFICES ASSUME NEW q \in Runners
               PROVE  Checked(request[q], pc[q])'
    BY DEF HolderHasChecked
  <2>1. CASE q = p
    BY <1>1, <1>2, <1>3, <2>1 DEF Checked, StartStands
  <2>2. CASE q # p
    BY <1>3, <2>2 DEF Checked
  <2> QED BY <2>1, <2>2
<1>5. EvidenceBeforeCommit'
  BY <1>1, <1>2 DEF IInv, EvidenceBeforeCommit, Missing, Recorded
<1>6. FirstCycleIsAlone'
  <2> SUFFICES ASSUME account_state = NoAccount
               PROVE  /\ committed = {}
                      /\ \A e \in Range(journal) : e.sequence = r.state_sequence
    BY <1>2 DEF FirstCycleIsAlone
  <2>1. r.starting_account # NoAccount
    BY <1>1, RequestsAssumption, AccountsAssumption
  <2> QED BY <1>1, <2>1 DEF StartStands
<1>7. AccountHasProvenance' /\ TelemetryFollowsAccount'
  BY <1>2 DEF IInv, AccountHasProvenance, TelemetryFollowsAccount
<1> QED BY <1>3, <1>4, <1>5, <1>6, <1>7 DEF IInv

\* The account moves up to the end of a committed cycle: what telemetry and
\* the committed cycles say of it stays true.
LEMMA AccountMoves ==
    ASSUME IInv, NEW r \in committed,
           account_state \in {NoAccount, r.starting_account, r.final_account},
           account_state' = r.final_account,
           UNCHANGED <<artifacts, committed, journal, torn, telemetry>>
    PROVE  /\ account_state' \in Accounts
           /\ FirstCycleIsAlone' /\ EvidenceBeforeCommit'
           /\ AccountHasProvenance' /\ TelemetryFollowsAccount'
<1>1. /\ r \in Requests
      /\ r.final_account \in Accounts /\ r.starting_account \in Accounts
      /\ r.final_account # NoAccount
      /\ r.final_account.sequence \in Nat /\ r.starting_account.sequence \in Nat
      /\ r.final_account.sequence > r.starting_account.sequence
  BY RequestsAssumption, AccountsAssumption DEF IInv, TypeOK
<1>2. TelemetryFollowsAccount'
  <2>1. \A t \in telemetry :
           /\ t \in Requests /\ t.final_account.sequence \in Nat
           /\ t \in committed /\ account_state # NoAccount
           /\ t.final_account.sequence <= account_state.sequence
           /\ \A u \in telemetry :
                 t.final_account.as_of = u.final_account.as_of => t = u
    BY RequestsAssumption, AccountsAssumption DEF IInv, TypeOK, TelemetryFollowsAccount
  <2>2. \A t \in telemetry : t.final_account.sequence <= r.final_account.sequence
    BY <1>1, <2>1
  <2> QED BY <1>1, <2>1, <2>2 DEF TelemetryFollowsAccount
<1>3. FirstCycleIsAlone' /\ EvidenceBeforeCommit' /\ AccountHasProvenance'
  BY <1>1 DEF IInv, FirstCycleIsAlone, EvidenceBeforeCommit, Missing, Recorded,
              AccountHasProvenance
<1> QED BY <1>1, <1>2, <1>3

LEMMA WriteAccountInv ==
    ASSUME IInv, NEW p \in Runners, WriteAccount(p) \/ RestoreCycle(p)
    PROVE  IInv'
<1> DEFINE r == request[p]
<1>1. /\ r \in committed /\ pc[p] # "idle"
      /\ account_state \in {NoAccount, r.starting_account, r.final_account}
      /\ account_state' = r.final_account
      /\ Goto(p, "telemetry")
      /\ UNCHANGED <<artifacts, committed, journal, torn, telemetry>>
  <2>1. CASE WriteAccount(p)
    BY <2>1 DEF IInv, HolderHasChecked, Checked, WriteAccount
  <2>2. CASE RestoreCycle(p)
    BY <2>2 DEF RestoreCycle, MayRestoreAccount
  <2> QED BY <2>1, <2>2
<1>2. /\ account_state' \in Accounts
      /\ FirstCycleIsAlone' /\ EvidenceBeforeCommit'
      /\ AccountHasProvenance' /\ TelemetryFollowsAccount'
  BY <1>1, AccountMoves
<1>3. /\ OnlyHolderRuns'
      /\ TypeOK'
      /\ pc'[p] = "telemetry" /\ request' = request
      /\ \A q \in Runners \ {p} : pc'[q] = "idle"
  <2>1. "telemetry" \in Locations \ {"idle"} /\ TypeOK /\ OnlyHolderRuns
    BY DEF Locations, IInv
  <2> QED BY <1>1, <1>2, <2>1, GotoControl DEF TypeOK
<1>4. HolderHasChecked'
  BY <1>1, <1>3 DEF HolderHasChecked, Checked
<1> QED BY <1>2, <1>3, <1>4 DEF IInv

LEMMA AppendTelemetryInv ==
    ASSUME IInv, NEW p \in Runners, AppendTelemetry(p)
    PROVE  IInv'
<1> DEFINE r == request[p]
           how == IF r.status = "halt" THEN "halt" ELSE "committed"
<1>1. /\ r \in committed /\ r \in Requests /\ pc[p] = "telemetry"
      /\ account_state = r.final_account
  BY DEF IInv, TypeOK, HolderHasChecked, Checked, AppendTelemetry
<1>2. /\ telemetry' = telemetry \cup {r} /\ Return(p, how) /\ ~ TelemetryConflict(r)
      /\ UNCHANGED <<account_state, artifacts, committed, journal, torn>>
  BY DEF AppendTelemetry
<1>3. /\ OnlyHolderRuns'
      /\ TypeOK'
      /\ \A q \in Runners : pc'[q] = "idle"
  <2>1. how \in Outcomes /\ TypeOK /\ OnlyHolderRuns /\ pc[p] # "idle"
    BY <1>1 DEF Outcomes, IInv
  <2> HIDE DEF how
  <2> QED BY <1>1, <1>2, <2>1, ReturnControl DEF TypeOK
<1>4. HolderHasChecked'
  BY <1>3 DEF HolderHasChecked, Checked
<1>5. TelemetryFollowsAccount'
  <2>1. /\ r.final_account # NoAccount
        /\ r.final_account.sequence <= account_state.sequence
    BY <1>1, RequestsAssumption, AccountsAssumption
  <2> QED BY <1>1, <1>2, <2>1
          DEF IInv, TelemetryFollowsAccount, TelemetryConflict
<1>6. FirstCycleIsAlone' /\ EvidenceBeforeCommit' /\ AccountHasProvenance'
  BY <1>2 DEF IInv, FirstCycleIsAlone, EvidenceBeforeCommit, Missing, Recorded,
              AccountHasProvenance
<1> QED BY <1>3, <1>4, <1>5, <1>6 DEF IInv

\* Every step of every runner, and every stutter, keeps the invariant.
LEMMA StepInv == IInv /\ [Next]_vars => IInv'
<1> SUFFICES ASSUME IInv, [Next]_vars PROVE IInv'
  OBVIOUS
<1>1. CASE UNCHANGED vars
  BY <1>1 DEF vars, files, control, IInv, TypeOK, OnlyHolderRuns, HolderHasChecked,
              Checked, StartStands, Missing, Recorded, FirstCycleIsAlone,
              EvidenceBeforeCommit, AccountHasProvenance, TelemetryFollowsAccount
<1>2. ASSUME NEW p \in Runners, NEW r \in Requests, Acquire(p, r) PROVE IInv'
  BY <1>2, AcquireInv
<1>3. ASSUME NEW p \in Runners, CycleStep(p) PROVE IInv'
  BY <1>3, BeginCycleInv, RefusalInv, WriteArtifactInv, ProgressInv, WriteLineInv,
     WriteCommitMarkerInv, WriteAccountInv, AppendTelemetryInv
  DEF CycleStep
<1>4. ASSUME NEW p \in Runners, Crash(p) PROVE IInv'
  BY <1>4, CrashInv
<1> QED BY <1>1, <1>2, <1>3, <1>4 DEF Next

-----------------------------------------------------------------------------
\* The inductive invariant holds in every reachable state.
THEOREM Invariance == Spec => []IInv
<1>1. Init => IInv
  BY InitInv
<1>2. IInv /\ [Next]_vars => IInv'
  BY StepInv
<1> QED BY <1>1, <1>2, PTL DEF Spec

\* Every file and every runner is always in a state the code can produce.
THEOREM TypeCorrect == Spec => []TypeOK
<1>1. IInv => TypeOK
  BY DEF IInv
<1> QED BY <1>1, Invariance, PTL

\* COMMITTED.json is written last: any crash, any retry, any other request in
\* between, whoever finds the marker finds all the evidence it names.
THEOREM EvidenceFirst == Spec => []EvidenceBeforeCommit
<1>1. IInv => EvidenceBeforeCommit
  BY DEF IInv
<1> QED BY <1>1, Invariance, PTL

\* The account file is fresh or the result of a committed cycle.
THEOREM Provenance == Spec => []AccountHasProvenance
<1>1. IInv => AccountHasProvenance
  BY DEF IInv
<1> QED BY <1>1, Invariance, PTL

\* The telemetry file holds rows of applied cycles only, one per timestamp.
THEOREM TelemetryBacked == Spec => []TelemetryFollowsAccount
<1>1. IInv => TelemetryFollowsAccount
  BY DEF IInv
<1> QED BY <1>1, Invariance, PTL

\* A committed cycle the account still waits for passes every check of
\* _restore_committed_side_effects, as long as the journal is not torn.
THEOREM Restorable == Spec => []SealedCycleIsRestorable
<1>1. IInv => SealedCycleIsRestorable
  <2> SUFFICES ASSUME IInv, NEW r \in committed, ~ torn,
                      account_state \in {NoAccount, r.starting_account}
               PROVE  EvidenceIntact(r) /\ MayRestoreAccount(r)
    BY DEF SealedCycleIsRestorable
  <2>1. EvidenceIntact(r)
    BY DEF IInv, EvidenceBeforeCommit, EvidenceIntact
  <2>2. CASE account_state # NoAccount
    BY <2>1, <2>2 DEF MayRestoreAccount
  <2>3. CASE account_state = NoAccount
    <3>1. \A e \in Range(journal) : e.sequence = r.state_sequence
      BY <2>3 DEF IInv, FirstCycleIsAlone
    <3>2. r.state_sequence \in Nat
      BY RequestsAssumption DEF IInv, TypeOK
    <3> QED BY <2>1, <2>3, <3>1, <3>2 DEF MayRestoreAccount, TargetEvents
  <2> QED BY <2>1, <2>2, <2>3
<1> QED BY <1>1, Invariance, PTL

-----------------------------------------------------------------------------
\* The steps that move the account take it from the start of a committed cycle,
\* or from nothing, to its end.
LEMMA AccountSteps ==
    ASSUME IInv, [Next]_vars
    PROVE  \/ account_state' = account_state
           \/ \E r \in committed :
                /\ account_state \in {NoAccount, r.starting_account}
                /\ account_state' = r.final_account
                /\ committed' = committed
<1>1. CASE UNCHANGED vars
  BY <1>1 DEF vars, files
<1>2. ASSUME NEW p \in Runners, NEW r \in Requests, Acquire(p, r)
      PROVE  account_state' = account_state
  BY <1>2 DEF Acquire, files
<1>3. ASSUME NEW p \in Runners, Crash(p)
      PROVE  account_state' = account_state
  BY <1>3 DEF Crash
<1>4. ASSUME NEW p \in Runners, WriteAccount(p) \/ RestoreCycle(p)
      PROVE  \/ account_state' = account_state
             \/ /\ request[p] \in committed
                /\ account_state \in {NoAccount, request[p].starting_account}
                /\ account_state' = request[p].final_account
                /\ committed' = committed
  BY <1>4 DEF IInv, HolderHasChecked, Checked, WriteAccount, RestoreCycle,
              MayRestoreAccount
<1>5. ASSUME NEW p \in Runners, CycleStep(p), ~ WriteAccount(p), ~ RestoreCycle(p)
      PROVE  account_state' = account_state
  BY <1>5 DEF CycleStep, BeginCycle, RefuseCycle, WriteArtifact, ArtifactsWritten,
              BeginAppend, RefuseAppend, WriteLine, LinesWritten, WriteCommitMarker,
              AppendTelemetry, RefuseTelemetry, RefuseRestore, files
<1> QED BY <1>1, <1>2, <1>3, <1>4, <1>5 DEF Next

\* An older request, in whatever order and however often it is run again,
\* never rolls a newer account back.
THEOREM NoRollback == Spec => AccountNeverRollsBack
<1> DEFINE Forward == account_state # NoAccount =>
                        /\ account_state' # NoAccount
                        /\ account_state' # account_state =>
                             account_state'.sequence > account_state.sequence
<1>1. IInv /\ [Next]_vars => [Forward]_vars
  <2> SUFFICES ASSUME IInv, [Next]_vars, account_state # NoAccount,
                      account_state' # account_state
               PROVE  /\ account_state' # NoAccount
                      /\ account_state'.sequence > account_state.sequence
    OBVIOUS
  <2>1. PICK r \in committed : /\ account_state = r.starting_account
                               /\ account_state' = r.final_account
    BY AccountSteps
  <2>2. r \in Requests
    BY DEF IInv, TypeOK
  <2> QED BY <2>1, <2>2, RequestsAssumption, AccountsAssumption
<1> QED BY <1>1, Invariance, PTL DEF Spec, AccountNeverRollsBack

-----------------------------------------------------------------------------
\* The engine implements the ledger: to a reader of the account file and the
\* commit markers every step is a seal, an advance or nothing.
THEOREM LedgerImplemented == Spec => ImplementsLedger
<1>1. Init => Ledger!Init
  BY DEF Init, Ledger!Init
<1>2. IInv /\ [Next]_vars => [Ledger!Next]_(Ledger!ledger)
  <2> SUFFICES ASSUME IInv, [Next]_vars
               PROVE  Ledger!Next \/ UNCHANGED <<account_state, committed>>
    BY DEF Ledger!ledger
  <2>1. ASSUME NEW p \in Runners, WriteCommitMarker(p)
        PROVE  Ledger!Seal(request[p]) /\ request[p] \in Requests
    BY <2>1 DEF IInv, OnlyHolderRuns, HolderHasChecked, Checked, StartStands,
                WriteCommitMarker, Ledger!Seal
  <2>2. ASSUME account_state' # account_state
        PROVE  \E r \in Requests : Ledger!Advance(r)
    <3>1. PICK r \in committed :
             /\ account_state \in {NoAccount, r.starting_account}
             /\ account_state' = r.final_account
             /\ committed' = committed
      BY <2>2, AccountSteps
    <3>2. account_state = NoAccount => committed = {r}
      BY DEF IInv, FirstCycleIsAlone
    <3>3. Ledger!Advance(r)
      BY <3>1, <3>2 DEF Ledger!Advance
    <3> QED BY <3>3 DEF IInv, TypeOK
  <2>3. committed' = committed \/ \E p \in Runners : WriteCommitMarker(p)
    BY DEF Next, CycleStep, vars, files, Acquire, Crash, BeginCycle, RefuseCycle,
           WriteArtifact, ArtifactsWritten, BeginAppend, RefuseAppend, WriteLine,
           LinesWritten, WriteAccount, AppendTelemetry, RefuseTelemetry,
           RestoreCycle, RefuseRestore
  <2> QED BY <2>1, <2>2, <2>3 DEF Ledger!Next
<1> QED BY <1>1, <1>2, Invariance, PTL DEF Spec, ImplementsLedger, Ledger!Spec

-----------------------------------------------------------------------------
\* No step takes evidence back: committed cycles stay committed, a written
\* artifact stays written, a journal line stays where it is.
THEOREM EvidenceStays == Spec => EvidenceIsImmutable
<1> DEFINE Stays == /\ committed \subseteq committed'
                    /\ \A r \in Requests : artifacts[r] <= artifacts'[r]
                    /\ \A i \in DOMAIN journal : journal'[i] = journal[i]
<1>1. IInv /\ [Next]_vars => Stays
  <2> SUFFICES ASSUME IInv, [Next]_vars PROVE Stays
    OBVIOUS
  <2>1. /\ artifacts \in [Requests -> 0..NumArtifacts] /\ NumArtifacts \in Nat
        /\ journal \in Seq(JournalEvents)
    BY ArtifactsAssumption DEF IInv, TypeOK
  <2>2. \A r \in Requests : artifacts[r] <= artifacts[r]
    BY <2>1
  <2>3. ASSUME NEW p \in Runners, WriteArtifact(p)
        PROVE  Stays
    <3>1. committed' = committed /\ journal' = journal
      BY <2>3 DEF WriteArtifact
    <3>2. \A r \in Requests : artifacts[r] <= artifacts'[r]
      BY <2>1, <2>3 DEF WriteArtifact
    <3> QED BY <3>1, <3>2
  <2>4. ASSUME NEW p \in Runners, WriteLine(p)
        PROVE  Stays
    <3>1. PICK n \in DOMAIN EventSpecs(request[p]) :
             journal' = Append(journal, EventSpecs(request[p])[n])
      BY <2>4 DEF WriteLine, Missing
    <3>2. \A i \in DOMAIN journal : journal'[i] = journal[i]
      BY <2>1, <3>1
    <3> QED BY <2>2, <2>4, <3>2 DEF WriteLine
  <2>5. ASSUME NEW p \in Runners, WriteCommitMarker(p)
        PROVE  Stays
    BY <2>2, <2>5 DEF WriteCommitMarker
  <2>6. \/ UNCHANGED <<committed, artifacts, journal>>
        \/ \E p \in Runners : WriteArtifact(p) \/ WriteLine(p) \/ WriteCommitMarker(p)
    BY DEF Next, CycleStep, vars, files, Acquire, Crash, BeginCycle, RefuseCycle,
           ArtifactsWritten, BeginAppend, RefuseAppend, LinesWritten, WriteAccount,
           AppendTelemetry, RefuseTelemetry, RestoreCycle, RefuseRestore
  <2> QED BY <2>2, <2>3, <2>4, <2>5, <2>6
<1>2. IInv /\ [Next]_vars => [Stays]_vars
  BY <1>1
<1> QED BY <1>2, Invariance, PTL DEF Spec, EvidenceIsImmutable

-----------------------------------------------------------------------------
(***************************************************************************)
(* Why events.jsonl always verifies.  append_many accepts a batch only when *)
(* the file with all that is new of the batch verifies; the lines are then *)
(* written one at a time, and a crash may end that after any of them.  A   *)
(* line written is exactly the first event that was missing, so that the   *)
(* file and what is still missing stay the same whole; and what verifies   *)
(* also verifies cut short after any line.                                 *)
(***************************************************************************)

\* Where each event stands in its batch.
BatchType(n, i) ==
    CASE i = 1           -> "SNAPSHOT_ACCEPTED"
      [] i = 2           -> "TARGET_COMPUTED"
      [] i = 3           -> "PLAN_CREATED"
      [] i = n + 4 -> "STATE_COMMITTED"
      [] i = n + 5 -> "RECONCILIATION_COMPLETED"
      [] i = n + 6 -> "HALT_RAISED"
      [] OTHER           -> "FILL_RECORDED"

BatchHead(r) ==
    << Event("SNAPSHOT_ACCEPTED", r, r.decision_time, <<r.target_hash>>),
       Event("TARGET_COMPUTED", r, r.decision_time, <<r.target_hash>>),
       Event("PLAN_CREATED", r, r.decision_time, <<r.plan>>) >>

BatchFills(r) ==
    [i \in 1..r.fills |-> Event("FILL_RECORDED", r, r.final_account.as_of, <<r.cycle_id, i>>)]

BatchTail(r) ==
    << Event("STATE_COMMITTED", r, r.final_account.as_of, <<r.final_account>>),
       Event("RECONCILIATION_COMPLETED", r, r.final_account.as_of, <<r.cycle_id>>) >>

BatchHalt(r) ==
    IF r.status = "halt"
    THEN << Event("HALT_RAISED", r, r.final_account.as_of, <<r.cycle_id>>) >>
    ELSE << >>

LEMMA BatchParts ==
    ASSUME NEW r \in Requests
    PROVE  /\ EventSpecs(r) = BatchHead(r) \o BatchFills(r) \o BatchTail(r) \o BatchHalt(r)
           /\ BatchHead(r) \in Seq(BatchEvents(r)) /\ Len(BatchHead(r)) = 3
           /\ BatchFills(r) \in Seq(BatchEvents(r)) /\ Len(BatchFills(r)) = r.fills
           /\ BatchTail(r) \in Seq(BatchEvents(r)) /\ Len(BatchTail(r)) = 2
           /\ BatchHalt(r) \in Seq(BatchEvents(r)) /\ Len(BatchHalt(r)) \in 0..1
<1>1. \A ty \in { "SNAPSHOT_ACCEPTED", "TARGET_COMPUTED", "PLAN_CREATED",
                  "FILL_RECORDED", "STATE_COMMITTED",
                  "RECONCILIATION_COMPLETED", "HALT_RAISED" } :
        \A tm \in {r.decision_time, r.final_account.as_of} : \A pl \in BatchPayloads(r) :
          Event(ty, r, tm, pl) \in BatchEvents(r)
  BY DEF Event, BatchEvents
<1>2. /\ <<r.target_hash>> \in BatchPayloads(r) /\ <<r.plan>> \in BatchPayloads(r)
      /\ <<r.final_account>> \in BatchPayloads(r) /\ <<r.cycle_id>> \in BatchPayloads(r)
      /\ \A i \in 1..r.fills : <<r.cycle_id, i>> \in BatchPayloads(r)
  BY DEF BatchPayloads
<1>3. BatchHead(r) \in Seq(BatchEvents(r)) /\ Len(BatchHead(r)) = 3
  <2>1. /\ Event("SNAPSHOT_ACCEPTED", r, r.decision_time, <<r.target_hash>>) \in BatchEvents(r)
        /\ Event("TARGET_COMPUTED", r, r.decision_time, <<r.target_hash>>) \in BatchEvents(r)
        /\ Event("PLAN_CREATED", r, r.decision_time, <<r.plan>>) \in BatchEvents(r)
    BY <1>1, <1>2
  <2> QED BY <2>1 DEF BatchHead
<1>4. BatchFills(r) \in Seq(BatchEvents(r)) /\ Len(BatchFills(r)) = r.fills
  <2>1. \A i \in 1..r.fills :
          Event("FILL_RECORDED", r, r.final_account.as_of, <<r.cycle_id, i>>) \in BatchEvents(r)
    BY <1>1, <1>2
  <2>2. r.fills \in Nat
    BY RequestsAssumption
  <2>3. BatchFills(r) \in [1..r.fills -> BatchEvents(r)]
    BY <2>1 DEF BatchFills
  <2> QED BY <2>2, <2>3
<1>5. /\ BatchTail(r) \in Seq(BatchEvents(r)) /\ Len(BatchTail(r)) = 2
      /\ BatchHalt(r) \in Seq(BatchEvents(r)) /\ Len(BatchHalt(r)) \in 0..1
  <2> DEFINE u == r.final_account.as_of
  <2>1. /\ Event("STATE_COMMITTED", r, u, <<r.final_account>>) \in BatchEvents(r)
        /\ Event("RECONCILIATION_COMPLETED", r, u, <<r.cycle_id>>) \in BatchEvents(r)
        /\ Event("HALT_RAISED", r, u, <<r.cycle_id>>) \in BatchEvents(r)
    BY <1>1, <1>2
  <2> QED BY <2>1 DEF BatchTail, BatchHalt
<1>6. EventSpecs(r) = BatchHead(r) \o BatchFills(r) \o BatchTail(r) \o BatchHalt(r)
  BY DEF EventSpecs, BatchHead, BatchFills, BatchTail, BatchHalt
<1> QED BY <1>3, <1>4, <1>5, <1>6

\* What stands where in the batch.
LEMMA BatchPlaces ==
    ASSUME NEW r \in Requests
    PROVE  /\ EventSpecs(r) \in Seq(BatchEvents(r))
           /\ r.fills \in Nat
           /\ Len(EventSpecs(r)) \in (r.fills + 5)..(r.fills + 6)
           /\ \A i \in 1..Len(EventSpecs(r)) :
                /\ EventSpecs(r)[i].type = BatchType(r.fills, i)
                /\ i \in 4..(r.fills + 3) => EventSpecs(r)[i].payload = <<r.cycle_id, i - 3>>
<1> DEFINE X == BatchEvents(r)
           n == r.fills
           E == EventSpecs(r)
           l == Len(BatchHalt(r))
<1>1. n \in Nat /\ l \in 0..1
  BY RequestsAssumption, BatchParts
<1>2. /\ E \in Seq(X) /\ Len(E) = n + 5 + l
      /\ \A i \in 1..3 : E[i] = BatchHead(r)[i]
      /\ \A i \in 1..n : E[3 + i] = BatchFills(r)[i]
      /\ \A i \in 1..2 : E[n + 3 + i] = BatchTail(r)[i]
      /\ \A i \in 1..l : E[n + 5 + i] = BatchHalt(r)[i]
  <2> DEFINE h == BatchHead(r)
             f == BatchFills(r)
             t == BatchTail(r)
             e == BatchHalt(r)
  <2>1. /\ h \in Seq(X) /\ f \in Seq(X) /\ t \in Seq(X) /\ e \in Seq(X) /\ n \in Nat
        /\ Len(h) = 3 /\ Len(f) = n /\ Len(t) = 2 /\ Len(e) \in 0..1
    BY <1>1, BatchParts
  <2> HIDE DEF h, f, t, e, X, n
  <2>10. \A p, q \in Seq(X) :
          /\ p \o q \in Seq(X)
          /\ Len(p \o q) = Len(p) + Len(q)
          /\ \A i \in 1..Len(p) : (p \o q)[i] = p[i]
          /\ \A i \in 1..Len(q) : (p \o q)[Len(p) + i] = q[i]
    BY Joined
  <2> DEFINE a == h \o f
             b == a \o t
             c == b \o e
  <2>11. a \in Seq(X) /\ Len(a) = 3 + n
        /\ (\A i \in 1..3 : a[i] = h[i])
        /\ (\A i \in 1..n : a[3 + i] = f[i])
    <3>1. /\ a \in Seq(X)
          /\ Len(a) = Len(h) + Len(f)
          /\ \A i \in 1..Len(h) : a[i] = h[i]
          /\ \A i \in 1..Len(f) : a[Len(h) + i] = f[i]
      BY <2>1, <2>10, Zenon
    <3> QED BY <2>1, <3>1, Zenon
  <2>12. b \in Seq(X) /\ Len(b) = n + 5
        /\ (\A i \in 1..(3 + n) : b[i] = a[i])
        /\ (\A i \in 1..2 : b[n + 3 + i] = t[i])
    <3>1. /\ b \in Seq(X)
          /\ Len(b) = Len(a) + Len(t)
          /\ \A i \in 1..Len(a) : b[i] = a[i]
          /\ \A i \in 1..Len(t) : b[Len(a) + i] = t[i]
      BY <2>1, <2>10, <2>11, Zenon
    <3> HIDE DEF a, b
    <3>2. \A i \in 1..2 : Len(a) + i = n + 3 + i
      BY <2>1, <2>11
    <3> QED BY <2>1, <2>11, <3>1, <3>2
  <2>13. c \in Seq(X) /\ Len(c) = n + 5 + Len(e)
        /\ (\A i \in 1..(n + 5) : c[i] = b[i])
        /\ (\A i \in 1..Len(e) : c[n + 5 + i] = e[i])
    <3>1. /\ c \in Seq(X)
          /\ Len(c) = Len(b) + Len(e)
          /\ \A i \in 1..Len(b) : c[i] = b[i]
          /\ \A i \in 1..Len(e) : c[Len(b) + i] = e[i]
      BY <2>1, <2>10, <2>12, Zenon
    <3> QED BY <2>1, <2>12, <3>1, Zenon
  <2> HIDE DEF a, b, c
  <2>14. ASSUME NEW i \in 1..3 PROVE c[i] = h[i]
    <3>1. i \in 1..(3 + n) /\ i \in 1..(n + 5)
      BY <2>1
    <3> QED BY <2>1, <2>11, <2>12, <2>13, <3>1, Zenon
  <2>15. ASSUME NEW i \in 1..n PROVE c[3 + i] = f[i]
    <3>1. 3 + i \in 1..(3 + n) /\ 3 + i \in 1..(n + 5)
      BY <2>1
    <3>2. c[3 + i] = b[3 + i] /\ b[3 + i] = a[3 + i] /\ a[3 + i] = f[i]
      BY <2>11, <2>12, <2>13, <3>1, Zenon
    <3> QED BY <3>2, Zenon
  <2>16. ASSUME NEW i \in 1..2 PROVE c[n + 3 + i] = t[i]
    <3>1. n + 3 + i \in 1..(n + 5)
      BY <2>1
    <3> QED BY <2>1, <2>12, <2>13, <3>1, Zenon
  <2>17. E = c
    BY BatchParts DEF a, b, c, h, f, t, e
  <2> QED BY <2>13, <2>14, <2>15, <2>16, <2>17, Zenon DEF h, f, t, e
<1>3. ASSUME NEW i \in 1..Len(E)
      PROVE  /\ E[i].type = BatchType(r.fills, i)
             /\ i \in 4..(n + 3) => E[i].payload = <<r.cycle_id, i - 3>>
  <2>1. CASE i \in 1..3
    <3>1. E[i] = BatchHead(r)[i] /\ ~ (i \in 4..(n + 3))
      BY <1>2, <2>1
    <3>2. BatchHead(r)[i].type = BatchType(r.fills, i)
      BY <1>1, <2>1 DEF BatchHead, BatchType, Event
    <3> QED BY <3>1, <3>2
  <2>2. CASE i \in 4..(n + 3)
    <3>1. i - 3 \in 1..n /\ 3 + (i - 3) = i
      BY <1>1, <2>2
    <3>2. E[i] = BatchFills(r)[i - 3]
      BY <1>2, <3>1
    <3>3. BatchType(r.fills, i) = "FILL_RECORDED"
      BY <1>1, <2>2 DEF BatchType
    <3> QED BY <3>1, <3>2, <3>3 DEF BatchFills, Event
  <2>3. CASE i = n + 4
    <3>1. E[i] = BatchTail(r)[1]
      <4>1. i = n + 3 + 1 /\ 1 \in 1..2
        BY <1>1, <2>3
      <4> QED BY <1>2, <4>1, Zenon
    <3>2. BatchType(r.fills, i) = "STATE_COMMITTED" /\ ~ (i \in 4..(n + 3))
      BY <1>1, <2>3 DEF BatchType
    <3> QED BY <3>1, <3>2 DEF BatchTail, Event
  <2>4. CASE i = n + 5
    <3>1. E[i] = BatchTail(r)[2]
      <4>1. i = n + 3 + 2 /\ 2 \in 1..2
        BY <1>1, <2>4
      <4> QED BY <1>2, <4>1, Zenon
    <3>2. BatchType(r.fills, i) = "RECONCILIATION_COMPLETED" /\ ~ (i \in 4..(n + 3))
      BY <1>1, <2>4 DEF BatchType
    <3> QED BY <3>1, <3>2 DEF BatchTail, Event
  <2>5. CASE i = n + 6
    <3>1. l = 1
      BY <1>1, <1>2, <2>5
    <3>2. E[i] = BatchHalt(r)[1]
      <4>1. i = n + 5 + 1 /\ 1 \in 1..l
        BY <1>1, <2>5, <3>1
      <4> QED BY <1>2, <4>1, Zenon
    <3>3. BatchHalt(r)[1].type = "HALT_RAISED"
      BY <3>1 DEF BatchHalt, Event
    <3>4. BatchType(r.fills, i) = "HALT_RAISED" /\ ~ (i \in 4..(n + 3))
      BY <1>1, <2>5 DEF BatchType
    <3> QED BY <3>2, <3>3, <3>4
  <2>6. i \in 1..3 \/ i \in 4..(n + 3) \/ i = n + 4 \/ i = n + 5 \/ i = n + 6
    <3> HIDE DEF n, l, E
    <3> QED BY <1>1, <1>2
  <2> QED BY <2>1, <2>2, <2>3, <2>4, <2>5, <2>6
<1>4. Len(E) \in (n + 5)..(n + 6)
  <2> HIDE DEF n, l, E
  <2> QED BY <1>1, <1>2
<1> QED BY <1>1, <1>2, <1>3, <1>4

\* Only fills share a type.
LEMMA OneOfAType ==
    ASSUME NEW n \in Nat, NEW i \in 1..(n + 6), NEW j \in 1..(n + 6),
           BatchType(n, i) = BatchType(n, j), i # j
    PROVE  i \in 4..(n + 3) /\ j \in 4..(n + 3)
<1>1. \A k \in 1..(n + 6) : k \in 4..(n + 3) \/ k \in {1, 2, 3, n + 4, n + 5, n + 6}
  OBVIOUS
<1>2. \A k \in {1, 2, 3, n + 4, n + 5, n + 6} : BatchType(n, k) # "FILL_RECORDED"
  BY DEF BatchType
<1>3. \A k \in 4..(n + 3) : BatchType(n, k) = "FILL_RECORDED"
  BY DEF BatchType
<1>4. \A k, m \in {1, 2, 3, n + 4, n + 5, n + 6} :
        BatchType(n, k) = BatchType(n, m) => k = m
  BY DEF BatchType
<1> DEFINE fills == 4..(n + 3)
           ends  == {1, 2, 3, n + 4, n + 5, n + 6}
<1> HIDE DEF fills, ends
<1>5. \A k \in 1..(n + 6) : k \in fills \/ k \in ends
  BY <1>1 DEF fills, ends
<1>6. /\ \A k \in ends : BatchType(n, k) # "FILL_RECORDED"
      /\ \A k \in fills : BatchType(n, k) = "FILL_RECORDED"
      /\ \A k, m \in ends : BatchType(n, k) = BatchType(n, m) => k = m
  BY <1>2, <1>3, <1>4 DEF fills, ends
<1>7. i \in fills /\ j \in fills
  BY <1>5, <1>6, Zenon
<1> QED BY <1>7 DEF fills

\* A batch holds no event twice.
LEMMA BatchIsDistinct ==
    ASSUME NEW r \in Requests,
           NEW i \in 1..Len(EventSpecs(r)), NEW j \in 1..Len(EventSpecs(r)),
           SameEvent(EventSpecs(r)[i], EventSpecs(r)[j])
    PROVE  i = j
<1> DEFINE n == r.fills
<1>1. n \in Nat /\ i \in 1..(n + 6) /\ j \in 1..(n + 6)
  BY BatchPlaces
<1>2. BatchType(n, i) = BatchType(n, j)
  BY BatchPlaces DEF SameEvent
<1>3. /\ i \in 4..(n + 3) => EventSpecs(r)[i].payload = <<r.cycle_id, i - 3>>
      /\ j \in 4..(n + 3) => EventSpecs(r)[j].payload = <<r.cycle_id, j - 3>>
      /\ EventSpecs(r)[i].payload = EventSpecs(r)[j].payload
  BY BatchPlaces DEF SameEvent
<1> HIDE DEF n
<1>4. SUFFICES ASSUME i # j PROVE FALSE
  OBVIOUS
<1>5. i \in 4..(n + 3) /\ j \in 4..(n + 3)
  BY <1>1, <1>2, <1>4, OneOfAType
<1>6. <<r.cycle_id, i - 3>> = <<r.cycle_id, j - 3>>
  BY <1>3, <1>5, Zenon
<1>7. i - 3 = j - 3
  BY <1>6
<1> QED BY <1>1, <1>4, <1>7

\* What verifies also verifies cut short after any line.
LEMMA PrefixVerifies ==
    ASSUME NEW s, NEW t, NEW m \in Nat, NEW n \in Nat, m <= n,
           DOMAIN s = 1..m, DOMAIN t = 1..n, \A i \in 1..m : s[i] = t[i],
           VerifyEvents(t)
    PROVE  VerifyEvents(s)
<1>1. \A i, j \in DOMAIN s : ~ SingletonConflict(s[i], s[j])
  <2>1. \A i \in DOMAIN s : i \in DOMAIN t /\ s[i] = t[i]
    OBVIOUS
  <2> QED BY <2>1 DEF VerifyEvents
<1>2. VerifySemantics(s)
  <2> SUFFICES ASSUME NEW j \in 1..m
               PROVE  VerifySemantics(s)!(j)
    BY DEF VerifySemantics
  <2>1. j \in DOMAIN t /\ s[j] = t[j] /\ \A i \in 1..(j - 1) : s[i] = t[i]
    OBVIOUS
  <2>2. VerifySemantics(t)!(j)
    BY <2>1 DEF VerifyEvents, VerifySemantics
  <2>3. ClearsARaisedHalt(t, j) => ClearsARaisedHalt(s, j)
    BY <2>1 DEF ClearsARaisedHalt
  <2>4. /\ { i \in 1..(j - 1) : IsRuntime(s[i]) /\ s[i].sequence = s[j].sequence }
             = { i \in 1..(j - 1) : IsRuntime(t[i]) /\ t[i].sequence = t[j].sequence }
        /\ { i \in 1..(j - 1) : IsRuntime(s[i]) \/ s[i].type = "HALT_CLEARED" }
             = { i \in 1..(j - 1) : IsRuntime(t[i]) \/ t[i].type = "HALT_CLEARED" }
    BY <2>1
  <2> QED BY <2>1, <2>2, <2>3, <2>4
<1> QED BY <1>1, <1>2 DEF VerifyEvents

-----------------------------------------------------------------------------
\* A sequence continued by its next element and the rest is continued by all.
LEMMA OneByOne ==
    ASSUME NEW X, NEW a \in Seq(X)
    PROVE  \A e \in X : \A n, m \in Seq(X) :
             (Len(n) = Len(m) + 1 /\ n[1] = e /\ (\A k \in 1..Len(m) : n[k + 1] = m[k]))
             => Append(a, e) \o m = a \o n
<1> SUFFICES ASSUME NEW e \in X, NEW n \in Seq(X), NEW m \in Seq(X),
                    Len(n) = Len(m) + 1, n[1] = e, \A k \in 1..Len(m) : n[k + 1] = m[k]
             PROVE  Append(a, e) \o m = a \o n
  OBVIOUS
<1>0. \A p, q \in Seq(X) :
        /\ p \o q \in Seq(X)
        /\ Len(p \o q) = Len(p) + Len(q)
        /\ \A k \in 1..Len(p) : (p \o q)[k] = p[k]
        /\ \A k \in 1..Len(q) : (p \o q)[Len(p) + k] = q[k]
  BY Joined
<1> DEFINE b == Append(a, e)
           l == Len(a)
           c == Len(m)
<1>1. /\ b \in Seq(X) /\ l \in Nat /\ c \in Nat /\ Len(b) = l + 1
      /\ \A k \in 1..l : b[k] = a[k]
      /\ b[l + 1] = e
  OBVIOUS
<1>2. /\ b \o m \in Seq(X) /\ Len(b \o m) = Len(b) + c
      /\ \A k \in 1..Len(b) : (b \o m)[k] = b[k]
      /\ \A k \in 1..c : (b \o m)[Len(b) + k] = m[k]
  BY <1>0, <1>1, Zenon
<1>3. /\ a \o n \in Seq(X) /\ Len(a \o n) = l + Len(n)
      /\ \A k \in 1..l : (a \o n)[k] = a[k]
      /\ \A k \in 1..Len(n) : (a \o n)[l + k] = n[k]
  BY <1>0, Zenon
<1> DEFINE s == b \o m
           t == a \o n
<1>4. Len(s) = Len(t)
  BY <1>1, <1>2, <1>3
<1> HIDE DEF b, s, t
<1>5. ASSUME NEW k \in 1..Len(s)
      PROVE  s[k] = t[k]
  <2>1. CASE k \in 1..l
    <3>1. k \in 1..Len(b)
      BY <1>1, <2>1
    <3> QED BY <1>1, <1>2, <1>3, <2>1, <3>1, Zenon DEF s, t
  <2>2. CASE k = l + 1
    <3>1. k \in 1..Len(b) /\ 1 \in 1..Len(n)
      BY <1>1, <2>2
    <3> QED BY <1>1, <1>2, <1>3, <2>2, <3>1, Zenon DEF s, t
  <2>3. CASE k \in (l + 2)..(l + 1 + c)
    <3> DEFINE j == k - (l + 1)
    <3>1. j \in 1..c /\ k = Len(b) + j /\ k = l + (j + 1) /\ j + 1 \in 1..Len(n)
      BY <1>1, <2>3
    <3> HIDE DEF j
    <3>2. s[k] = m[j]
      BY <1>2, <3>1, Zenon DEF s
    <3>3. t[k] = n[j + 1]
      BY <1>3, <3>1, Zenon DEF t
    <3> QED BY <3>1, <3>2, <3>3, Zenon
  <2>4. Len(s) = l + 1 + c
    BY <1>1, <1>2 DEF s
  <2> QED BY <1>1, <2>1, <2>2, <2>3, <2>4
<1>6. s \in Seq(X) /\ t \in Seq(X)
  BY <1>2, <1>3 DEF s, t
<1>7. s = t
  BY <1>4, <1>5, <1>6, SeqEqual
<1> QED BY <1>7 DEF s, t, b

\* The places of the batch whose event a journal does not hold yet.
Pending(log, r) ==
    { k \in DOMAIN EventSpecs(r) : ~ Recorded(log, EventSpecs(r)[k]) }

\* What a batch adds to a journal is one event for every such place.
LEMMA NewEventsShape ==
    ASSUME NEW r \in Requests, NEW log
    PROVE  /\ Pending(log, r) \in SUBSET Nat /\ IsFiniteSet(Pending(log, r))
           /\ NewEvents(log, EventSpecs(r)) = Selection(EventSpecs(r), Pending(log, r))
           /\ NewEvents(log, EventSpecs(r)) \in Seq(JournalEvents)
           /\ Len(NewEvents(log, EventSpecs(r))) = Cardinality(Pending(log, r))
<1> DEFINE S == Pending(log, r)
           E == EventSpecs(r)
<1>1. E \in Seq(BatchEvents(r)) /\ Len(E) \in Nat /\ DOMAIN E = 1..Len(E)
  BY BatchPlaces
<1>2. S \in SUBSET (1..Len(E))
  BY <1>1 DEF Pending
<1>3. IsFiniteSet(S) /\ Cardinality(S) \in Nat
  <2> DEFINE l == Len(E)
  <2>1. l \in Nat /\ 1 \in Int /\ l \in Int
    BY <1>1
  <2> HIDE DEF l
  <2>2. IsFiniteSet(1..l)
    BY <2>1, FS_Interval
  <2>3. S \in SUBSET (1..l)
    BY <1>2 DEF l
  <2> HIDE DEF S
  <2> QED BY <2>2, <2>3, FS_Subset, FS_CardinalityType
<1>4. S \in SUBSET Nat
  BY <1>2
<1>5. NewEvents(log, E) = Selection(E, S)
  BY DEF NewEvents, Pending
<1>6. ASSUME NEW k \in 1..Cardinality(S)
      PROVE  E[Kth(S, k)] \in JournalEvents
  <2>1. Kth(S, k) \in S
    BY <1>3, <1>4, KthFacts
  <2>2. Kth(S, k) \in DOMAIN E
    BY <1>1, <1>2, <2>1
  <2> QED BY <2>2, BatchSequence
<1>7. Selection(E, S) \in [1..Cardinality(S) -> JournalEvents]
  BY <1>6, SelectionIs
<1> HIDE DEF S, E
<1>8. Selection(E, S) \in Seq(JournalEvents) /\ Len(Selection(E, S)) = Cardinality(S)
  BY <1>3, <1>7
<1> QED BY <1>3, <1>4, <1>5, <1>8 DEF S, E

\* A line written is one the batch no longer misses, and the only one.
LEMMA OneLineLess ==
    ASSUME NEW r \in Requests, NEW log \in Seq(JournalEvents), NEW i \in Pending(log, r)
    PROVE  Pending(Append(log, EventSpecs(r)[i]), r) = Pending(log, r) \ {i}
<1> DEFINE E == EventSpecs(r)
           new == Append(log, E[i])
<1>1. i \in DOMAIN E /\ E[i] \in JournalEvents
  BY BatchSequence DEF Pending
<1>2. Range(new) = Range(log) \cup {E[i]}
  BY <1>1, AppendAddsOne
<1>3. \A k \in DOMAIN E : Recorded(new, E[k]) <=> Recorded(log, E[k]) \/ SameEvent(E[i], E[k])
  <2> HIDE DEF new, E
  <2>1. \A k : Recorded(new, E[k]) <=> Recorded(log, E[k]) \/ SameEvent(E[i], E[k])
    BY <1>2 DEF Recorded, SameEvent
  <2> QED BY <2>1
<1>4. \A k \in DOMAIN E : SameEvent(E[i], E[k]) <=> i = k
  <2>1. DOMAIN E = 1..Len(E)
    BY BatchPlaces
  <2>2. ASSUME NEW k \in DOMAIN E, SameEvent(E[i], E[k])
        PROVE  i = k
    BY <1>1, <2>1, <2>2, BatchIsDistinct
  <2> QED BY <2>2 DEF SameEvent
<1> HIDE DEF new
<1> QED BY <1>1, <1>3, <1>4 DEF Pending, new

\* So the file and what the batch still adds to it stay the same whole.
LEMMA LineContinues ==
    ASSUME NEW r \in Requests, NEW log \in Seq(JournalEvents), NEW i \in Pending(log, r),
           \A k \in Pending(log, r) : i <= k
    PROVE  Append(log, EventSpecs(r)[i]) \o NewEvents(Append(log, EventSpecs(r)[i]), EventSpecs(r))
             = log \o NewEvents(log, EventSpecs(r))
<1> DEFINE E == EventSpecs(r)
           S == Pending(log, r)
           new == Append(log, E[i])
           n == NewEvents(log, E)
           m == NewEvents(new, E)
<1>1. E[i] \in JournalEvents
  BY BatchSequence DEF Pending
<1>2. /\ S \in SUBSET Nat /\ IsFiniteSet(S)
      /\ n = Selection(E, S) /\ n \in Seq(JournalEvents) /\ Len(n) = Cardinality(S)
  BY NewEventsShape
<1>3. Pending(new, r) = S \ {i}
  BY OneLineLess
<1>4. /\ m = Selection(E, S \ {i}) /\ m \in Seq(JournalEvents)
      /\ Len(m) = Cardinality(S \ {i})
  <2> HIDE DEF new
  <2> QED BY <1>3, NewEventsShape
<1> HIDE DEF E, S, new, n, m
<1>5. i \in S /\ \A k \in S : i <= k
  BY DEF S
<1>6. /\ Cardinality(S) \in Nat \ {0}
      /\ Cardinality(S \ {i}) = Cardinality(S) - 1
      /\ Kth(S, 1) = i
      /\ \A k \in 1..Cardinality(S \ {i}) : Kth(S, k + 1) = Kth(S \ {i}, k)
  BY <1>2, <1>5, SelectionUnfolds
<1>7. Len(n) = Len(m) + 1
  BY <1>2, <1>4, <1>6
<1>8. n[1] = E[i]
  BY <1>2, <1>6, SelectionIs
<1>9. ASSUME NEW k \in 1..Len(m)
      PROVE  n[k + 1] = m[k]
  <2>1. k + 1 \in 1..Cardinality(S) /\ k \in 1..Cardinality(S \ {i})
    BY <1>4, <1>6
  <2>2. n[k + 1] = E[Kth(S, k + 1)] /\ m[k] = E[Kth(S \ {i}, k)]
    BY <1>2, <1>4, <2>1, SelectionIs
  <2> QED BY <1>6, <2>1, <2>2
<1>10. Append(log, E[i]) \o m = log \o n
  <2>1. \A x \in JournalEvents : \A s, t \in Seq(JournalEvents) :
          (Len(s) = Len(t) + 1 /\ s[1] = x /\ (\A k \in 1..Len(t) : s[k + 1] = t[k]))
          => Append(log, x) \o t = log \o s
    BY OneByOne
  <2>2. n \in Seq(JournalEvents) /\ m \in Seq(JournalEvents) /\ E[i] \in JournalEvents
    BY <1>1, <1>2, <1>4
  <2>3. Len(n) = Len(m) + 1 /\ n[1] = E[i] /\ \A k \in 1..Len(m) : n[k + 1] = m[k]
    BY <1>7, <1>8, <1>9
  <2> QED BY <2>1, <2>2, <2>3, Zenon
<1> QED BY <1>10 DEF E, n, m, new

\* An accepted batch leaves a file that verifies after any number of its lines.
LEMMA ContinuedVerifies ==
    ASSUME NEW r \in Requests, NEW log \in Seq(JournalEvents),
           VerifyEvents(log \o NewEvents(log, EventSpecs(r)))
    PROVE  VerifyEvents(log)
<1> DEFINE n == NewEvents(log, EventSpecs(r))
<1>1. n \in Seq(JournalEvents)
  BY NewEventsShape
<1> HIDE DEF n
<1>2. /\ log \o n \in Seq(JournalEvents)
      /\ Len(log \o n) = Len(log) + Len(n)
      /\ \A i \in 1..Len(log) : (log \o n)[i] = log[i]
  BY <1>1, Joined
<1> DEFINE t == log \o n
<1>3. VerifyEvents(t)
  BY DEF n
<1> HIDE DEF t
<1>4. /\ Len(log) \in Nat /\ Len(t) \in Nat /\ Len(log) <= Len(t)
      /\ DOMAIN log = 1..Len(log) /\ DOMAIN t = 1..Len(t)
      /\ \A i \in 1..Len(log) : log[i] = t[i]
  BY <1>1, <1>2 DEF t
<1> QED BY <1>3, <1>4, PrefixVerifies

-----------------------------------------------------------------------------
\* While a batch is being written, the file and the lines that are still to
\* come verify as a whole, as append_many checked before the first of them.
BatchFits ==
    \A p \in Runners :
        pc[p] = "lines" => VerifyEvents(journal \o NewEvents(journal, EventSpecs(request[p])))

\* Writing a line of the batch, the first one that is missing.
LEMMA WriteLineVerifies ==
    ASSUME IInv, JournalVerifies, BatchFits, NEW p \in Runners, WriteLine(p)
    PROVE  JournalVerifies' /\ BatchFits'
<1> DEFINE r == request[p]
           E == EventSpecs(r)
<1>1. r \in Requests /\ journal \in Seq(JournalEvents)
  BY DEF IInv, OnlyHolderRuns, TypeOK, WriteLine
<1>2. PICK i \in Pending(journal, r) :
        /\ \A k \in Pending(journal, r) : i <= k
        /\ journal' = Append(journal, E[i])
  BY DEF WriteLine, Missing, Pending
<1>3. journal' \o NewEvents(journal', E) = journal \o NewEvents(journal, E)
  BY <1>1, <1>2, LineContinues
<1>4. VerifyEvents(journal \o NewEvents(journal, E))
  BY DEF BatchFits, WriteLine
<1>5. pc' = pc /\ request' = request
  BY DEF WriteLine, control
<1>6. BatchFits'
  <2> SUFFICES ASSUME NEW q \in Runners, pc'[q] = "lines"
               PROVE  VerifyEvents(journal' \o NewEvents(journal', EventSpecs(request'[q])))
    BY DEF BatchFits
  <2>1. q = p
    BY <1>5, OthersIdle DEF WriteLine
  <2> QED BY <1>3, <1>4, <1>5, <2>1
<1>7. journal' \in Seq(JournalEvents)
  BY WriteLineJournal
<1>8. VerifyEvents(journal')
  BY <1>1, <1>3, <1>4, <1>7, ContinuedVerifies
<1> QED BY <1>6, <1>8 DEF JournalVerifies

LEMMA JournalStep ==
    IInv /\ JournalVerifies /\ BatchFits /\ [Next]_vars => (JournalVerifies /\ BatchFits)'
<1> SUFFICES ASSUME IInv, JournalVerifies, BatchFits, [Next]_vars
             PROVE  JournalVerifies' /\ BatchFits'
  OBVIOUS
<1>1. ASSUME NEW p \in Runners, WriteLine(p) PROVE JournalVerifies' /\ BatchFits'
  BY <1>1, WriteLineVerifies
<1>2. ASSUME NEW p \in Runners, BeginAppend(p) PROVE JournalVerifies' /\ BatchFits'
  <2>1. /\ journal' = journal /\ request' = request /\ pc[p] # "idle"
        /\ VerifyEvents(journal \o NewEvents(journal, EventSpecs(request[p])))
        /\ \A q \in Runners \ {p} : pc'[q] = pc[q]
    BY <1>2 DEF BeginAppend, Goto, files, AcceptsBatch, IInv, TypeOK
  <2>2. BatchFits'
    <3> SUFFICES ASSUME NEW q \in Runners, pc'[q] = "lines"
                 PROVE  VerifyEvents(journal \o NewEvents(journal, EventSpecs(request[q])))
      BY <2>1 DEF BatchFits
    <3>1. CASE q = p
      BY <2>1, <3>1
    <3>2. CASE q # p
      BY <2>1, <3>2, OthersIdle
    <3> QED BY <3>1, <3>2
  <2> QED BY <2>1, <2>2 DEF JournalVerifies
<1>3. ASSUME journal' = journal,
             \A q \in Runners : pc'[q] = "lines" => pc[q] = "lines" /\ request'[q] = request[q]
      PROVE  JournalVerifies' /\ BatchFits'
  BY <1>3 DEF JournalVerifies, BatchFits
<1>4. CASE UNCHANGED vars
  BY <1>3, <1>4 DEF vars, files, control
<1>5. ASSUME NEW p \in Runners, NEW r \in Requests, Acquire(p, r)
      PROVE  JournalVerifies' /\ BatchFits'
  BY <1>3, <1>5 DEF Acquire, files, IInv, TypeOK
<1>6. ASSUME NEW p \in Runners, Crash(p) PROVE JournalVerifies' /\ BatchFits'
  BY <1>3, <1>6 DEF Crash, Return, IInv, TypeOK
<1>7. ASSUME NEW p \in Runners, CycleStep(p), ~ WriteLine(p), ~ BeginAppend(p)
      PROVE  JournalVerifies' /\ BatchFits'
  <2>1. /\ journal' = journal
        /\ \A q \in Runners : pc'[q] = "lines" => pc[q] = "lines" /\ request'[q] = request[q]
    BY <1>7
    DEF CycleStep, BeginCycle, RefuseCycle, WriteArtifact, ArtifactsWritten, RefuseAppend,
        LinesWritten, WriteCommitMarker, WriteAccount, AppendTelemetry, RefuseTelemetry,
        RestoreCycle, RefuseRestore, Goto, Return, files, control, IInv, TypeOK
  <2> QED BY <1>3, <2>1
<1> QED BY <1>1, <1>2, <1>4, <1>5, <1>6, <1>7 DEF Next

\* events.jsonl verifies after every step of every interleaving of cycles,
\* crashes between two lines of a batch and retries that continue it included.
THEOREM JournalAlwaysVerifies == Spec => []JournalVerifies
<1>1. Init => JournalVerifies /\ BatchFits
  BY DEF Init, JournalVerifies, BatchFits, VerifyEvents, VerifySemantics
<1>2. IInv /\ JournalVerifies /\ BatchFits /\ [Next]_vars => (JournalVerifies /\ BatchFits)'
  BY JournalStep
<1> QED BY <1>1, <1>2, Invariance, PTL DEF Spec
=============================================================================
