-------------------------- MODULE PaperStackProofs --------------------------
(***************************************************************************)
(* The forward worker under its supervisor, for every list of children,    *)
(* any number of launches, days and faults: what ForwardWorkerProofs shows *)
(* of a step of the worker holds of the stack, and no child outlives a     *)
(* launch.                                                                 *)
(***************************************************************************)
EXTENDS PaperStack, ForwardWorkerProofs

\* Only children that were started run, and those that were waited for do not;
\* a launch ends with all of them waited for and begins with none.
SupervisorInv ==
    /\ started \in 0..Len(Children)
    /\ reaped \in 0..started
    /\ supervisor # "reaping" => reaped = 0
    /\ supervisor = "gone" => started = 0
    /\ Worker \notin running
    /\ Alive \subseteq Started
    /\ \A i \in 1..reaped : Children[i] \notin Alive

StackInv == WorkerInv /\ SupervisorInv

-----------------------------------------------------------------------------
LEMMA ChildrenAreNamed ==
    /\ Len(Children) \in Nat
    /\ DOMAIN Children = 1..Len(Children)
    /\ \A i, j \in 1..Len(Children) : Children[i] = Children[j] => i = j
<1>1. Len(Children) \in Nat /\ DOMAIN Children = 1..Len(Children)
  BY StackAssumption
<1> QED BY <1>1, StackAssumption DEF IsInjective

LEMMA WorkerIsNotBorn ==
    ASSUME WorkerStep \/ Die \/ CloseDay \/ ReviseBar
    PROVE  process' = process \/ process' # "up"
  BY DEF WorkerStep, Poll, RefuseFeed, Bootstrap, LoadLedger, AnnounceLedger, ConfirmLedger,
         ExitOnKeyError, RecordRevision, NothingRevised, AssetsChanged, Advance, JournalDay,
         SaveLedger, Observe, Publish, Die, CloseDay, ReviseBar

\* A child that ends is gone, and no other comes to life.
LEMMA EndsEnds ==
    ASSUME Worker \notin running, NEW child, Ends(child)
    PROVE  Alive' \subseteq Alive /\ child \notin Alive' /\ Worker \notin running'
  BY DEF Ends, Die, Alive, workerVars

\* A step in which only children end, and the supervisor does nothing.
LEMMA NobodyIsBorn ==
    ASSUME SupervisorInv, Alive' \subseteq Alive, Worker \notin running',
           UNCHANGED <<supervisor, started, reaped>>
    PROVE  SupervisorInv'
  BY DEF SupervisorInv, Started

\* A step of the worker, the market, a signal or the children.
LEMMA OthersInv ==
    ASSUME SupervisorInv,
           \/ (WorkerStep \/ CloseDay \/ ReviseBar \/ Die) /\ UNCHANGED stackVars
           \/ HonourTerm \/ OtherExits \/ RequestStop \/ UNCHANGED vars
    PROVE  SupervisorInv'
<1>1. UNCHANGED <<started, reaped>>
  BY DEF stackVars, vars, HonourTerm, OtherExits, RequestStop
<1>2. UNCHANGED supervisor
  BY DEF stackVars, vars, HonourTerm, OtherExits, RequestStop
<1>3. Alive' \subseteq Alive /\ Worker \notin running'
  <2>1. CASE (WorkerStep \/ CloseDay \/ ReviseBar \/ Die) /\ UNCHANGED stackVars
    BY <2>1, WorkerIsNotBorn DEF SupervisorInv, Alive, stackVars
  <2>2. CASE HonourTerm
    BY <2>2, EndsEnds DEF SupervisorInv, HonourTerm
  <2>3. CASE OtherExits \/ RequestStop \/ UNCHANGED vars
    BY <2>3 DEF SupervisorInv, OtherExits, RequestStop, vars, stackVars, workerVars, Alive
  <2> QED BY <2>1, <2>2, <2>3
<1> QED BY <1>1, <1>2, <1>3, NobodyIsBorn

LEMMA StartChildInv ==
    ASSUME SupervisorInv, StartChild
    PROVE  SupervisorInv'
<1>1. /\ started' = started + 1 /\ started \in Nat /\ started' \in 0..Len(Children)
      /\ reaped' = reaped /\ reaped = 0 /\ supervisor' = supervisor /\ supervisor = "starting"
  BY ChildrenAreNamed DEF StartChild, SupervisorInv
<1>2. Started' = Started \cup {Children[started']}
  BY <1>1 DEF Started
<1>3. Alive' \subseteq Alive \cup {Children[started']} /\ Worker \notin running'
  <2>1. CASE Children[started'] = Worker
    BY <2>1 DEF StartChild, Start, Alive, SupervisorInv
  <2>2. CASE Children[started'] # Worker
    BY <2>2 DEF StartChild, workerVars, Alive, SupervisorInv
  <2> QED BY <2>1, <2>2
<1> QED BY <1>1, <1>2, <1>3 DEF SupervisorInv

\* The supervisor turns to another place and no child is touched.
LEMMA TurnsInv ==
    ASSUME SupervisorInv, StartFails \/ BeginWatch \/ EndWatch \/ Terminate \/ Relaunch
    PROVE  SupervisorInv'
<1>1. /\ UNCHANGED <<process, running, started, reaped>>
      /\ supervisor # "reaping" /\ supervisor' # "gone"
  BY DEF StartFails, BeginWatch, EndWatch, Terminate, Relaunch, workerVars
<1> QED BY <1>1 DEF SupervisorInv, Alive, Started

LEMMA ReapInv ==
    ASSUME SupervisorInv, ReapExited \/ KillAfterDeadline
    PROVE  SupervisorInv'
<1>1. /\ reaped \in Nat /\ started \in 0..Len(Children) /\ reaped' = reaped + 1
      /\ reaped' \in 0..started
      /\ UNCHANGED <<supervisor, started>> /\ supervisor = "reaping"
  BY ChildrenAreNamed DEF ReapExited, KillAfterDeadline, SupervisorInv
<1>2. Alive' \subseteq Alive /\ Children[reaped + 1] \notin Alive' /\ Worker \notin running'
  <2>1. CASE ReapExited
    BY <2>1 DEF ReapExited, workerVars, Alive, SupervisorInv
  <2>2. CASE KillAfterDeadline
    BY <2>2, EndsEnds DEF KillAfterDeadline, SupervisorInv
  <2> QED BY <2>1, <2>2
<1>3. \A i \in 1..reaped' : Children[i] \notin Alive'
  <2> SUFFICES ASSUME NEW i \in 1..(reaped + 1) PROVE Children[i] \notin Alive'
    BY <1>1
  <2>1. CASE i = reaped + 1
    BY <1>2, <2>1
  <2>2. CASE i # reaped + 1
    <3>1. i \in 1..reaped
      BY <1>1, <2>2
    <3> QED BY <1>2, <3>1 DEF SupervisorInv
  <2> QED BY <2>1, <2>2
<1> QED BY <1>1, <1>2, <1>3 DEF SupervisorInv, Started

\* The launch ends when every child has been waited for.
LEMMA LeaveInv ==
    ASSUME SupervisorInv, Leave
    PROVE  SupervisorInv'
<1>1. Alive = {}
  <2>1. \A i \in 1..started : Children[i] \notin Alive
    BY DEF SupervisorInv, Leave
  <2> QED BY <2>1 DEF SupervisorInv, Started
<1>2. /\ Alive' = {} /\ running' = running /\ started' = 0 /\ reaped' = 0
      /\ supervisor' = "gone"
  BY <1>1 DEF Leave, workerVars, Alive
<1> QED BY <1>2, ChildrenAreNamed DEF SupervisorInv

-----------------------------------------------------------------------------
\* The stack keeps its invariant whatever happens.
THEOREM StackInvariance == Spec => []StackInv
<1>1. Init => StackInv
  <2> SUFFICES ASSUME Init PROVE StackInv
    OBVIOUS
  <2>1. WorkerInv
    BY WorkerInitInv DEF Init
  <2>2. SupervisorInv
    BY ChildrenAreNamed DEF Init, SupervisorInv, Alive
  <2> QED BY <2>1, <2>2 DEF StackInv
<1>2. StackInv /\ [Next]_vars => StackInv'
  <2> SUFFICES ASSUME StackInv, [Next]_vars PROVE StackInv'
    OBVIOUS
  <2> USE DEF StackInv
  <2>1. WorkerInv'
    <3>1. WorkerStep \/ Start \/ CloseDay \/ ReviseBar \/ Die \/ UNCHANGED workerVars
      BY DEF Next, vars, SupervisorStep, StartChild, StartFails, BeginWatch, EndWatch, Terminate,
             ReapExited, KillAfterDeadline, Leave, HonourTerm, OtherExits, RequestStop, Relaunch,
             Ends
    <3> QED BY <3>1, WorkerStepInv, OutsideInv, DieInv
  <2>2. SupervisorInv'
    BY OthersInv, StartChildInv, TurnsInv, ReapInv, LeaveInv DEF Next, SupervisorStep
  <2> QED BY <2>1, <2>2
<1> QED BY <1>1, <1>2, PTL DEF Spec

\* The variables have their types; in particular a poll holds a copy of the
\* ledger exactly from its load to its publication.
THEOREM WorkerTypeCorrect == Spec => []WorkerTypeOK
<1>1. StackInv => WorkerTypeOK
  BY DEF StackInv, WorkerInv
<1> QED BY <1>1, StackInvariance, PTL

\* Write-ahead: no day of the saved ledger is without its line, whenever the
\* worker is killed, ends, is refused a feed or is started again
\* (_advance_and_persist writes the lines before it saves).
THEOREM JournalIsAhead == Spec => []EveryDayIsJournalled
<1>1. StackInv => EveryDayIsJournalled
  BY DEF StackInv, WorkerInv
<1> QED BY <1>1, StackInvariance, PTL

\* The A/B study sees each day once, in order, and not before the ledger;
\* the published snapshot is never ahead of the ledger either.
THEOREM StudyFollowsTheLedger == Spec => []PairsFollowTheLedger
<1>1. StackInv => PairsFollowTheLedger
  BY DEF StackInv, WorkerInv
<1> QED BY <1>1, StackInvariance, PTL

\* A save of the ledger continues it by consecutive days and rewrites none.
THEOREM LedgerGrowsByDays == Spec => ProcessedDaysGrow
<1>1. StackInv /\ [Next]_vars
        => [ ledger' # ledger /\ ledger # NoLedger =>
               /\ IsPrefix(ledger.days, ledger'.days)
               /\ DayByDay(ledger') ]_workerVars
  <2> SUFFICES ASSUME StackInv, [Next]_vars, ledger' # ledger, ledger # NoLedger
               PROVE  IsPrefix(ledger.days, ledger'.days) /\ DayByDay(ledger')
    OBVIOUS
  <2>1. WorkerStep \/ Start \/ CloseDay \/ ReviseBar \/ Die \/ UNCHANGED workerVars
    BY DEF Next, vars, SupervisorStep, StartChild, StartFails, BeginWatch, EndWatch, Terminate,
           ReapExited, KillAfterDeadline, Leave, HonourTerm, OtherExits, RequestStop, Relaunch,
           Ends
  <2> QED BY <2>1, SavedLedgerGrows DEF StackInv
<1> QED BY <1>1, StackInvariance, PTL DEF Spec, ProcessedDaysGrow

\* A launch that has ended leaves no child running, however it came to end, and
\* the next one begins with none: two workers never write the same files.
THEOREM NoOrphans == Spec => []NoChildOutlives
<1>1. StackInv => NoChildOutlives
  <2>1. SupervisorInv /\ supervisor = "gone" => Started = {}
    BY DEF SupervisorInv, Started
  <2> QED BY <2>1 DEF StackInv, SupervisorInv, NoChildOutlives
<1> QED BY <1>1, StackInvariance, PTL

=============================================================================
