----------------------------- MODULE PaperStack -----------------------------
(***************************************************************************)
(* The supervisor of the paper processes (scripts/run_paper_stack.py) and  *)
(* its children: the forward worker in full, the others as processes that  *)
(* run, exit on their own and may be slow to die. When one child ends, or  *)
(* a signal asks for it, all of them are terminated, killed after the      *)
(* deadline, and waited for; the container then starts the stack anew.     *)
(***************************************************************************)
EXTENDS ForwardWorker

CONSTANTS
    Worker,         \* the child that is the forward worker
    Children,       \* all children, in the order they are started
    MaxLaunches     \* bound: starts of the stack

ASSUME StackAssumption ==
    /\ Children \in Seq(Range(Children))
    /\ IsInjective(Children)
    /\ Worker \in Range(Children)
    /\ MaxLaunches \in Nat \ {0}

VARIABLES
    supervisor,     \* "starting", "watching", "stopping", "reaping" or "gone"
    started,        \* number of children this launch has started
    running,        \* the children, the worker left out, that are running
    stop_requested, \* SIGINT or SIGTERM has arrived; reset once nobody reads it
    terminated,     \* children that were sent SIGTERM
    reaped,         \* number of children waited for
    launches        \* launches so far

stackVars == <<supervisor, started, running, stop_requested, terminated, reaped, launches>>
vars == <<workerVars, stackVars>>

Alive == running \cup (IF process = "up" THEN {Worker} ELSE {})
Started == {Children[i] : i \in 1..started}

Init ==
    /\ WorkerInit
    /\ process = "down"
    /\ supervisor = "starting"
    /\ started = 0
    /\ stop_requested = FALSE
    /\ terminated = {}
    /\ reaped = 0
    /\ running = {}
    /\ launches = 1

(***************************************************************************)
(* The supervisor                                                          *)
(***************************************************************************)
StartChild ==
    /\ supervisor = "starting"
    /\ started < Len(Children)
    /\ started' = started + 1
    /\ LET child == Children[started']
       IN  IF child = Worker
           THEN Start /\ UNCHANGED running
           ELSE running' = running \cup {child} /\ UNCHANGED workerVars
    /\ UNCHANGED <<supervisor, stop_requested, terminated, reaped, launches>>

\* Popen raises, for instance because the program is not installed.
StartFails ==
    /\ supervisor = "starting"
    /\ started < Len(Children)
    /\ supervisor' = "stopping"
    /\ stop_requested' = FALSE
    /\ UNCHANGED workerVars
    /\ UNCHANGED <<started, running, terminated, reaped, launches>>

BeginWatch ==
    /\ supervisor = "starting"
    /\ started = Len(Children)
    /\ supervisor' = "watching"
    /\ UNCHANGED workerVars
    /\ UNCHANGED <<started, running, stop_requested, terminated, reaped, launches>>

\* Slip: only the first child is polled.
MustStop_FirstOnly == stop_requested \/ ~({Children[1]} \subseteq Alive)

\* The loop ends by its condition or by its return; both pass the finally.
MustStop == stop_requested \/ ~(Started \subseteq Alive)

EndWatch ==
    /\ supervisor = "watching"
    /\ MustStop
    /\ supervisor' = "stopping"
    /\ stop_requested' = FALSE
    /\ UNCHANGED workerVars
    /\ UNCHANGED <<started, running, terminated, reaped, launches>>

\* _terminate: SIGTERM to every child that is still running, ...
Terminate ==
    /\ supervisor = "stopping"
    /\ terminated' = Started \cap Alive
    /\ supervisor' = "reaping"
    /\ UNCHANGED workerVars
    /\ UNCHANGED <<started, running, stop_requested, reaped, launches>>

Ends(child) ==
    IF child = Worker
    THEN Die /\ UNCHANGED running
    ELSE running' = running \ {child} /\ UNCHANGED workerVars

\* ... then each is waited for in turn, ...
ReapExited ==
    /\ supervisor = "reaping"
    /\ reaped < started
    /\ Children[reaped + 1] \notin Alive
    /\ reaped' = reaped + 1
    /\ UNCHANGED workerVars
    /\ UNCHANGED <<supervisor, started, running, stop_requested, terminated, launches>>

\* Slip: the deadline passes and the child is left.
KillAfterDeadline_Leaves ==
    /\ supervisor = "reaping"
    /\ reaped < started
    /\ Children[reaped + 1] \in Alive
    /\ reaped' = reaped + 1
    /\ UNCHANGED workerVars
    /\ UNCHANGED <<supervisor, started, running, stop_requested, terminated, launches>>

\* ... and killed when the deadline passes first.
KillAfterDeadline ==
    /\ supervisor = "reaping"
    /\ reaped < started
    /\ Children[reaped + 1] \in Alive
    /\ Ends(Children[reaped + 1])
    /\ reaped' = reaped + 1
    /\ UNCHANGED <<supervisor, started, stop_requested, terminated, launches>>

\* The locals of main go with it.
Leave ==
    /\ supervisor = "reaping"
    /\ reaped = started
    /\ supervisor' = "gone"
    /\ started' = 0
    /\ terminated' = {}
    /\ reaped' = 0
    /\ UNCHANGED <<workerVars, running, stop_requested, launches>>

SupervisorStep ==
    \/ StartChild \/ StartFails \/ BeginWatch \/ EndWatch \/ Terminate \/ ReapExited
    \/ KillAfterDeadline \/ Leave

(***************************************************************************)
(* Children, signals, the container                                        *)
(***************************************************************************)
HonourTerm ==
    /\ \E child \in terminated \cap Alive : Ends(child)
    /\ UNCHANGED <<supervisor, started, stop_requested, terminated, reaped, launches>>

OtherExits ==
    /\ \E child \in running : running' = running \ {child}
    /\ UNCHANGED workerVars
    /\ UNCHANGED <<supervisor, started, stop_requested, terminated, reaped, launches>>

\* Before main has installed its handler a signal ends a stack without children;
\* after the loop has ended nobody reads the flag.
RequestStop ==
    /\ supervisor \in {"starting", "watching"}
    /\ ~stop_requested
    /\ stop_requested' = TRUE
    /\ UNCHANGED workerVars
    /\ UNCHANGED <<supervisor, started, running, terminated, reaped, launches>>

\* The container ends with its first process and is started again.
Relaunch ==
    /\ supervisor = "gone"
    /\ launches < MaxLaunches
    /\ launches' = launches + 1
    /\ supervisor' = "starting"
    /\ UNCHANGED <<workerVars, running>>
    /\ UNCHANGED <<started, stop_requested, terminated, reaped>>

Next ==
    \/ WorkerStep /\ UNCHANGED stackVars
    \/ CloseDay /\ UNCHANGED stackVars
    \/ ReviseBar /\ UNCHANGED stackVars
    \/ Die /\ UNCHANGED stackVars
    \/ SupervisorStep
    \/ HonourTerm
    \/ OtherExits
    \/ RequestStop
    \/ Relaunch

\* The worker polls in a loop and computes what it has begun; days close; the
\* supervisor looks twice a second and kills what does not end in time.
Fairness ==
    /\ WF_vars(WorkerStep /\ UNCHANGED stackVars)
    /\ WF_vars(CloseDay /\ UNCHANGED stackVars)
    /\ WF_vars(SupervisorStep)

Spec == Init /\ [][Next]_vars

FairSpec == Spec /\ Fairness

(***************************************************************************)
(* What is claimed                                                         *)
(***************************************************************************)
\* An orderly end leaves no child behind, whether it came in the middle of the
\* start, from a child that died, from a signal, or past a child that ignored
\* SIGTERM; so the next launch never runs a second writer on the same files.
NoChildOutlives ==
    /\ supervisor = "gone" => Alive = {}
    /\ supervisor = "starting" => Alive \subseteq Started

\* A child that ends takes the others with it: the supervisor does not go on
\* watching half a stack, and does not wait for ever for a child to die.
StopsTogether == (supervisor = "watching" /\ Alive # Started) ~> (supervisor = "gone" /\ Alive = {})

\* Whatever days were missed while the stack was down or its feed incomplete:
\* as long as the journal verifies and the assets are those of the ledger, a
\* worker that stays up brings the ledger to the last closed day.
CatchesUp ==
    [](process = "up" /\ Verifies(journal) /\ (ledger # NoLedger => ledger.assets = Assets))
      ~> (ledger # NoLedger /\ Last(ledger.days) = MaxDay)
=============================================================================
