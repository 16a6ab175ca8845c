---------------------------- MODULE JournalRules ----------------------------
(***************************************************************************)
(* The rules of the append-only event journal (journal/atomic.py), as      *)
(* operators over sequences of events.  An event is a record               *)
(* [type, sequence, time, payload]: the hash chain over the events is the  *)
(* order of the sequence itself, and the payload hash is the payload.  A   *)
(* file holds the events of one strategy, as every caller in the           *)
(* repository arranges, so the strategy_id of an event is left out.        *)
(***************************************************************************)
EXTENDS Functions, Selections

\* Event types of which a strategy sequence may hold one payload only.
SingletonEventTypes ==
    { "SNAPSHOT_ACCEPTED", "TARGET_COMPUTED", "PLAN_CREATED", "STATE_COMMITTED",
      "RECONCILIATION_COMPLETED", "HALT_RAISED", "HALT_CLEARED" }

\* The order in which the events of one cycle may appear.
RuntimeEventPhases ==
    [ SNAPSHOT_ACCEPTED        |-> 10,
      TARGET_COMPUTED          |-> 20,
      PLAN_CREATED             |-> 30,
      FILL_RECORDED            |-> 40,
      STATE_COMMITTED          |-> 50,
      RECONCILIATION_COMPLETED |-> 60,
      HALT_RAISED              |-> 70 ]

\* The event types that must already stand in the same cycle.
RuntimeEventPredecessors ==
    [ SNAPSHOT_ACCEPTED        |-> {},
      TARGET_COMPUTED          |-> {"SNAPSHOT_ACCEPTED"},
      PLAN_CREATED             |-> {"TARGET_COMPUTED"},
      FILL_RECORDED            |-> {"PLAN_CREATED"},
      STATE_COMMITTED          |-> {"PLAN_CREATED"},
      RECONCILIATION_COMPLETED |-> {"STATE_COMMITTED"},
      HALT_RAISED              |-> {"RECONCILIATION_COMPLETED"} ]

IsRuntime(e) == e.type \in DOMAIN RuntimeEventPhases

Phase(e) == RuntimeEventPhases[e.type]

\* Two events that may not stand in one journal.
SingletonConflict(e, f) ==
    /\ e.type \in SingletonEventTypes
    /\ e.type = f.type
    /\ e.sequence = f.sequence
    /\ e.payload # f.payload

\* Events are looked up by (type, sequence, payload); the time of an event is
\* not part of its identity.
SameEvent(e, f) ==
    e.type = f.type /\ e.sequence = f.sequence /\ e.payload = f.payload

\* A clearance at position j answers a halt that no other clearance answered.
ClearsARaisedHalt(events, j) ==
    \E i \in 1..(j - 1) :
        /\ events[i].type = "HALT_RAISED"
        /\ \A k \in (i + 1)..(j - 1) : events[k].type # "HALT_CLEARED"

\* Sequences never go back; inside a cycle phases never go back and every
\* event follows its predecessors; the clock never goes back across phases.
VerifySemantics(events) ==
    \A j \in DOMAIN events :
        LET e       == events[j]
            earlier == 1..(j - 1)
            cycle   == { i \in earlier : /\ IsRuntime(events[i])
                                         /\ events[i].sequence = e.sequence }
            clocked == { i \in earlier : \/ IsRuntime(events[i])
                                         \/ events[i].type = "HALT_CLEARED" }
            onTime  == \A i \in clocked : events[i].time <= e.time
        IN  /\ \A i \in earlier : events[i].sequence <= e.sequence
            /\ IsRuntime(e) =>
                 /\ \A i \in cycle : Phase(events[i]) <= Phase(e)
                 /\ (\A i \in cycle : Phase(events[i]) < Phase(e)) => onTime
                 /\ RuntimeEventPredecessors[e.type]
                      \subseteq { events[i].type : i \in cycle }
            /\ e.type = "HALT_CLEARED" =>
                 /\ onTime
                 /\ ClearsARaisedHalt(events, j)

\* What verify() accepts of the whole file.
VerifyEvents(events) ==
    /\ \A i, j \in DOMAIN events : ~ SingletonConflict(events[i], events[j])
    /\ VerifySemantics(events)

\* The events of a batch that the file does not hold yet, in batch order.
Recorded(events, e) == \E f \in Range(events) : SameEvent(e, f)

NewEvents(events, specs) ==
    Selection(specs, { i \in DOMAIN specs : ~ Recorded(events, specs[i]) })

\* Slip: the batch is compared with the file, the extended file not verified.
AcceptsBatch_ConflictsOnly(events, specs) ==
    \A e \in Range(specs), f \in Range(events) \cup Range(specs) :
        ~ SingletonConflict(e, f)

\* append_many writes nothing at all unless the extended file verifies.
AcceptsBatch(events, specs) ==
    /\ \A e \in Range(specs), f \in Range(events) \cup Range(specs) :
           ~ SingletonConflict(e, f)
    /\ VerifyEvents(events \o NewEvents(events, specs))
=============================================================================
