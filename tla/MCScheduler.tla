----------------------------- MODULE MCScheduler ----------------------------
(***************************************************************************)
(* Three envelopes: one for the first cycle of an account, one for a rival *)
(* that starts from the same account later, one for the cycle that follows *)
(* the first and has to wait for it.                                       *)
(***************************************************************************)
EXTENDS Scheduler

Account(name, sequence, as_of) ==
    [account_hash |-> name, sequence |-> sequence, as_of |-> as_of]

a0 == Account("a0", 0, 0)
a1 == Account("a1", 2, 0)
c1 == Account("c1", 2, 1)
a2 == Account("a2", 4, 1)

MCAccounts == {a0, a1, c1, a2}

Cycle(name, start, final, state_sequence, target, time, plan, fills, status) ==
    [ cycle_id |-> name, starting_account |-> start, final_account |-> final,
      state_sequence |-> state_sequence, target_hash |-> target,
      decision_time |-> time, plan |-> plan, fills |-> fills, status |-> status ]

first  == Cycle("first",  a0, a1, 1, "t1", 0, "p1", 0, "committed")
rival  == Cycle("rival",  a0, c1, 2, "t2", 1, "p2", 0, "halt")
second == Cycle("second", a1, a2, 2, "t2", 1, "p3", 0, "committed")

MCRequests == {first, rival, second}

Envelope(id, cycle, created, expires) ==
    [ request_id |-> id, request |-> cycle, created |-> created,
      not_before |-> created, expires |-> expires ]

\* Expiry beyond the bound of the clock.
MCLongLived ==
    { Envelope(1, first, 0, 9), Envelope(2, rival, 1, 9), Envelope(3, second, 1, 9) }

\* Smaller instances.
MCTwo == { Envelope(1, first, 0, 1), Envelope(2, rival, 1, 9) }

MCRivals == {first, rival}

\* One envelope soon to expire.
MCSoon == { Envelope(1, first, 0, 1) }

\* Two rivals, one of them to expire.
MCOneExpires == { Envelope(1, first, 0, 9), Envelope(2, rival, 1, 2) }
=============================================================================
