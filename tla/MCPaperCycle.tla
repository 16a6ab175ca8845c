---------------------------- MODULE MCPaperCycle ----------------------------
(***************************************************************************)
(* Six requests  around three generations of one account.                  *)
(*   first, requoted    start from a0 under one plan, with different quotes *)
(*   rival              starts from a0 under a later strategy snapshot      *)
(*   second             continues from the account first ends with, halts   *)
(*   sameclock          continues from it without moving the clock          *)
(*   broken             cannot be computed at all                           *)
(***************************************************************************)
EXTENDS PaperCycle, TLC

Account(name, sequence, as_of) ==
    [account_hash |-> name, sequence |-> sequence, as_of |-> as_of]

a0 == Account("a0", 0, 0)
a1 == Account("a1", 2, 3)
b1 == Account("b1", 2, 4)
c1 == Account("c1", 2, 5)
a2 == Account("a2", 4, 5)
d2 == Account("d2", 4, 3)

MCAccounts == {a0, a1, b1, c1, a2, d2}

Cycle(name, start, final, state_sequence, target, time, plan, fills, status) ==
    [ cycle_id |-> name, starting_account |-> start, final_account |-> final,
      state_sequence |-> state_sequence, target_hash |-> target,
      decision_time |-> time, plan |-> plan, fills |-> fills, status |-> status ]

first     == Cycle("first",     a0, a1, 1, "t1", 1, "p1", 1, "committed")
requoted  == Cycle("requoted",  a0, b1, 1, "t1", 1, "p1", 1, "committed")
rival     == Cycle("rival",     a0, c1, 2, "t2", 4, "p2", 0, "halt")
second    == Cycle("second",    a1, a2, 2, "t2", 4, "p3", 1, "halt")
sameclock == Cycle("sameclock", a1, d2, 3, "t3", 3, "p4", 0, "committed")
broken    == Cycle("broken",    a1, a2, 2, "t2", 4, "p5", 0, "raises")

MCRequests == {first, requoted, rival, second, sameclock, broken}

MCRunnerSymmetry == Permutations(Runners)
=============================================================================
