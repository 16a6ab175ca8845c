----------------------------- MODULE PaperLedger ----------------------------
(***************************************************************************)
(* What the paper-cycle engine promises about the money: one account that  *)
(* moves only from the account a sealed cycle started from to the account  *)
(* the cycle ended with.  Sealing a cycle and moving the account are two   *)
(* steps; sealed cycles are never unsealed.  Locks, files, journal lines   *)
(* and crashes have no place here.                                         *)
(***************************************************************************)
EXTENDS Naturals

CONSTANTS Accounts, NoAccount, Requests

VARIABLES head, sealed

ledger == <<head, sealed>>

Init ==
    /\ head \in {NoAccount} \cup { a \in Accounts : a.sequence = 0 }
    /\ sealed = {}

\* A cycle is sealed against the account that stands; without any account it
\* can only be the first cycle ever, and it starts from a fresh one.
Seal(r) ==
    /\ r \notin sealed
    /\ \/ head = r.starting_account
       \/ head = NoAccount /\ sealed = {} /\ r.starting_account.sequence = 0
    /\ sealed' = sealed \cup {r}
    /\ UNCHANGED head

Advance(r) ==
    /\ r \in sealed
    /\ \/ head = r.starting_account
       \/ head = NoAccount /\ sealed = {r}
    /\ head' = r.final_account
    /\ UNCHANGED sealed

Next == \E r \in Requests : Seal(r) \/ Advance(r)

Spec == Init /\ [][Next]_ledger
=============================================================================
