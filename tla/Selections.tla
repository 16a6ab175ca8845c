----------------------------- MODULE Selections -----------------------------
(***************************************************************************)
(* The elements of a sequence that stand at given positions, in their      *)
(* order: what a loop that appends some items of a list to another leaves. *)
(* SelectSeq means the same, but is not defined for the provers.           *)
(***************************************************************************)
EXTENDS Naturals, Sequences, FiniteSets

\* How many of the positions S come up to i.
Rank(S, i) == Cardinality({ j \in S : j <= i })

\* The k-th position of S.
Kth(S, k) == CHOOSE i \in S : Rank(S, i) = k

\* The positions are bound by T, and so computed once.
Selection(seq, S) ==
    CHOOSE selected \in { [k \in 1..Cardinality(T) |-> seq[Kth(T, k)]] : T \in {S} } : TRUE
=============================================================================
