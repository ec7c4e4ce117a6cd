---------------------------- MODULE SortedSeqs ----------------------------
(***************************************************************************)
(* Sequences in an order given by numbers, and what a filter keeps of a    *)
(* sequence.  Both are defined by counting, without recursion.             *)
(***************************************************************************)
EXTENDS Integers, FiniteSets, Sequences

\* The elements of S by ascending rank; no two have the same rank.
Sorted(S, rank) ==
    [k \in 1..Cardinality(S) |->
        CHOOSE x \in S : Cardinality({y \in S : rank[y] <= rank[x]}) = k]

\* What is left of s if only the positions in I stay, in their order.
Kept(s, I) ==
    LET at == Sorted(I, [i \in I |-> i])
    IN  [k \in 1..Cardinality(I) |-> s[at[k]]]
=============================================================================
