------------------------------- MODULE Selection -------------------------------
(***************************************************************************)
(* The elements of a sequence at some of its positions, in their order.    *)
(* It is SelectSeq, with the positions counted instead of a recursion over *)
(* the sequence: that is what SelectionProofs can reason about.            *)
(***************************************************************************)
EXTENDS Integers, Sequences, FiniteSets

\* The number of positions up to i.
Rank(ps, i) == Cardinality({j \in ps : j <= i})

\* The k-th of the positions.
Nth(ps, k) == CHOOSE i \in ps : Rank(ps, i) = k

Selected(s, ps) == [k \in 1 .. Cardinality(ps) |-> s[Nth(ps, k)]]
================================================================================
