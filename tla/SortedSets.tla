----------------------------- MODULE SortedSets -----------------------------
(***************************************************************************)
(* A finite set as the sequence that a sort makes of it.                   *)
(***************************************************************************)
EXTENDS Integers, FiniteSets

\* The elements of S in the order R, a set of pairs: at each place the element
\* that has as many before it.
Ascending(S, R) ==
    [k \in 1..Cardinality(S) |-> CHOOSE x \in S : Cardinality({y \in S : <<y, x>> \in R}) = k - 1]
=============================================================================
