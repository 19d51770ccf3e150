------------------------------ MODULE Ordered ------------------------------
(***************************************************************************)
(* Finite sets put in order: what ORDER BY makes of the rows of a table,   *)
(* and what a filter leaves of an array.                                   *)
(***************************************************************************)
EXTENDS Naturals, Sequences, FiniteSets

\* The sequence of the elements of S, each at the place given by how many
\* others come before it.
InOrder(S, Precedes(_, _)) ==
    [i \in 1..Cardinality(S) |->
        CHOOSE x \in S : Cardinality({y \in S : Precedes(y, x)}) = i - 1]

Less(i, j) == i < j

\* What is left of a sequence when only the elements at some indices are kept.
KeptAt(seq, indices) ==
    LET places == InOrder(indices, Less)
    IN  [k \in DOMAIN places |-> seq[places[k]]]
=============================================================================
