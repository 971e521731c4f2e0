------------------------------- MODULE Order --------------------------------
(***************************************************************************)
(* A loop over a list in which some entries are skipped comes to the       *)
(* others in their order: InOrder lists the numbers of a finite set so.    *)
(***************************************************************************)
EXTENDS Integers, FiniteSets

\* How many come before i.
PlaceIn(S, i) == Cardinality({j \in S : j < i})

InOrder(S) == [k \in 1 .. Cardinality(S) |-> CHOOSE i \in S : PlaceIn(S, i) = k - 1]

=============================================================================
