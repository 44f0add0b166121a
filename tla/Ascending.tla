------------------------------ MODULE Ascending ------------------------------
(***************************************************************************)
(* Loops through a vector that keep some of its elements: the indexes      *)
(* kept, in the order of the loop.                                         *)
(***************************************************************************)
EXTENDS Naturals, FiniteSets

\* The numbers of a finite set, the smallest first.
InTurn(S) ==
    [k \in 1 .. Cardinality(S) |-> CHOOSE i \in S : Cardinality({j \in S : j < i}) = k - 1]

\* The items of a sequence at these places, in its order.
ItemsAt(list, places) == [k \in 1 .. Cardinality(places) |-> list[InTurn(places)[k]]]
=============================================================================
