------------------------------- MODULE Ranks -------------------------------
(* The members of a finite set, one after another.                         *)
EXTENDS Naturals, FiniteSets

\* S in the order that R gives: <<a, b>> is in R if a comes before b.
InOrder(S, R) ==
  [n \in 1 .. Cardinality(S) |->
     CHOOSE a \in S : Cardinality({b \in S : b = a \/ <<b, a>> \in R}) = n]

\* The entries of a list at the places S, in the order R of places.
Picked(list, S, R) == [n \in 1 .. Cardinality(S) |-> list[InOrder(S, R)[n]]]

Earlier(S) == {p \in S \X S : p[1] < p[2]}
=============================================================================
