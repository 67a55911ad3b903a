------------------------------ MODULE MCOrders ------------------------------
(* Orders on small instances: one key that two requests share, or one      *)
(* request; the other calls are one or two.                                *)
EXTENDS Orders, TLC

CONSTANT k1

OneKey == [r \in Requests |-> k1]

Symmetry == Permutations(Tasks)

(* One order and the calls around it: it is placed or entered by hand.     *)
OneOrder ==
  (\E r \in Requests : place'[r] # "start") => \A e \in Entries : entry'[e] = "start"

RacesSpec == Init /\ [][Next /\ OneOrder]_vars
=============================================================================
