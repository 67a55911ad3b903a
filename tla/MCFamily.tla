------------------------------ MODULE MCFamily ------------------------------
(* Family on small instances: one subscriber, who may found a group, lose  *)
(* it and found another, and one or two others who join and leave.         *)
EXTENDS Family, TLC

CONSTANTS o1, u1, u2

OneMember == {o1, u1}
TwoMembers == {o1, u1, u2}
TheOwner == {o1}

Symmetry == Permutations({u1, u2}) \cup Permutations(Groups) \cup Permutations(Invites)
            \cup Permutations(Accepts) \cup Permutations(Departures)
=============================================================================
