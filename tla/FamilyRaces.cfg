SPECIFICATION Spec
CONSTANTS
  o1 = o1
  u1 = u1
  u2 = u2
  Users <- TwoMembers
  Subscribers <- TheOwner
  Groups = {g1, g2}
  Invites = {i1, i2}
  Accepts = {a1, a2}
  Departures = {d1, d2}
  Hooks = {e1}
  NoSeat = NoSeat
  MaxSeats = 2
  MaxFaults = 1
SYMMETRY Symmetry
INVARIANT SeatsWithinPlan
INVARIANT MembersHaveTheTier
CHECK_DEADLOCK FALSE
