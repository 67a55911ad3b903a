SPECIFICATION Spec
CONSTANTS
  o1 = o1
  u1 = u1
  u2 = u2
  Users <- OneMember
  Subscribers <- TheOwner
  Groups = {g1}
  Invites = {i1}
  Accepts = {a1}
  Departures = {}
  Hooks = {e1}
  NoSeat = NoSeat
  MaxSeats = 2
  MaxFaults = 0
INVARIANT EveryMemberLosesTheRide
CHECK_DEADLOCK FALSE
