SPECIFICATION FairSpec
CONSTANTS
  o1 = o1
  u1 = u1
  u2 = u2
  Users <- OneMember
  Subscribers <- TheOwner
  Groups = {g1, g2}
  Invites = {i1}
  Accepts = {a1}
  Departures = {}
  Hooks = {e1, e2}
  NoSeat = NoSeat
  MaxSeats = 2
  MaxFaults = 1
PROPERTY DowngradesReachTheFamily
CHECK_DEADLOCK FALSE
