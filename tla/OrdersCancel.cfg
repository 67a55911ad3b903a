SPECIFICATION Spec
CONSTANTS
  k1 = k1
  Keys = {k1}
  Requests = {r1}
  Entries = {}
  Tasks = {t1}
  KeyOf <- OneKey
  Charging = FALSE
  MaxFaults = 0
INVARIANT CancelReachesRetailer
CHECK_DEADLOCK FALSE
