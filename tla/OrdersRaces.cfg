SPECIFICATION RacesSpec
CONSTANTS
  k1 = k1
  Keys = {k1}
  Requests = {r1}
  Entries = {e1}
  Tasks = {t1, t2}
  KeyOf <- OneKey
  Charging = FALSE
  MaxFaults = 1
SYMMETRY Symmetry
INVARIANT TimelineIsLegal
INVARIANT StatusIsRecorded
CHECK_DEADLOCK FALSE
