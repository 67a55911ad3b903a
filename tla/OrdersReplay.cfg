SPECIFICATION FairSpec
CONSTANTS
  k1 = k1
  Keys = {k1}
  Requests = {r1, r2}
  Entries = {}
  Tasks = {t1}
  KeyOf <- OneKey
  Charging = TRUE
  MaxFaults = 1
INVARIANT GoodsAreRefundable
INVARIANT CancelUndoesPurchase
PROPERTY LedgerSpec
PROPERTY PendingIsDecided
CHECK_DEADLOCK FALSE
