SPECIFICATION MCSpec
CONSTANTS
  Tokens = {t1, t2}
  Requests = {r1, r2, r3}
  NoToken = NoToken
  Cuts = 1
  Links = {l1, l2}
  Changes = {s1}
  Codes = {k1, k2}
  NoPassword = NoPassword
  NoCode = NoCode
  AccountCasts = {{t1, t2, k1, k2, l1, l2, s1}, {t1, t2, k1, k2, r1, r2, r3}}
  Limit = 2
  Window = 2
  MaxTime = 6
  Callers = {x1, x2}
  Cap = 3
  Cost = 2
  Instances = {i1, i2}
  Readers = {q1, q2}
  AllTtl = 4
  PlanTtl = 2
  LocalTtl = 1
  ReadTime = 1
  Calls = {c1, c2, c3, d1, d2}
  Bold = {c2}
  NoCall = NoCall
  MaxRequests = 2
  MaxFaults = 1
  Picks = {p1, p2, d1, d2}
  Drops = {x1}
  NoPick = NoPick
  Days = {d1, d2}
  SuggestCasts = {{c1, c2, c3}, {d1, d2}, {c1, d1, p1}, {c1, c2, p1, p2}, {c1, c2, p1, x1}}
  a1 = a1
  a2 = a2
  ta = ta
  tb = tb
  wa = wa
  wb = wb
  wc = wc
  Asks = {a1, a2}
  Titles = {ta, tb}
  Alike <- SameTitle
  Items <- ItemPool
  MaxItems = 2
  Budget = 100
  Urls = 2
  ModelRetries = 1
  AiTimeout = 4
  PhotoTimeout = 3
  AttemptTime = 3
  BrainCasts = {{a1}, {a1, a2}}
  Hits <- HitPool
  MaxHits = 2
  Words = {wa, wb, wc}
  Reliable = {"amazon"}
  Estimates <- EstimatePool
  NoTitle = NoTitle
  NoPrice = NoPrice
  NoHit = NoHit
  FewShops = 2
  MaxOffers = 2
  AbortAfter = 1
  HardDeadline = 2
  Ideas = {i1}
  NoIdea = NoIdea
  NoNote = NoNote
  MaxPreviews = 2
  MaxPresses = 3
  MaxReloads = 1
  Slots = {1, 2}
  MaxSets = 2
  Paid = TRUE
  Questions = 2
  MaxPolls = 1
  AtOnce = 2
  MaxStarted = 3
  MaxLoads = 1
  Modes = {"preview", "place"}
  MaxRetries = 2
  Buttons = 2
INVARIANT EveryPlanIsServed
CHECK_DEADLOCK FALSE
