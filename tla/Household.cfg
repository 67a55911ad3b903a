SPECIFICATION MCSpec
CONSTANTS
  m1 = m1
  m2 = m2
  m3 = m3
  m4 = m4
  Events = {"e1", "e2"}
  NoEvent = NoEvent
  Dates = {1, 3}
  NoDate = NoDate
  Saves = {s1, s2}
  Changes = {u1}
  Removals = {x1}
  Leads = {1}
  Year = 4
  MaxDay = 4
  Crashes = 1
  CalendarCasts = {{s1, s2}, {s1, x1}, {s1, u1}, {u1, x1}}
  Members = {m1, m2, m3, m4}
  Organizer = m1
  Nobody = Nobody
  Excludes <- OneExclusion
  Draws = {w1, w2}
  MinParticipants = 3
  ChipIns = {c1}
  ExchangeCasts = {{w1, w2}, {c1}}
  Labels = {t1, t2}
  Generates = {g1, g2}
  Adds = {a1}
  NoLabel = NoLabel
  Photos = {p1, p2}
  Jobs = {j1, j2}
  NoPhoto = NoPhoto
  Quota = 1
  MaxFails = 2
  PhotoCasts = {{p1, j1, j2, t1}, {g1, g2, a1, t1, t2}, {p1, p2, j1}, {g1, a1, p1, j1, t1}}
  Fields = {f1, f2}
  Sends = {l1, l2}
  Submits = {b1, b2}
  Updates = {v1, v2}
  NoSubmit = NoSubmit
  NoLink = NoLink
  MaxRestarts = 1
  SurveyCasts = {{l1, l2, b1, b2, v1}, {l1, b1, v1, v2}}
  Watched = {h1, h2}
  Prices = {90, 100}
  NoPrice = NoPrice
  Checks = 1
  Moves = 2
  Dossiers = {d1}
  Parcels = {o1}
  Texts = {"a"}
  Forms = {n1}
  ScriptRuns = 2
  Newcomers = {n1, n2, n3}
  OldFriends = {o1}
  MaxPeople = 2
  Details = {f1, f2}
  Words = {"a"}
  Blank = Blank
  Submissions = 2
  k1 = k1
  k2 = k2
  Gifts = {k1, k2}
  NoGift = NoGift
  YearOf <- TwoYears
  AllYears = AllYears
  Pro = TRUE
  Lines = {1, 2}
  MaxSends = 3
  MaxLists = 2
  Shots = {p3, p4}
  NoShot = NoShot
  Wires = {1, 2}
  MaxPosts = 2
  MaxLoads = 2
  MaxLooks = 2
  Keys = {q1, q2}
  Mails = {y1, y2}
  Tabs = {z1, z2}
  Replies = {r1, r2}
  Trips = {1, 2}
  NoReply = NoReply
  NoMail = NoMail
  NoTab = NoTab
  MaxPressed = 3
  MaxFetches = 2
  PageCasts = {{}, {z1, z2, y1}, {z1, y1, y2}}
INVARIANT HouseholdTypeOK
INVARIANT EncryptedOnce
INVARIANT CalendarKeepsUp
INVARIANT GiftsMakeACircle
INVARIANT PhotosSettle
PROPERTY UserTagsStand
INVARIANT SurveysAddUp
PROPERTY DropsAreToldOnce
INVARIANT PeopleWithinPlan
INVARIANT HistoryAsServed
INVARIANT GalleryAsServed
INVARIANT SurveyPagesAsServed
CHECK_DEADLOCK FALSE
