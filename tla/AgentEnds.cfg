SPECIFICATION FairSpec
CONSTANTS
  Jobs = {j1}
  Places = {p1, p2}
  Cancels = {c1}
  NoCard = NoCard
  MaxConcurrentJobs = 1
  AnswerSteps <- EitherAnswer
  StripeFails = FALSE
  MaxFaults = 2
PROPERTY PurchasesAreFollowedUp
PROPERTY KnownCardsAreCancelled
CHECK_DEADLOCK FALSE
