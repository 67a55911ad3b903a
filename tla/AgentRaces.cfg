SPECIFICATION Spec
CONSTANTS
  Jobs = {j1, j2}
  Places = {p1, p2}
  Cancels = {c1}
  NoCard = NoCard
  MaxConcurrentJobs = 1
  AnswerSteps <- EitherAnswer
  StripeFails = TRUE
  MaxFaults = 1
SYMMETRY Symmetry
INVARIANT BoughtOnce
INVARIANT CreditedJobsBoughtNothing
INVARIANT PurchasesAreAccounted
CHECK_DEADLOCK FALSE
