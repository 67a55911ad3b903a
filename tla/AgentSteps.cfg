SPECIFICATION FairSpec
CONSTANTS
  Jobs = {j1}
  Places = {p1}
  Cancels = {}
  NoCard = NoCard
  MaxConcurrentJobs = 1
  AnswerSteps <- StepsAlways
  StripeFails = FALSE
  MaxFaults = 0
PROPERTY CompletedAnswersAreOrdered
CHECK_DEADLOCK FALSE
