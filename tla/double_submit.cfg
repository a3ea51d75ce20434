SPECIFICATION FairSpec
CONSTANTS
  Runs = {r1}
  Requests = {q1, q2, q3}
  MaxRounds = 2
  MaxRetries = 1
  MaxCrashes = 0
  Blanks = {}
  Faults = {}
  Disciplined = FALSE
INVARIANT AnswersReachPrompt
CHECK_DEADLOCK FALSE
