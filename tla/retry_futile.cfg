SPECIFICATION FairSpec
CONSTANTS
  Runs = {r1}
  Requests = {q1}
  MaxRounds = 1
  MaxRetries = 1
  MaxCrashes = 0
  Blanks = {}
  Faults = {}
  Disciplined = TRUE
PROPERTY RetryRuns
CHECK_DEADLOCK FALSE
