SPECIFICATION Spec
CONSTANTS
  Runs = {r1, r2}
  Requests = {q1}
  MaxRounds = 1
  MaxRetries = 0
  MaxCrashes = 1
  Blanks = {"tail"}
  Faults = {"ambiguous_delay", "lost_message", "setup", "recovery", "publish"}
  Disciplined = FALSE
INVARIANTS QuestionsExist GeneratedComplete
SYMMETRY RunSymmetry
CHECK_DEADLOCK FALSE
