SPECIFICATION FairSpec
CONSTANTS
  Runs = {r1}
  Requests = {q1, q2, q3}
  MaxRounds = 3
  MaxRetries = 1
  MaxCrashes = 1
  Blanks = {"head", "tail"}
  Faults = {"publish"}
  Disciplined = TRUE
INVARIANTS TypeOK AnswersReachPrompt GeneratedFromOneReply LlmCallsBounded AnnouncedIsFinal
PROPERTIES ImplementsLifecycle DeliveredTerminates
\* The system stops once the persona is terminal and every request has been answered.
CHECK_DEADLOCK FALSE
