SPECIFICATION FairSpec
CONSTANTS
  MaxRounds = 2
  MaxAttempts = 2
  Faults = {"poller", "listener"}
INVARIANTS TypeOK CompleteAfterFiles TerminalEventIsTrue RoundsInOrder
PROPERTIES StreamEnds RoundShown
\* The system stops once the persona is terminal and the response is closed.
CHECK_DEADLOCK FALSE
