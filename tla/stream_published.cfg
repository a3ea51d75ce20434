SPECIFICATION FairSpec
CONSTANTS
  MaxRounds = 1
  MaxAttempts = 1
  Faults = {}
PROPERTY PublishedStreamEnds
CHECK_DEADLOCK FALSE
