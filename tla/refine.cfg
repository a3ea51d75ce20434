SPECIFICATION Spec
CONSTANTS
  Turns = {t1, t2}
  NoTurn = NoTurn
  Files = {"identity_md"}
  MaxRetries = 1
  MaxFaults = 1
  MaxSessions = 2
  Ambiguous = TRUE
INVARIANTS TypeOK EndMeansStored ShownIsStored CommittedOnce FilesHaveMarker PromptHoldsAnswers NoSilentEnd
SYMMETRY Symmetry
CHECK_DEADLOCK FALSE
