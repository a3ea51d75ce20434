SPECIFICATION Spec
CONSTANTS
  Personas = {p1}
  Names = {n1}
  NoPersona = NoPersona
  FileCount = 1
  SkillFiles = {1}
  Requests = {q1}
  MaxEdits = 1
  Readers = {r1, r2}
  NoReader = NoReader
  NoEntry = NoEntry
  MaxVersion = 1
INVARIANT CachedOnce
CHECK_DEADLOCK FALSE
