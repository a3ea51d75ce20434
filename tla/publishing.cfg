SPECIFICATION Spec
CONSTANTS
  Personas = {p1, p2}
  Names = {n1, n2}
  NoPersona = NoPersona
  FileCount = 2
  SkillFiles = {2}
  Requests = {q1, q2}
  MaxEdits = 1
  Readers = {r1, r2}
  NoReader = NoReader
  NoEntry = NoEntry
  MaxVersion = 2
SYMMETRY Symmetry
CONSTRAINT OneAtATime
INVARIANTS TypeOK PublishedIsPushed ListedIsPublicRepository CacheIsCurrent OneQueryPerVersion
CHECK_DEADLOCK FALSE
