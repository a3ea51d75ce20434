SPECIFICATION Spec
CONSTANTS
  UserIds = {u1, u2, u3}
  NoUser = NoUser
  Emails = {e1, e2}
  Subjects = {s1, s2}
  NoSubject = NoSubject
  Requests = {q1, q2, q3}
  Passwords = {pw1, pw2, pw3}
  NoPassword = NoPassword
  Logins = {l1, l2}
  Links = {k1, k2}
  NoLink = NoLink
  Resets = {x1, x2}
  Checkouts = {c1, c2}
  Hooks = {h1, h2}
  Posts = {p1, p2}
  TaskRuns = {t1, t2}
  MaxCalls = 2
  Admins = {a1, a2}
  NoTime = NoTime
  Ids = {1, 2, 3}
  Keys = {1, 2}
  NoKey = NoKey
  Sizes = {1, 2}
  NoCursor = NoCursor
  KeyCount = 3
  Adapters = {g1, g2}
  sa = sa
  sb = sb
  Slugs = {sa, sb}
  Matchings = {m1, m2}
  Suggested <- MCSuggested
  Fallbacks <- MCFallbacks
  MinSkills = 1
  MaxSkills = 2
  NoSlug = NoSlug
  Nobody = Nobody
  Sync = Sync
SYMMETRY Symmetry
INVARIANTS TypeOK SignedInIsOwner FirstLoginRaceIsResolved RefusalIsResolved ResetEndsSessions LinkUsedOnce RotationEndsOlder PaymentSettled CountIsExact TokensAreSpent WalkShowsOnce OnlyRefusedKeysMarked MatchedSkillsAreStored
CHECK_DEADLOCK FALSE
