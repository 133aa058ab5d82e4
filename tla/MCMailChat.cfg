SPECIFICATION Spec
CONSTANTS
  m1 = m1
  m2 = m2
  r1 = r1
  Mails = {m1, m2}
  Refs = {r1}
  Documents <- MCDocuments
  Questions <- MCQuestions
  Limit = 2
  SessionIds = {s1, s2}
  NoId = NoId
  Pages = {p1, p2}
  MaxSessions = 1
  HistoryMax = 2
  ClientMax = 1
  CacheMax = 1
  MaxChanges = 1
  MaxAsks = 2
SYMMETRY Symmetry
INVARIANTS ContextContinues  VectorsServed
CHECK_DEADLOCK FALSE
