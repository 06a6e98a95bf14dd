SPECIFICATION FairSpec
CONSTANTS
  s1 = s1
  s2 = s2
  t1 = t1
  a = a
  b = b
  NULL = NULL
  Channels = {a, b}
  Sessions = {s1, s2}
  Tasks = {t1}
INVARIANTS TypeOK StoredSessionHasTheClient StoredSessionIsWatched
PROPERTIES MovesAndReloadsEvict DeafSessionIsReplaced JoinsEnd
