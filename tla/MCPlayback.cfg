SPECIFICATION FairSpec
CONSTANTS
  s1 = s1
  s2 = s2
  t1 = t1
  t2 = t2
  NULL = NULL
  Sources = {s1, s2}
  Tasks = {t1, t2}
  StallLimit = 1
  MaxFrames = 1
  MaxQueued = 2
INVARIANTS TypeOK BargeInSilences OpenSourceHasTurn
PROPERTIES StartsUnlessDisconnected PlaybackEnds
