SPECIFICATION FairSpec
CONSTANTS
  g1 = g1
  g2 = g2
  u1 = u1
  u2 = u2
  r1 = r1
  k1 = k1
  k2 = k2
  NULL = NULL
  Sessions = {g1, g2}
  Utterances = {u1, u2}
  Home <- TwoGuilds
  Retries = {r1}
  Commands = {k1, k2}
  Tools = {bash}
  MaxBlocks = 1
  MaxLines = 1
INVARIANTS TypeOK TurnLockProtectsBridge ApprovalAwaitsRetry
PROPERTIES UtteranceSettles ApprovalExpires
