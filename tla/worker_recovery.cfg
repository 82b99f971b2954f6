SPECIFICATION FairSpec
CONSTANTS
  t1 = t1
  t2 = t2
  w1 = w1
  w2 = w2
  r1 = r1
  Tasks = {t1}
  Workers = {w1, w2}
  Recoverers = {r1}
  SettlingRuntimes = {}
  Beating = {w1}
  Parents <- MCParents
  Capable <- MCCapable
  Rank <- MCRank
  MaxAttempts = 2
  MaxClaims = 2
  Disturbances = {"crash"}
INVARIANT NoAbandonedRunning
PROPERTIES QueuedTaskSettles OverrunOvertaken
CHECK_DEADLOCK FALSE
