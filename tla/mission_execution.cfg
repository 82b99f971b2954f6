SPECIFICATION MissionSpec
CONSTANTS
  t1 = t1
  t2 = t2
  t3 = t3
  w1 = w1
  w2 = w2
  r1 = r1
  s1 = s1
  s2 = s2
  Tasks = {t1, t3}
  Workers = {w1}
  Recoverers = {}
  Schedulers = {s1, s2}
  SettlingRuntimes = {w1}
  Beating = {w1}
  Parents <- MCParents
  Capable <- MCCapable
  Rank <- MCRank
  MaxAttempts = 2
  MaxClaims = 3
  Disturbances = {"raise"}
SYMMETRY MCSymmetry
INVARIANTS MissionTypeOK DependenciesFirst
PROPERTY MissionKeepsPromise
CHECK_DEADLOCK FALSE
