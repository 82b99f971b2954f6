SPECIFICATION GrowingSpec
CONSTANTS
  t1 = t1
  t2 = t2
  t3 = t3
  w1 = w1
  w2 = w2
  s1 = s1
  s2 = s2
  c1 = c1
  c2 = c2
  Tasks = {t1, t2}
  Clients = {c1, c2}
  Requests <- MCRequests
  FindsCycle <- MCFindsCycle
  Workers = {w1}
  Schedulers = {s1}
  MaxAttempts = 2
INVARIANTS GraphTypeOK CycleFree
PROPERTIES TakenInOrder MissionDrains
CHECK_DEADLOCK FALSE
