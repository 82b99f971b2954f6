SPECIFICATION Spec
CONSTANTS
  t1 = t1
  t2 = t2
  w1 = w1
  w2 = w2
  r1 = r1
  Tasks = {t1}
  Workers = {w1, w2}
  Recoverers = {}
  SettlingRuntimes = {w1}
  Beating = {w1, w2}
  Parents <- MCParents
  Capable <- MCCapable
  Rank <- MCRank
  MaxAttempts = 3
  MaxClaims = 3
  Disturbances = {"raise", "signal", "crash", "pause"}
INVARIANTS TypeOK SingleExecutor RetryBudget AttemptsCounted SupersededClosed OutcomesAgree NoAbandonedRunning
PROPERTIES SuccessIsFinal KeepsPromise
CHECK_DEADLOCK FALSE
