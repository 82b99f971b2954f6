SPECIFICATION Spec
CONSTANTS
  Callers = {c1, c2}
  Sweepers = {s1}
  MaxEnvs = 3
INVARIANTS EnvTypeOK ReadyHasDirectory OneReady CommandsStayHome
PROPERTY FinishedStaysFinished
CHECK_DEADLOCK FALSE
