SPECIFICATION SandboxedSpec
CONSTANTS
  main = main
  d1 = d1
  d2 = d2
  Main = main
  Descendants = {d1, d2}
  MaxIterations = 4
  MaxToolCalls = 3
  MaxFailedActions = 2
  MaxRecoveries = 3
  MaxEnvs = 2
INVARIANTS RunTypeOK VerifyingRecorded ToolBudget EndsAgree FailuresStick OutputEnded GroupKilled
PROPERTY RunEnds
CHECK_DEADLOCK FALSE
