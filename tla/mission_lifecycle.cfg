SPECIFICATION Spec
CONSTANTS
  planner = planner
  operator = operator
  Clients = {planner, operator}
  Routes <- MCOnePlanner
  ApprovalTypes = {"EXECUTION", "MERGE"}
  MaxApprovals = 2
  MaxPlans = 2
  MaxPRs = 1
INVARIANTS LifecycleTypeOK GatesInOrder PRsAfterVerification OneActivePlan MergeRecorded
CHECK_DEADLOCK FALSE
