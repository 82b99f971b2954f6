SPECIFICATION Spec
CONSTANTS
  planner = planner
  operator = operator
  Clients = {planner, operator}
  Routes <- MCTwoPlanners
  ApprovalTypes = {"EXECUTION", "MERGE"}
  MaxApprovals = 2
  MaxPlans = 2
  MaxPRs = 1
INVARIANT OneActivePlan
CHECK_DEADLOCK FALSE
