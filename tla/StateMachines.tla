---------------------------- MODULE StateMachines ----------------------------
(***************************************************************************)
(* The status enumerations of the domain layer and the VALID_TRANSITIONS   *)
(* tables of its state machines.  A table is a set of pairs; a transition  *)
(* that is not in the table raises Invalid...Transition in the code, so a  *)
(* caller's guard is membership in the table.                              *)
(***************************************************************************)

TaskStatus == {"PENDING", "READY", "QUEUED", "RUNNING", "SUCCEEDED",
               "FAILED", "RETRYING", "BLOCKED", "CANCELLED"}

TaskTransitions ==
  ({"PENDING"} \X {"READY", "BLOCKED", "CANCELLED"}) \cup
  ({"READY"} \X {"QUEUED", "BLOCKED", "CANCELLED"}) \cup
  ({"QUEUED"} \X {"RUNNING", "CANCELLED"}) \cup
  ({"RUNNING"} \X {"SUCCEEDED", "FAILED"}) \cup
  {<<"FAILED", "RETRYING">>, <<"RETRYING", "QUEUED">>, <<"BLOCKED", "READY">>}

\* TaskStateMachine.transition: legal exactly for the pairs of the table.
TaskCanMove(from, to) == <<from, to>> \in TaskTransitions

\* The part of TaskExecutionStatus that the services ever write.
ExecutionStatus == {"RUNNING", "SUCCEEDED", "FAILED"}

WorkerStatus == {"REGISTERED", "AVAILABLE", "BUSY", "DRAINING", "STOPPED", "STALE"}

WorkerTransitions ==
  ({"REGISTERED"} \X {"AVAILABLE", "STOPPED"}) \cup
  ({"AVAILABLE"} \X {"BUSY", "DRAINING", "STOPPED", "STALE"}) \cup
  ({"BUSY"} \X {"AVAILABLE", "DRAINING", "STOPPED", "STALE"}) \cup
  ({"DRAINING"} \X {"STOPPED", "STALE"}) \cup
  {<<"STOPPED", "REGISTERED">>, <<"STALE", "STOPPED">>}

\* WorkerStateMachine.can_transition
WorkerCanMove(from, to) == <<from, to>> \in WorkerTransitions

MissionStatus == {"CREATED", "PLANNING", "PLANNED", "APPROVED_FOR_EXECUTION",
                  "EXECUTING", "VERIFYING", "RECOVERING", "VERIFIED", "PR_READY",
                  "AWAITING_HUMAN_APPROVAL", "MERGED", "CANCELLED", "ABORTED",
                  "BLOCKED", "FAILED_PERMANENTLY"}

MissionTransitions ==
  ({"CREATED"} \X {"PLANNING", "CANCELLED"}) \cup
  ({"PLANNING"} \X {"PLANNED", "FAILED_PERMANENTLY", "CANCELLED"}) \cup
  ({"PLANNED"} \X {"PLANNING", "APPROVED_FOR_EXECUTION", "CANCELLED"}) \cup
  ({"APPROVED_FOR_EXECUTION"} \X {"EXECUTING", "CANCELLED"}) \cup
  ({"EXECUTING"} \X {"VERIFYING", "RECOVERING", "CANCELLED", "BLOCKED",
                     "FAILED_PERMANENTLY"}) \cup
  ({"VERIFYING"} \X {"VERIFIED", "RECOVERING", "FAILED_PERMANENTLY"}) \cup
  ({"RECOVERING"} \X {"EXECUTING", "FAILED_PERMANENTLY"}) \cup
  ({"AWAITING_HUMAN_APPROVAL"} \X {"MERGED", "CANCELLED"}) \cup
  ({"BLOCKED"} \X {"PLANNING", "EXECUTING", "CANCELLED"}) \cup
  {<<"VERIFIED", "PR_READY">>, <<"PR_READY", "AWAITING_HUMAN_APPROVAL">>}

\* MissionStateMachine.transition; MERGED, CANCELLED, ABORTED and
\* FAILED_PERMANENTLY have no successor.
MissionCanMove(from, to) == <<from, to>> \in MissionTransitions

RunStatus == {"CREATED", "READY", "RUNNING", "VERIFYING", "COMPLETED", "FAILED",
              "TIMED_OUT", "CANCELLED", "BLOCKED", "POLICY_REJECTED"}

\* The variant overlooks that a run can fail while it is being verified.
RunTransitionsNoFailedVerification ==
  ({"RUNNING"} \X {"VERIFYING", "COMPLETED", "FAILED"}) \cup
  {<<"CREATED", "READY">>, <<"READY", "RUNNING">>, <<"VERIFYING", "COMPLETED">>}
RunTransitions ==
  ({"READY"} \X {"RUNNING", "CANCELLED"}) \cup
  ({"RUNNING"} \X {"VERIFYING", "COMPLETED", "FAILED", "TIMED_OUT", "CANCELLED",
                   "BLOCKED", "POLICY_REJECTED"}) \cup
  ({"VERIFYING"} \X {"COMPLETED", "FAILED", "RUNNING", "CANCELLED"}) \cup
  ({"BLOCKED", "POLICY_REJECTED"} \X {"RUNNING", "CANCELLED"}) \cup
  {<<"CREATED", "READY">>}

\* AgentRunStateMachine.can_transition
RunCanMove(from, to) == <<from, to>> \in RunTransitions
=============================================================================
