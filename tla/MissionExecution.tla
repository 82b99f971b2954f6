-------------------------- MODULE MissionExecution --------------------------
(***************************************************************************)
(* A mission in EXECUTING: the scheduler feeds the queue that the worker   *)
(* pool empties, and the outcomes the workers write decide what the        *)
(* scheduler does next.  Both work on the same tasks rows.  The graph is   *)
(* the one in Parents; GrowingMission lets it grow.                        *)
(***************************************************************************)
EXTENDS WorkerCoordinator

CONSTANT Schedulers  \* concurrent callers of schedule_ready_tasks

VARIABLES spc, ssnap, sdeps, stodo, squeued

Scheduler == INSTANCE TaskScheduler
  WITH known <- Tasks, edges <- {e \in Tasks \X Tasks : e[2] \in Parents[e[1]]}

poolVars == <<claims, wstatus, workVars, heartbeat, drain, recVars>>
schedulerVars == <<spc, ssnap, sdeps, stodo, squeued>>
missionVars == <<vars, schedulerVars>>

\* Tasks are created PENDING; nothing is queued before the first pass.
MissionInit ==
  /\ PoolInit
  /\ task = [t \in Tasks |-> NoRow]
  /\ Scheduler!ScheduleInit

ScheduleStep(s) ==
  /\ \/ Scheduler!SchedulePass(s)
     \/ "raise" \in Disturbances /\ Scheduler!ScheduleAborts(s)
  /\ UNCHANGED <<executing, poolVars>>

PoolStep == Next /\ UNCHANGED schedulerVars

MissionNext == PoolStep \/ \E s \in Schedulers : ScheduleStep(s)

MissionSpec == MissionInit /\ [][MissionNext]_missionVars

------------------------------------------------------------------------------
\* Rows, locations and the scheduler's snapshots keep their types.
MissionTypeOK == TypeOK /\ Scheduler!ScheduleTypeOK

\* A task enters the queue only after everything it depends on has SUCCEEDED,
\* and nothing it depends on is taken back afterwards: the scheduler's
\* snapshot may be old, but success is final.
DependenciesFirst ==
  \A t \in Tasks :
    task[t].status \notin {"PENDING", "BLOCKED"}
      => \A p \in Parents[t] : task[p].status = "SUCCEEDED"

\* Concurrent passes and the pool together still keep the ownership promise:
\* no pass with an old snapshot puts a task back that a worker has taken.
MissionKeepsPromise == Promise!Init /\ [][Promise!Next]_Promise!vars
=============================================================================
