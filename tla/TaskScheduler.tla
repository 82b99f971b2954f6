---------------------------- MODULE TaskScheduler ----------------------------
(***************************************************************************)
(* core/application/task_scheduler.py: schedule_ready_tasks moves the      *)
(* waiting tasks of a mission to QUEUED once what they depend on has       *)
(* SUCCEEDED, and to BLOCKED when it has failed.                           *)
(*                                                                         *)
(* A pass reads all tasks, then all dependencies, and visits the waiting   *)
(* tasks.  Each visit is an UPDATE guarded by the status that was read, in *)
(* a transaction that commits when a task is blocked and at the end.       *)
(* READY is written and overwritten inside that transaction, so no other   *)
(* process sees it.                                                        *)
(***************************************************************************)
EXTENDS StateMachines

CONSTANTS Tasks, Schedulers

VARIABLES
  executing,  \* missions.status = EXECUTING
  known,      \* ids of the tasks rows
  edges,      \* task_dependencies rows <<t, p>>: t depends on p
  task,       \* tasks rows
  spc,        \* "deps" before the pass reads dependencies, "pass" in its loop
  ssnap,      \* the statuses the pass has read, ABSENT for no row
  sdeps,      \* the dependencies it has read
  stodo,      \* the waiting tasks it has not visited yet
  squeued     \* tasks it has made QUEUED in the open transaction

ScheduleInit ==
  /\ spc = [s \in Schedulers |-> "idle"]
  /\ ssnap = [s \in Schedulers |-> [t \in Tasks |-> "ABSENT"]]
  /\ sdeps = [s \in Schedulers |-> {}]
  /\ stodo = [s \in Schedulers |-> {}]
  /\ squeued = [s \in Schedulers |-> {}]

\* The tasks a pass visits; the variant forgets those it has blocked before.
WaitingPendingOnly(status) == status = "PENDING"
Waiting(status) == status \in {"PENDING", "BLOCKED"}

\* The mission is EXECUTING; the tasks are read.
ScheduleReads(s) ==
  /\ spc[s] = "idle" /\ executing
  /\ ssnap' = [ssnap EXCEPT ![s] =
                 [t \in Tasks |-> IF t \in known THEN task[t].status ELSE "ABSENT"]]
  /\ stodo' = [stodo EXCEPT ![s] = {t \in known : Waiting(task[t].status)}]
  /\ spc' = [spc EXCEPT ![s] = "deps"]
  /\ UNCHANGED <<task, sdeps, squeued>>

\* The dependencies are read in a statement of their own, some of them perhaps
\* of tasks that were created after the first.
ScheduleReadsDeps(s) ==
  /\ spc[s] = "deps"
  /\ sdeps' = [sdeps EXCEPT ![s] = edges]
  /\ spc' = [spc EXCEPT ![s] = "pass"]
  /\ UNCHANGED <<task, ssnap, stodo, squeued>>

\* The parents that were not SUCCEEDED when the pass read them.  The loop over
\* the dependencies stops at the first of them, in no particular order.
Waited(s, t) == {p \in Tasks : <<t, p>> \in sdeps[s] /\ ssnap[s][p] # "SUCCEEDED"}

\* A parent that will not succeed, or one the pass has not read.
Fatal(status) == status \in {"FAILED", "CANCELLED", "ABSENT"}

\* try_transition_status waits for a row that another pass has locked.
RowFree(s, t) == \A q \in Schedulers \ {s} : t \notin squeued[q]

\* The guard of try_transition_status, and a variant that trusts the snapshot.
StillUnchecked(s, t) == TRUE
Still(s, t) == task[t].status = ssnap[s][t]

\* Every parent SUCCEEDED; the variant is content when none has failed.
NoneFailed(s, t) == \A p \in Waited(s, t) : ~Fatal(ssnap[s][p])
AllSucceeded(s, t) == Waited(s, t) = {}

\* The rows after the open transaction of s commits.
Published(s) ==
  [t \in Tasks |-> IF t \in squeued[s] THEN [task[t] EXCEPT !.status = "QUEUED"] ELSE task[t]]

Visit(s, t) == spc[s] = "pass" /\ t \in stodo[s] /\ stodo' = [stodo EXCEPT ![s] = @ \ {t}]

\* READY and then QUEUED, both still uncommitted.
ScheduleQueues(s, t) ==
  /\ Visit(s, t)
  /\ AllSucceeded(s, t) /\ RowFree(s, t) /\ Still(s, t)
  /\ squeued' = [squeued EXCEPT ![s] = @ \cup {t}]
  /\ UNCHANGED <<task, spc, ssnap, sdeps>>

\* A parent has failed: BLOCKED, and a commit that publishes the transaction.
ScheduleBlocks(s, t) ==
  /\ Visit(s, t)
  /\ \E p \in Waited(s, t) : Fatal(ssnap[s][p])
  /\ ssnap[s][t] = "PENDING" /\ RowFree(s, t) /\ Still(s, t)
  /\ task' = [Published(s) EXCEPT ![t].status = "BLOCKED"]
  /\ squeued' = [squeued EXCEPT ![s] = {}]
  /\ UNCHANGED <<spc, ssnap, sdeps>>

\* A parent is still under way, the task is BLOCKED already, or the guarded
\* update found that the row has moved on.
ScheduleSkips(s, t) ==
  /\ Visit(s, t)
  /\ \/ \E p \in Waited(s, t) : ~Fatal(ssnap[s][p])
     \/ \E p \in Waited(s, t) : Fatal(ssnap[s][p]) /\ ssnap[s][t] = "BLOCKED"
     \/ RowFree(s, t) /\ ~Still(s, t)
  /\ UNCHANGED <<task, spc, ssnap, sdeps, squeued>>

\* The pass is over; what it has read is forgotten.
Leaves(s) ==
  /\ spc' = [spc EXCEPT ![s] = "idle"]
  /\ ssnap' = [ssnap EXCEPT ![s] = [t \in Tasks |-> "ABSENT"]]
  /\ sdeps' = [sdeps EXCEPT ![s] = {}]
  /\ squeued' = [squeued EXCEPT ![s] = {}]

\* The end of the pass commits if it has queued anything.
ScheduleEnds(s) ==
  /\ spc[s] = "pass" /\ stodo[s] = {}
  /\ task' = Published(s)
  /\ Leaves(s)
  /\ UNCHANGED stodo

\* A database error, or the deadlock of two passes that visit the same tasks
\* in different orders: the open transaction rolls back.
ScheduleAborts(s) ==
  /\ spc[s] # "idle"
  /\ stodo' = [stodo EXCEPT ![s] = {}]
  /\ Leaves(s)
  /\ UNCHANGED task

SchedulePass(s) ==
  \/ ScheduleReads(s) \/ ScheduleReadsDeps(s) \/ ScheduleEnds(s)
  \/ \E t \in Tasks : ScheduleQueues(s, t) \/ ScheduleBlocks(s, t) \/ ScheduleSkips(s, t)

ScheduleTypeOK ==
  /\ spc \in [Schedulers -> {"idle", "deps", "pass"}]
  /\ ssnap \in [Schedulers -> [Tasks -> TaskStatus \cup {"ABSENT"}]]
  /\ sdeps \in [Schedulers -> SUBSET (Tasks \X Tasks)]
  /\ stodo \in [Schedulers -> SUBSET Tasks]
  /\ squeued \in [Schedulers -> SUBSET Tasks]
=============================================================================
