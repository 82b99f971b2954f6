------------------------ MODULE MissionExecutionProofs ------------------------
(***************************************************************************)
(* Theorems about a mission that is being executed: any number of tasks    *)
(* and workers, any graph, any number of overlapping scheduler passes, in  *)
(* a deployment where nobody calls recover_stale.                          *)
(*                                                                         *)
(* DependenciesFirst is not inductive: a pass acts on statuses and         *)
(* dependencies it has read before and publishes them later.  PassInv      *)
(* says what stays true of them meanwhile: the successes a pass has read   *)
(* are final, and a row it is about to write is still waiting.             *)
(***************************************************************************)
EXTENDS MissionExecution, WorkerCoordinatorProofs

Edges == {e \in Tasks \X Tasks : e[2] \in Parents[e[1]]}

\* The tasks that the scheduler, and nobody else, moves.
Unscheduled(t) == task[t].status \in {"PENDING", "BLOCKED"}

ParentsDone(t) == \A p \in Parents[t] : task[p].status = "SUCCEEDED"

\* A pass's snapshots: the successes in it, its dependencies, the tasks it
\* still visits and those it has queued, whose rows it keeps locked.
PassInv ==
  /\ Scheduler!ScheduleTypeOK
  /\ \A t \in Tasks : Unscheduled(t) => task[t].attempts = 0
  /\ \A s \in Schedulers :
       /\ \A p \in Tasks : ssnap[s][p] = "SUCCEEDED" => task[p].status = "SUCCEEDED"
       /\ spc[s] = "pass" => sdeps[s] = Edges
       /\ \A t \in stodo[s] : ssnap[s][t] \in {"PENDING", "BLOCKED"}
       /\ \A t \in squeued[s] : Unscheduled(t) /\ ParentsDone(t)
  /\ \A s, q \in Schedulers : s # q => squeued[s] \cap squeued[q] = {}

MissionInv == IInv /\ Owned /\ RetryBudget /\ PassInv /\ DependenciesFirst

------------------------------------------------------------------------------
(* Steps of the pool.                                                      *)

\* What the pool may do to the row of t: nothing, or change a row that the
\* scheduler has queued into one that is not the scheduler's.
PoolKeeps(t) ==
  \/ task'[t] = task[t]
  \/ /\ task[t].status \in {"QUEUED", "RUNNING", "FAILED"}
     /\ task'[t].status \in {"QUEUED", "RUNNING", "SUCCEEDED", "FAILED"}

LEMMA PoolRows ==
  ASSUME Recoverers = {}, IInv, Owned, [Next]_vars
  PROVE  \A t \in Tasks : PoolKeeps(t)
  <1>0. task \in [Tasks -> TaskRow]
    BY DEF IInv, TypeOK
  <1>1. CASE task' = task
    BY <1>1 DEF PoolKeeps
  <1>2. ASSUME NEW w \in Workers, NEW u \in Tasks, ClaimTask(w, u)
        PROVE  \A t \in Tasks : PoolKeeps(t)
    BY <1>0, <1>2 DEF ClaimTask, Claimable, ClaimedRow, PoolKeeps
  <1>3. ASSUME NEW w \in Workers, RunSettles(w) \/ CompleteWrites(w) \/ FailWrites(w)
        PROVE  \A t \in Tasks : PoolKeeps(t)
    <2> DEFINE u == claims[cur[w]].task
    <2>1. u \in Tasks /\ task[u] \in TaskRow /\ verdict[w] \in BOOLEAN
      BY <1>3, OwnedRowWritten DEF IInv, TypeOK
    <2>2. task[u].status \in {"RUNNING", "SUCCEEDED", "FAILED"}
      <3>1. pc[w] \in Executing
        BY <1>3 DEF RunSettles, CompleteWrites, FailWrites, Executing
      <3> QED
        BY <3>1 DEF Owned
    <2> DEFINE Ends(row) == row = task[u] \/ /\ task[u].status \in {"RUNNING", "FAILED"}
                                             /\ row.status \in {"QUEUED", "SUCCEEDED", "FAILED"}
    <2>3. \A ok \in BOOLEAN : Ends(SettledRow(task[u], Target(ok)))
      BY <2>1, <2>2
      DEF SettledRow, CanSettle, TaskCanMove, TaskTransitions, Target, TaskRow
    <2>4. task[u].status = "RUNNING" => Ends(CompletedRow(task[u]))
      BY <2>1 DEF CompletedRow, TaskRow
    <2>5. Ends(AfterFailure(task[u]))
      BY <2>1, <2>2 DEF AfterFailure, TaskCanMove, TaskTransitions, TaskRow
    <2>6. \/ task' = [task EXCEPT ![u] = SettledRow(task[u], Target(verdict[w]))]
          \/ task[u].status = "RUNNING" /\ task' = [task EXCEPT ![u] = CompletedRow(task[u])]
          \/ task' = [task EXCEPT ![u] = AfterFailure(task[u])]
      BY <1>3, OwnedRowWritten
    <2> HIDE DEF u
    <2>7. task'[u] \in TaskRow /\ Ends(task'[u]) /\ \A t \in Tasks \ {u} : task'[t] = task[t]
      <3>1. ASSUME NEW row, Ends(row), task' = [task EXCEPT ![u] = row]
            PROVE  Ends(task'[u]) /\ \A t \in Tasks \ {u} : task'[t] = task[t]
        BY <1>0, <2>1, <3>1
      <3> HIDE DEF Ends
      <3> QED
        BY <2>1, <2>3, <2>4, <2>5, <2>6, <3>1, NextTyped DEF IInv, TypeOK
    <2> QED
      BY <2>7 DEF PoolKeeps
  <1> QED
    BY <1>1, <1>2, <1>3, OnlyRowSteps DEF RowChanges

\* Neither the successes nor the waiting rows a pass relies on are touched.
LEMMA PoolStepKeepsPasses ==
  ASSUME Recoverers = {}, MissionInv, [Next]_vars, UNCHANGED schedulerVars
  PROVE  PassInv' /\ DependenciesFirst'
  <1> USE DEF MissionInv
  <1>1. \A t \in Tasks : PoolKeeps(t)
    BY PoolRows
  <1>2. \A t \in Tasks :
          /\ Unscheduled(t) => task'[t] = task[t]
          /\ Unscheduled(t)' => task'[t] = task[t]
          /\ task[t].status = "SUCCEEDED" => task'[t].status = "SUCCEEDED"
    BY <1>1 DEF PoolKeeps, Unscheduled
  <1>3. Parents \in [Tasks -> SUBSET Tasks]
    BY CoordinatorAssumption
  <1>4. \A t \in Tasks : ParentsDone(t) => ParentsDone(t)'
    BY <1>2, <1>3 DEF ParentsDone
  <1>5. UNCHANGED <<spc, ssnap, sdeps, stodo, squeued>>
    BY DEF schedulerVars
  <1>6. \A t \in Tasks : ~Unscheduled(t) => ParentsDone(t)
    BY DEF DependenciesFirst, Unscheduled, ParentsDone
  <1>7. DependenciesFirst'
    <2>1. \A t \in Tasks : ~Unscheduled(t)' => ~Unscheduled(t)
      BY <1>2 DEF Unscheduled
    <2>2. \A t \in Tasks : ~Unscheduled(t)' => ParentsDone(t)'
      BY <1>4, <1>6, <2>1
    <2> QED
      BY <2>2 DEF DependenciesFirst, Unscheduled, ParentsDone
  <1>8. Scheduler!ScheduleTypeOK'
    BY <1>5 DEF PassInv, Scheduler!ScheduleTypeOK
  <1>9. \A s \in Schedulers : \A t \in squeued[s] : t \in Tasks
    BY DEF PassInv, Scheduler!ScheduleTypeOK
  <1>10. \A s \in Schedulers : \A t \in squeued'[s] : Unscheduled(t)' /\ ParentsDone(t)'
    BY <1>2, <1>4, <1>5, <1>9 DEF PassInv, Unscheduled
  <1>11. \A t \in Tasks : Unscheduled(t)' => task'[t].attempts = 0
    BY <1>2 DEF PassInv, Unscheduled
  <1> QED
    BY <1>2, <1>5, <1>7, <1>8, <1>10, <1>11 DEF PassInv

------------------------------------------------------------------------------
(* Steps of the scheduler.                                                 *)

\* What pass s may do to the row of t: nothing, block it, or commit that it has
\* queued it, its parents being done.
PassMoves(s, t) ==
  \/ task'[t] = task[t]
  \/ /\ Unscheduled(t)
     /\ \/ task'[t] = [task[t] EXCEPT !.status = "BLOCKED"]
        \/ /\ t \in squeued[s] /\ ParentsDone(t)
           /\ task'[t] = [task[t] EXCEPT !.status = "QUEUED"]

LEMMA PublishedRows ==
  ASSUME TypeOK, PassInv, NEW s \in Schedulers
  PROVE  /\ Scheduler!Published(s) \in [Tasks -> TaskRow]
         /\ \A t \in Tasks :
              Scheduler!Published(s)[t] = IF t \in squeued[s]
                                          THEN [task[t] EXCEPT !.status = "QUEUED"]
                                          ELSE task[t]
  <1>1. \A t \in Tasks : task[t] \in TaskRow
    BY DEF TypeOK
  <1>2. \A t \in Tasks : [task[t] EXCEPT !.status = "QUEUED"] \in TaskRow
    BY <1>1, RowsTyped DEF RequeuedRow
  <1> QED
    BY <1>1, <1>2 DEF Scheduler!Published

LEMMA PassRows ==
  ASSUME TypeOK, PassInv, NEW s \in Schedulers, ScheduleStep(s)
  PROVE  task' \in [Tasks -> TaskRow] /\ \A t \in Tasks : PassMoves(s, t)
  <1>0. task \in [Tasks -> TaskRow] /\ squeued[s] \subseteq Tasks
    BY DEF TypeOK, PassInv, Scheduler!ScheduleTypeOK
  <1>1. \A t \in squeued[s] : Unscheduled(t) /\ ParentsDone(t)
    BY DEF PassInv
  <1>2. CASE task' = task
    BY <1>0, <1>2 DEF PassMoves
  <1>3. CASE Scheduler!ScheduleEnds(s)
    <2>1. task' = Scheduler!Published(s)
      BY <1>3 DEF Scheduler!ScheduleEnds
    <2> QED
      BY <1>1, <2>1, PublishedRows DEF PassMoves
  <1>4. ASSUME NEW t \in Tasks, Scheduler!ScheduleBlocks(s, t)
        PROVE  task' \in [Tasks -> TaskRow] /\ \A u \in Tasks : PassMoves(s, u)
    <2> DEFINE P == Scheduler!Published(s)
    <2>1. task' = [P EXCEPT ![t].status = "BLOCKED"] /\ task[t].status = "PENDING"
      BY <1>4 DEF Scheduler!ScheduleBlocks, Scheduler!Still
    <2>2. /\ P \in [Tasks -> TaskRow]
          /\ \A u \in Tasks : P[u] = IF u \in squeued[s] THEN [task[u] EXCEPT !.status = "QUEUED"]
                                     ELSE task[u]
      BY PublishedRows
    <2> HIDE DEF P
    <2>3. [P[t] EXCEPT !.status = "BLOCKED"] \in TaskRow
      BY <2>2 DEF TaskRow, TaskStatus
    <2>4. /\ task' \in [Tasks -> TaskRow]
          /\ task'[t] = [P[t] EXCEPT !.status = "BLOCKED"]
          /\ \A u \in Tasks \ {t} : task'[u] = P[u]
      BY <2>1, <2>2, <2>3
    <2>5. [P[t] EXCEPT !.status = "BLOCKED"] = [task[t] EXCEPT !.status = "BLOCKED"]
      BY <1>0, <2>2 DEF TaskRow
    <2>6. Unscheduled(t)
      BY <2>1 DEF Unscheduled
    <2> QED
      BY <1>1, <2>2, <2>4, <2>5, <2>6 DEF PassMoves
  <1>5. \/ task' = task \/ Scheduler!ScheduleEnds(s)
        \/ \E t \in Tasks : Scheduler!ScheduleBlocks(s, t)
    BY DEF ScheduleStep, Scheduler!SchedulePass, Scheduler!ScheduleReads,
       Scheduler!ScheduleReadsDeps, Scheduler!ScheduleQueues, Scheduler!ScheduleSkips,
       Scheduler!ScheduleAborts
  <1> QED
    BY <1>2, <1>3, <1>4, <1>5

\* The pool does not notice: no row a worker has anything to do with moves.
LEMMA PassStepKeepsPool ==
  ASSUME MissionInv, NEW s \in Schedulers, ScheduleStep(s)
  PROVE  IInv' /\ Owned' /\ RetryBudget'
  <1> USE DEF MissionInv
  <1>0. UNCHANGED <<executing, claims, wstatus, pc, cur, cand, snap, cols, verdict, heartbeat,
                    drain, rpc, rtodo, rcur, rsnap, rcols, rheld>>
    BY DEF ScheduleStep, poolVars, workVars, recVars
  <1>1. task' \in [Tasks -> TaskRow] /\ \A t \in Tasks : PassMoves(s, t)
    BY PassRows DEF IInv
  <1>2. \A t \in Tasks : ~Unscheduled(t) => task'[t] = task[t]
    BY <1>1 DEF PassMoves
  <1>3. \A t \in Tasks : Unscheduled(t) /\ task'[t] # task[t] => task'[t].attempts = 0
    <2>1. ASSUME NEW t \in Tasks PROVE task[t] \in TaskRow
      BY DEF IInv, TypeOK
    <2>2. ASSUME NEW t \in Tasks, Unscheduled(t), task'[t] # task[t]
          PROVE  task'[t].attempts = task[t].attempts
      BY <1>1, <2>1, <2>2 DEF PassMoves, TaskRow
    <2> QED
      BY <2>2 DEF PassInv
  <1>4. TypeOK' /\ Linked'
    BY <1>0, <1>1 DEF IInv, TypeOK, Linked, ClaimIds
  <1>5. RetryBudget'
    BY <1>2, <1>3, CoordinatorAssumption DEF RetryBudget
  <1>6. \A w \in Workers : pc[w] \in Executing =>
          task'[claims[cur[w]].task] = task[claims[cur[w]].task]
    <2>1. ASSUME NEW w \in Workers, pc[w] \in Executing
          PROVE  claims[cur[w]].task \in Tasks /\ ~Unscheduled(claims[cur[w]].task)
      BY <2>1, SoleOwner DEF Owned, Unscheduled
    <2> QED
      BY <1>2, <2>1
  <1>7. \A w \in Workers : pc[w] \in Transacting => pc[w] \in Executing
    BY DEF Transacting, Writing, Executing
  <1>8. Owned'
    BY <1>0, <1>6, <1>7 DEF Owned, SingleExecutor, Executes, Intended
  <1> QED
    BY <1>4, <1>5, <1>8 DEF IInv

\* A pass queues a task only when its snapshot, which shows true successes,
\* covers all the parents.
LEMMA QueuedInOrder ==
  ASSUME PassInv, NEW s \in Schedulers, NEW t \in Tasks, Scheduler!ScheduleQueues(s, t)
  PROVE  Unscheduled(t) /\ ParentsDone(t) /\ \A q \in Schedulers \ {s} : t \notin squeued[q]
  <1>1. /\ spc[s] = "pass" /\ t \in stodo[s] /\ task[t].status = ssnap[s][t]
        /\ \A q \in Schedulers \ {s} : t \notin squeued[q]
        /\ {p \in Tasks : <<t, p>> \in sdeps[s] /\ ssnap[s][p] # "SUCCEEDED"} = {}
    BY DEF Scheduler!ScheduleQueues, Scheduler!Visit, Scheduler!Still, Scheduler!RowFree,
       Scheduler!AllSucceeded, Scheduler!Waited
  <1>2. Unscheduled(t)
    BY <1>1 DEF PassInv, Unscheduled
  <1>3. ASSUME NEW p \in Parents[t] PROVE task[p].status = "SUCCEEDED"
    <2>1. p \in Tasks /\ <<t, p>> \in Edges
      BY CoordinatorAssumption DEF Edges
    <2>2. ssnap[s][p] = "SUCCEEDED"
      BY <1>1, <2>1 DEF PassInv
    <2> QED
      BY <2>1, <2>2 DEF PassInv
  <1> QED
    BY <1>1, <1>2, <1>3 DEF ParentsDone

LEMMA PassStepKeepsPasses ==
  ASSUME MissionInv, NEW s \in Schedulers, ScheduleStep(s)
  PROVE  PassInv' /\ DependenciesFirst'
  <1> USE DEF MissionInv
  <1>0. /\ spc \in [Schedulers -> {"idle", "deps", "pass"}]
        /\ ssnap \in [Schedulers -> [Tasks -> TaskStatus \cup {"ABSENT"}]]
        /\ sdeps \in [Schedulers -> SUBSET (Tasks \X Tasks)]
        /\ stodo \in [Schedulers -> SUBSET Tasks]
        /\ squeued \in [Schedulers -> SUBSET Tasks]
    BY DEF PassInv, Scheduler!ScheduleTypeOK, Scheduler!TaskStatus, TaskStatus
  <1>1. task \in [Tasks -> TaskRow] /\ \A t \in Tasks : PassMoves(s, t)
    BY PassRows DEF IInv, TypeOK
  <1>2. \A t \in Tasks :
          /\ task[t].status = "SUCCEEDED" => task'[t].status = "SUCCEEDED"
          /\ Unscheduled(t)' => Unscheduled(t)
          /\ task'[t].attempts = task[t].attempts
    BY <1>1 DEF PassMoves, Unscheduled, TaskRow
  <1>3. \A t \in Tasks : ParentsDone(t) => ParentsDone(t)'
    BY <1>2, CoordinatorAssumption DEF ParentsDone
  <1>4. DependenciesFirst'
    <2>1. ASSUME NEW t \in Tasks, ~Unscheduled(t)' PROVE ParentsDone(t)
      <3>1. CASE ~Unscheduled(t)
        BY <3>1 DEF DependenciesFirst, Unscheduled, ParentsDone
      <3>2. CASE Unscheduled(t)
        BY <1>1, <2>1, <3>2 DEF PassMoves, Unscheduled, TaskRow
      <3> QED
        BY <3>1, <3>2
    <2> QED
      BY <1>3, <2>1 DEF DependenciesFirst, Unscheduled, ParentsDone
  <1>5. \A t \in Tasks : Unscheduled(t)' => task'[t].attempts = 0
    BY <1>2 DEF PassInv
  <1>6. \A q \in Schedulers : \A p \in Tasks :
          ssnap[q][p] = "SUCCEEDED" => task'[p].status = "SUCCEEDED"
    BY <1>2 DEF PassInv
  <1>7. \A q \in Schedulers \ {s} :
          /\ spc'[q] = spc[q] /\ ssnap'[q] = ssnap[q] /\ sdeps'[q] = sdeps[q]
          /\ stodo'[q] = stodo[q] /\ squeued'[q] = squeued[q]
    BY <1>0 DEF ScheduleStep, Scheduler!SchedulePass, Scheduler!ScheduleReads,
       Scheduler!ScheduleReadsDeps, Scheduler!ScheduleQueues, Scheduler!ScheduleBlocks,
       Scheduler!ScheduleSkips, Scheduler!ScheduleEnds, Scheduler!ScheduleAborts,
       Scheduler!Visit, Scheduler!Leaves
  <1>8. \A q \in Schedulers \ {s} : \A t \in squeued[q] : Unscheduled(t)' /\ ParentsDone(t)'
    <2>1. ASSUME NEW q \in Schedulers \ {s}, NEW t \in squeued[q]
          PROVE  Unscheduled(t)' /\ ParentsDone(t)'
      <3>1. t \in Tasks /\ t \notin squeued[s] /\ Unscheduled(t) /\ ParentsDone(t)
        BY <1>0 DEF PassInv
      <3>2. task'[t] = task[t] \/ task'[t] = [task[t] EXCEPT !.status = "BLOCKED"]
        BY <1>1, <3>1 DEF PassMoves
      <3>3. Unscheduled(t)'
        BY <1>1, <3>1, <3>2 DEF Unscheduled, TaskRow
      <3> QED
        BY <1>3, <3>1, <3>3
    <2> QED
      BY <2>1
  <1> DEFINE Kept ==
        /\ Scheduler!ScheduleTypeOK'
        /\ \A p \in Tasks : ssnap'[s][p] = "SUCCEEDED" => task'[p].status = "SUCCEEDED"
        /\ spc'[s] = "pass" => sdeps'[s] = Edges
        /\ \A t \in stodo'[s] : ssnap'[s][t] \in {"PENDING", "BLOCKED"}
        /\ \A t \in squeued'[s] : /\ Unscheduled(t)' /\ ParentsDone(t)'
                                  /\ \A q \in Schedulers \ {s} : t \notin squeued[q]
  <1>o. \A t \in squeued[s] : /\ Unscheduled(t) /\ ParentsDone(t)
                              /\ \A q \in Schedulers \ {s} : t \notin squeued[q]
    BY <1>0 DEF PassInv
  <1>p. /\ \A p \in Tasks : ssnap[s][p] = "SUCCEEDED" => task[p].status = "SUCCEEDED"
        /\ spc[s] = "pass" => sdeps[s] = Edges
        /\ \A t \in stodo[s] : ssnap[s][t] \in {"PENDING", "BLOCKED"}
    BY DEF PassInv
  <1> USE DEF Scheduler!ScheduleTypeOK, Scheduler!TaskStatus, TaskStatus
  <1>9. ASSUME Scheduler!ScheduleReads(s) PROVE Kept
    <2>1. /\ task' = task /\ spc' = [spc EXCEPT ![s] = "deps"]
          /\ ssnap' = [ssnap EXCEPT ![s] = [t \in Tasks |-> task[t].status]]
          /\ stodo' = [stodo EXCEPT ![s] = {t \in Tasks : task[t].status \in {"PENDING", "BLOCKED"}}]
          /\ UNCHANGED <<sdeps, squeued>>
      BY <1>9 DEF Scheduler!ScheduleReads, Scheduler!Waiting
    <2>2. \A t \in Tasks : task[t].status \in TaskStatus
      BY <1>1 DEF TaskRow
    <2>3. /\ ssnap'[s] = [t \in Tasks |-> task[t].status] /\ spc'[s] = "deps"
          /\ stodo'[s] = {t \in Tasks : task[t].status \in {"PENDING", "BLOCKED"}}
          /\ squeued'[s] = squeued[s]
      BY <1>0, <2>1
    <2>4. Scheduler!ScheduleTypeOK'
      BY <1>0, <2>1, <2>2
    <2>5. \A t \in squeued[s] : Unscheduled(t)'
      BY <1>o, <2>1 DEF Unscheduled
    <2>6. \A p \in Tasks : ssnap'[s][p] = "SUCCEEDED" => task'[p].status = "SUCCEEDED"
      BY <2>1, <2>3
    <2>7. \A t \in stodo'[s] : ssnap'[s][t] \in {"PENDING", "BLOCKED"}
      BY <2>3
    <2>8. \A t \in squeued'[s] : /\ Unscheduled(t)' /\ ParentsDone(t)'
                                 /\ \A q \in Schedulers \ {s} : t \notin squeued[q]
      BY <1>0, <1>3, <1>o, <2>3, <2>5
    <2> HIDE DEF Scheduler!ScheduleTypeOK
    <2> QED
      BY <2>3, <2>4, <2>6, <2>7, <2>8
  <1>10. ASSUME Scheduler!ScheduleReadsDeps(s) PROVE Kept
    <2>1. /\ task' = task /\ spc' = [spc EXCEPT ![s] = "pass"]
          /\ sdeps' = [sdeps EXCEPT ![s] = Edges] /\ Edges \in SUBSET (Tasks \X Tasks)
          /\ UNCHANGED <<ssnap, stodo, squeued>>
      BY <1>10 DEF Scheduler!ScheduleReadsDeps, Edges
    <2>2. Scheduler!ScheduleTypeOK'
      BY <1>0, <2>1
    <2>3. \A t \in squeued[s] : Unscheduled(t)'
      BY <1>o, <2>1 DEF Unscheduled
    <2>4. /\ squeued'[s] = squeued[s] /\ stodo'[s] = stodo[s] /\ ssnap'[s] = ssnap[s]
          /\ sdeps'[s] = Edges
      BY <1>0, <2>1
    <2>5. \A t \in squeued'[s] : /\ Unscheduled(t)' /\ ParentsDone(t)'
                                 /\ \A q \in Schedulers \ {s} : t \notin squeued[q]
      BY <1>0, <1>3, <1>o, <2>3, <2>4
    <2> HIDE DEF Scheduler!ScheduleTypeOK
    <2> QED
      BY <1>p, <2>1, <2>2, <2>4, <2>5
  <1>11. ASSUME NEW t \in Tasks, Scheduler!ScheduleQueues(s, t) PROVE Kept
    <2>1. /\ task' = task /\ squeued' = [squeued EXCEPT ![s] = @ \cup {t}]
          /\ stodo' = [stodo EXCEPT ![s] = @ \ {t}]
          /\ UNCHANGED <<spc, ssnap, sdeps>>
      BY <1>11 DEF Scheduler!ScheduleQueues, Scheduler!Visit
    <2>2. Unscheduled(t) /\ ParentsDone(t) /\ \A q \in Schedulers \ {s} : t \notin squeued[q]
      BY <1>11, QueuedInOrder
    <2>3. Scheduler!ScheduleTypeOK'
      BY <1>0, <2>1
    <2>4. squeued'[s] = squeued[s] \cup {t} /\ stodo'[s] \subseteq stodo[s]
      BY <1>0, <2>1
    <2>5. \A u \in squeued'[s] : Unscheduled(u)'
      BY <1>o, <2>1, <2>2, <2>4 DEF Unscheduled
    <2> QED
      BY <1>0, <1>3, <1>o, <1>p, <2>1, <2>2, <2>3, <2>4, <2>5
  <1>12. ASSUME NEW t \in Tasks, Scheduler!ScheduleBlocks(s, t) PROVE Kept
    <2>1. /\ squeued' = [squeued EXCEPT ![s] = {}] /\ stodo' = [stodo EXCEPT ![s] = @ \ {t}]
          /\ UNCHANGED <<spc, ssnap, sdeps>>
      BY <1>12 DEF Scheduler!ScheduleBlocks, Scheduler!Visit
    <2>2. Scheduler!ScheduleTypeOK'
      BY <1>0, <2>1
    <2>3. squeued'[s] = {} /\ stodo'[s] \subseteq stodo[s]
      BY <1>0, <2>1
    <2> QED
      BY <1>2, <1>p, <2>1, <2>2, <2>3
  <1>13. ASSUME NEW t \in Tasks, Scheduler!ScheduleSkips(s, t) PROVE Kept
    <2>1. /\ task' = task /\ stodo' = [stodo EXCEPT ![s] = @ \ {t}]
          /\ UNCHANGED <<spc, ssnap, sdeps, squeued>>
      BY <1>13 DEF Scheduler!ScheduleSkips, Scheduler!Visit
    <2>2. Scheduler!ScheduleTypeOK'
      BY <1>0, <2>1
    <2>3. stodo'[s] \subseteq stodo[s]
      BY <1>0, <2>1
    <2>4. \A u \in squeued[s] : Unscheduled(u)'
      BY <1>o, <2>1 DEF Unscheduled
    <2> QED
      BY <1>0, <1>3, <1>o, <1>p, <2>1, <2>2, <2>3, <2>4
  <1>14. ASSUME Scheduler!ScheduleEnds(s) \/ Scheduler!ScheduleAborts(s) PROVE Kept
    <2>1. /\ spc' = [spc EXCEPT ![s] = "idle"]
          /\ ssnap' = [ssnap EXCEPT ![s] = [t \in Tasks |-> "ABSENT"]]
          /\ sdeps' = [sdeps EXCEPT ![s] = {}] /\ squeued' = [squeued EXCEPT ![s] = {}]
      BY <1>14 DEF Scheduler!ScheduleEnds, Scheduler!ScheduleAborts, Scheduler!Leaves
    <2>2. stodo' \in [Schedulers -> SUBSET Tasks] /\ stodo'[s] = {}
      BY <1>0, <1>14 DEF Scheduler!ScheduleEnds, Scheduler!ScheduleAborts
    <2>3. Scheduler!ScheduleTypeOK'
      BY <1>0, <2>1, <2>2
    <2>4. /\ spc'[s] = "idle" /\ squeued'[s] = {}
          /\ \A p \in Tasks : ssnap'[s][p] = "ABSENT"
      BY <1>0, <2>1
    <2> HIDE DEF Scheduler!ScheduleTypeOK
    <2> QED
      BY <2>2, <2>3, <2>4
  <1>15. Kept
    <2> HIDE DEF Kept
    <2> QED
      BY <1>9, <1>10, <1>11, <1>12, <1>13, <1>14 DEF ScheduleStep, Scheduler!SchedulePass
  <1>16. \A q, r \in Schedulers : q # r => squeued'[q] \cap squeued'[r] = {}
    <2>1. \A q, r \in Schedulers \ {s} : q # r => squeued[q] \cap squeued[r] = {}
      BY DEF PassInv
    <2>2. \A q \in Schedulers \ {s} : squeued'[s] \cap squeued[q] = {}
      BY <1>15
    <2> QED
      BY <1>7, <2>1, <2>2
  <1>17. \A q \in Schedulers :
           /\ \A p \in Tasks : ssnap'[q][p] = "SUCCEEDED" => task'[p].status = "SUCCEEDED"
           /\ spc'[q] = "pass" => sdeps'[q] = Edges
           /\ \A t \in stodo'[q] : ssnap'[q][t] \in {"PENDING", "BLOCKED"}
           /\ \A t \in squeued'[q] : Unscheduled(t)' /\ ParentsDone(t)'
    <2>1. ASSUME NEW q \in Schedulers \ {s}
          PROVE  /\ spc[q] = "pass" => sdeps[q] = Edges
                 /\ \A t \in stodo[q] : ssnap[q][t] \in {"PENDING", "BLOCKED"}
      BY DEF PassInv
    <2> QED
      BY <1>6, <1>7, <1>8, <1>15, <2>1
  <1> QED
    BY <1>4, <1>5, <1>15, <1>16, <1>17 DEF PassInv

------------------------------------------------------------------------------
(* The mission.                                                            *)

LEMMA MissionInitial == MissionInit => MissionInv
  <1> SUFFICES ASSUME MissionInit PROVE MissionInv
    OBVIOUS
  <1> USE DEF MissionInit
  <1>1. TypeOK
    BY CoordinatorAssumption, EmptySeq
    DEF PoolInit, TypeOK, TaskRow, TaskStatus, NoRow, WorkerStatus, Locations, Executing,
        ClaimIds
  <1>2. Linked /\ RetryBudget
    BY CoordinatorAssumption DEF PoolInit, Linked, RetryBudget, Executing, NoRow
  <1>3. Owned
    BY DEF PoolInit, Owned, SingleExecutor, Executes, Executing, Transacting, Writing, Intended
  <1>4. PassInv /\ DependenciesFirst
    <2>1. \A t \in Tasks : Unscheduled(t) /\ task[t].attempts = 0
      BY DEF Unscheduled, NoRow
    <2>2. Scheduler!ScheduleTypeOK
      BY DEF Scheduler!ScheduleInit, Scheduler!ScheduleTypeOK
    <2> QED
      BY <2>1, <2>2 DEF PassInv, DependenciesFirst, Unscheduled, Scheduler!ScheduleInit
  <1> QED
    BY <1>1, <1>2, <1>3, <1>4 DEF MissionInv, IInv

LEMMA MissionInductive ==
  ASSUME Recoverers = {}, MissionInv, [MissionNext]_missionVars
  PROVE  MissionInv'
  <1>1. CASE UNCHANGED missionVars \/ PoolStep
    <2>1. [Next]_vars /\ UNCHANGED schedulerVars
      BY <1>1 DEF PoolStep, missionVars
    <2>2. IInv' /\ Owned' /\ RetryBudget'
      BY <2>1, NextTyped, NextOwned, NextKeepsBudget DEF MissionInv
    <2> QED
      BY <2>1, <2>2, PoolStepKeepsPasses DEF MissionInv
  <1>2. ASSUME NEW s \in Schedulers, ScheduleStep(s) PROVE MissionInv'
    BY <1>2, PassStepKeepsPool, PassStepKeepsPasses DEF MissionInv
  <1> QED
    BY <1>1, <1>2 DEF MissionNext

\* Pool and passes leave each other's invariants alone, without recovery.
THEOREM MissionInvariance ==
  ASSUME Recoverers = {}
  PROVE  MissionSpec => []MissionInv
  <1>1. MissionInv /\ [MissionNext]_missionVars => MissionInv'
    BY MissionInductive
  <1> QED
    BY <1>1, MissionInitial, PTL DEF MissionSpec

\* Rows, locations and the snapshots of scheduler passes keep their types.
THEOREM MissionTypeCorrect ==
  ASSUME Recoverers = {}
  PROVE  MissionSpec => []MissionTypeOK
  <1>1. MissionInv => MissionTypeOK
    BY DEF MissionInv, IInv, PassInv, MissionTypeOK
  <1> QED
    BY <1>1, MissionInvariance, PTL

\* No task enters the queue, let alone runs, before everything it depends on
\* has SUCCEEDED, however many passes of task_scheduler.py overlap with each
\* other and with the workers, and whatever the graph is.
THEOREM DependenciesRespected ==
  ASSUME Recoverers = {}
  PROVE  MissionSpec => []DependenciesFirst
  <1>1. MissionInv => DependenciesFirst
    BY DEF MissionInv
  <1> QED
    BY <1>1, MissionInvariance, PTL

\* A pass takes no task from the worker that owns it: its commits are the
\* Schedule steps of the ownership promise.
LEMMA PassKeepsPromise ==
  ASSUME MissionInv, NEW s \in Schedulers, ScheduleStep(s)
  PROVE  Promise!Schedule
  <1> USE DEF MissionInv
  <1>1. \A t \in Tasks : PassMoves(s, t) /\ task[t] \in TaskRow
    BY PassRows DEF IInv, TypeOK
  <1>2. task' \in [Tasks -> TaskRow]
    BY PassRows DEF IInv
  <1>3. \A t \in Tasks : task[t].status \in {"PENDING", "BLOCKED", "READY"} => Owners[t] = {}
    BY DEF Owners, Executes, Owned
  <1>4. UNCHANGED Owners
    BY DEF ScheduleStep, poolVars, workVars, Owners, Executes
  <1> DEFINE next == [t \in Tasks |-> IF task'[t].status \in {"PENDING", "BLOCKED", "READY", "QUEUED"}
                                      THEN task'[t].status ELSE "BLOCKED"]
  <1>5. next \in [Tasks -> {"PENDING", "BLOCKED", "READY", "QUEUED"}]
    OBVIOUS
  <1>6. \A t \in Tasks : next[t] = "PENDING" => task[t].status = "PENDING"
    BY <1>1 DEF PassMoves, TaskRow
  <1>7. \A t \in Tasks :
          task'[t] = IF Owners[t] = {} /\ task[t].status \in {"PENDING", "BLOCKED", "READY"}
                     THEN [task[t] EXCEPT !.status = next[t]] ELSE task[t]
    <2>1. ASSUME NEW t \in Tasks, task'[t] = task[t],
                 task[t].status \in {"PENDING", "BLOCKED", "READY"}
          PROVE  task'[t] = [task[t] EXCEPT !.status = next[t]]
      BY <1>1, <2>1 DEF TaskRow
    <2>2. ASSUME NEW t \in Tasks, Unscheduled(t), NEW status \in {"BLOCKED", "QUEUED"},
                 task'[t] = [task[t] EXCEPT !.status = status]
          PROVE  task'[t] = [task[t] EXCEPT !.status = next[t]]
      BY <1>1, <2>2 DEF TaskRow
    <2> HIDE DEF next
    <2> QED
      BY <1>1, <1>3, <2>1, <2>2 DEF PassMoves, Unscheduled
  <1> QED
    BY <1>2, <1>4, <1>5, <1>6, <1>7 DEF Promise!Schedule, Promise!Waiting

\* Pool and scheduler together implement TaskOwnership: no pass, however old
\* its snapshot, puts a task back that a worker has taken.
THEOREM MissionPromiseKept ==
  ASSUME Recoverers = {}
  PROVE  MissionSpec => MissionKeepsPromise
  <1>1. MissionInit => Promise!Init
    BY DEF MissionInit, PoolInit, Promise!Init, Owners, Executes, Executing, NoRow
  <1>2. MissionInv /\ [MissionNext]_missionVars => [Promise!Next]_Promise!vars
    <2>1. ASSUME MissionInv, UNCHANGED missionVars \/ PoolStep
          PROVE  [Promise!Next]_Promise!vars
      <3>1. [Next]_vars
        BY <2>1 DEF PoolStep, missionVars
      <3> QED
        BY <2>1, <3>1, StepKeepsPromise DEF MissionInv
    <2>2. ASSUME MissionInv, NEW s \in Schedulers, ScheduleStep(s)
          PROVE  [Promise!Next]_Promise!vars
      BY <2>2, PassKeepsPromise DEF Promise!Next
    <2> QED
      BY <2>1, <2>2 DEF MissionNext
  <1> QED
    BY <1>1, <1>2, MissionInvariance, PTL DEF MissionSpec, MissionKeepsPromise
===============================================================================
