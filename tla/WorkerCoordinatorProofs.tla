------------------------ MODULE WorkerCoordinatorProofs ------------------------
(***************************************************************************)
(* Theorems about the worker pool, for every value of its constants.       *)
(***************************************************************************)
EXTENDS WorkerCoordinator, SequenceTheorems, TLAPS

\* The inductive invariant behind TypeOK: no coroutine and no recovery pass
\* works on a claim that is not in the table.
IInv == TypeOK /\ Linked

\* Writing one claim back leaves the table a table of the same size.
LEMMA ClaimWritten ==
  ASSUME NEW s \in Seq(Claim), NEW i \in 1..Len(s), NEW c \in Claim
  PROVE  /\ [s EXCEPT ![i] = c] \in Seq(Claim)
         /\ Len([s EXCEPT ![i] = c]) = Len(s)
         /\ \A j \in 1..Len(s) : [s EXCEPT ![i] = c][j] = IF j = i THEN c ELSE s[j]
  BY ExceptSeq

\* A new claim goes to the end of the table.
LEMMA ClaimAppended ==
  ASSUME NEW s \in Seq(Claim), NEW c \in Claim
  PROVE  /\ Append(s, c) \in Seq(Claim)
         /\ Len(Append(s, c)) = Len(s) + 1
         /\ \A j \in 1..Len(s) : Append(s, c)[j] = s[j]
         /\ Append(s, c)[Len(s) + 1] = c
  OBVIOUS

\* What a transaction makes of a row is a row.
LEMMA RowsTyped ==
  ASSUME NEW row \in TaskRow
  PROVE  /\ ClaimedRow(row) \in TaskRow
         /\ \A ok \in BOOLEAN : SettledRow(row, Target(ok)) \in TaskRow
         /\ CompletedRow(row) \in TaskRow
         /\ AfterFailure(row) \in TaskRow
         /\ RequeuedRow(row) \in TaskRow
  BY CoordinatorAssumption DEF TaskRow, TaskStatus, ClaimedRow, SettledRow, Target,
     CompletedRow, AfterFailure, RequeuedRow, TaskCanMove, TaskTransitions

\* The row an UPDATE leaves is one too, whatever columns it sets.
LEMMA MergedTyped ==
  ASSUME NEW row \in TaskRow, NEW new \in TaskRow, NEW set
  PROVE  Merged(row, new, set) \in TaskRow
  BY DEF Merged, TaskRow

\* The columns an UPDATE sets are columns of the table.
LEMMA ColumnsTyped ==
  ASSUME NEW row, NEW found, NEW target
  PROVE  /\ Differing(row, found) \subseteq Columns
         /\ SettledColumns(row, target, found) \subseteq Columns
         /\ FailedColumns(row, found) \subseteq Columns
  <1>1. \A new : Differing(new, found) \subseteq Columns
    BY DEF Differing, Columns
  <1> QED
    BY <1>1 DEF SettledColumns, FailedColumns

LEMMA InitTyped == Init => IInv
  <1> SUFFICES ASSUME Init PROVE IInv
    OBVIOUS
  <1>1. TypeOK
    BY CoordinatorAssumption, EmptySeq
    DEF Init, PoolInit, TypeOK, TaskRow, TaskStatus, NoRow, WorkerStatus, Locations, Executing,
        ClaimIds
  <1>2. Linked
    BY DEF Init, PoolInit, Linked, Executing
  <1> QED
    BY <1>1, <1>2 DEF IInv

\* The row of a claim's task is a task row.
LEMMA ClaimTyped ==
  ASSUME TypeOK, NEW e \in ClaimIds
  PROVE  /\ claims[e] \in Claim
         /\ claims[e].task \in Tasks
         /\ task[claims[e].task] \in TaskRow
  <1>1. claims[e] \in Claim
    BY ElementOfSeq DEF TypeOK, ClaimIds
  <1> QED
    BY <1>1 DEF TypeOK, Claim

\* The steps that write neither tasks nor claims: they move locations,
\* snapshots and coroutines.
LEMMA QuietStepsTyped ==
  ASSUME IInv, NEW w \in Workers,
         \/ Register(w) \/ Poll(w) \/ \E t \in Tasks : LoseCandidate(w, t)
         \/ RunReturns(w) \/ \E ok \in BOOLEAN : RunEnds(w, ok) \/ Verify(w, ok)
         \/ Rereads(w) \/ ExecutionRaises(w) \/ StillOwner(w) \/ CompleteReads(w) \/ FailReads(w)
         \/ EndExecution(w) \/ Exit(w) \/ Crash(w)
         \/ HeartbeatReads(w) \/ HeartbeatDies(w) \/ Shutdown(w) \/ MarkStopped(w)
  PROVE  IInv'
  <1> USE DEF IInv, TypeOK, Linked, ClaimIds, taskVars, workVars, recVars,
              Goto, Locations, Executing
  <1>0. NoRow \in TaskRow
    BY CoordinatorAssumption DEF NoRow, TaskRow, TaskStatus
  <1>a. pc[w] \in Executing => task[claims[cur[w]].task] \in TaskRow
    BY ClaimTyped
  <1>1. CASE Register(w)
    BY <1>1 DEF Register, WorkerStatus
  <1>2. CASE Poll(w)
    BY <1>2 DEF Poll
  <1>3. CASE \E t \in Tasks : LoseCandidate(w, t)
    BY <1>3 DEF LoseCandidate
  <1>4. CASE RunReturns(w)
    BY <1>4 DEF RunReturns
  <1>5. CASE \E ok \in BOOLEAN : RunEnds(w, ok) \/ Verify(w, ok)
    <2>1. ASSUME NEW ok \in BOOLEAN, RunEnds(w, ok) PROVE IInv'
      BY <1>a, <2>1 DEF RunEnds, ReadTask
    <2>2. ASSUME NEW ok \in BOOLEAN, Verify(w, ok) PROVE IInv'
      BY <2>2, Zenon DEF Verify
    <2> QED
      BY <1>5, <2>1, <2>2
  <1>6. CASE ExecutionRaises(w)
    BY <1>0, <1>6 DEF ExecutionRaises, Failing, Close
  <1>7. CASE StillOwner(w)
    <2>1. /\ pc[w] \in Executing /\ verdict' = [verdict EXCEPT ![w] = FALSE]
          /\ \E l \in Executing : pc' = [pc EXCEPT ![w] = l]
      BY <1>7 DEF StillOwner
    <2> QED
      BY <1>7, <2>1 DEF StillOwner
  <1>8. CASE CompleteReads(w)
    BY <1>a, <1>8 DEF CompleteReads, ReadTask
  <1>9. CASE FailReads(w)
    BY <1>a, <1>9 DEF FailReads, ReadTask
  <1>10. CASE EndExecution(w)
    BY <1>10 DEF EndExecution
  <1>11. CASE Exit(w)
    BY <1>11 DEF Exit, Stopped, WorkerStatus
  <1>12. CASE Crash(w)
    BY <1>0, <1>12 DEF Crash, Close
  <1>13. CASE HeartbeatReads(w)
    BY <1>13 DEF HeartbeatReads
  <1>14. CASE HeartbeatDies(w)
    BY <1>14 DEF HeartbeatDies
  <1>15. CASE Shutdown(w)
    BY <1>15 DEF Shutdown
  <1>16. CASE MarkStopped(w)
    BY <1>16 DEF MarkStopped, Stopped, WorkerStatus
  <1>17. CASE Rereads(w)
    <2>1. PICK set \in SUBSET Columns : cols' = [cols EXCEPT ![w] = set]
      BY <1>17, ColumnsTyped DEF Rereads, SelectAgain
    <2>2. /\ pc[w] \in Executing
          /\ \E l \in {"sWrite", "cWrite", "fWrite"} : pc' = [pc EXCEPT ![w] = l]
      BY <1>17 DEF Rereads, SelectAgain
    <2> QED
      BY <1>17, <2>1, <2>2 DEF Rereads
  <1> QED
    BY <1>1, <1>2, <1>3, <1>4, <1>5, <1>6, <1>7, <1>8, <1>9, <1>10, <1>11, <1>12,
       <1>13, <1>14, <1>15, <1>16, <1>17

\* A claim of a queued task: the one step that counts an attempt.
LEMMA ClaimTaskTyped ==
  ASSUME IInv, NEW w \in Workers, NEW t \in Tasks, ClaimTask(w, t)
  PROVE  IInv'
  <1> USE DEF IInv, ClaimIds
  <1> DEFINE row == ClaimedRow(task[t])
             c == [task |-> t, worker |-> w, attempt |-> row.attempts,
                   status |-> "RUNNING", live |-> TRUE, left |-> "no"]
  <1>1. task[t] \in TaskRow
    BY DEF TypeOK
  <1>2. row \in TaskRow /\ row.attempts \in Nat \ {0} /\ row.status = "RUNNING"
    BY <1>1 DEF ClaimedRow, TaskRow, TaskStatus
  <1>3. c \in Claim
    BY <1>2 DEF Claim, ExecutionStatus
  <1>4. task' = [task EXCEPT ![t] = row] /\ claims' = Append(claims, c)
    BY DEF ClaimTask
  <1> HIDE DEF row, c
  <1>5. claims' \in Seq(Claim) /\ Len(claims') = Len(claims) + 1 /\ Len(claims) \in Nat
    BY <1>3, <1>4, ClaimAppended, LenProperties DEF TypeOK
  <1>6. TypeOK'
    BY <1>2, <1>4, <1>5
    DEF ClaimTask, TypeOK, Goto, Locations, Executing, recVars, WorkerStatus
  <1>7. Linked'
    BY <1>5 DEF ClaimTask, TypeOK, Linked, Goto, Executing, recVars
  <1> QED
    BY <1>6, <1>7

\* The steps that write one claim back and leave the tasks alone.
LEMMA ClaimStepsTyped ==
  ASSUME IInv,
         \/ \E w \in Workers :
              LostOwnership(w) \/ FailRaises(w) \/ HeartbeatWrites(w) \/ ReleaseLease(w)
         \/ \E e \in ClaimIds : Expire(e)
  PROVE  IInv'
  <1> USE DEF IInv
  <1>1. ASSUME NEW e \in ClaimIds, NEW c \in Claim, claims' = [claims EXCEPT ![e] = c]
        PROVE  claims' \in Seq(Claim) /\ ClaimIds' = ClaimIds /\ Len(claims') = Len(claims)
    BY <1>1, ClaimWritten DEF TypeOK, ClaimIds
  <1>2. ASSUME NEW e \in ClaimIds
        PROVE  /\ [claims[e] EXCEPT !.live = TRUE] \in Claim
               /\ [claims[e] EXCEPT !.live = FALSE] \in Claim
               /\ [claims[e] EXCEPT !.left = "stale"] \in Claim
               /\ [claims[e] EXCEPT !.left = "raised"] \in Claim
    BY <1>2, ClaimTyped DEF Claim
  <1>3. NoRow \in TaskRow
    BY CoordinatorAssumption DEF NoRow, TaskRow, TaskStatus
  <1>4. ASSUME NEW w \in Workers, LostOwnership(w) PROVE IInv'
    <2>1. claims' \in Seq(Claim) /\ ClaimIds' = ClaimIds /\ Len(claims') = Len(claims)
      BY <1>1, <1>2, <1>4 DEF LostOwnership, Linked, Executing
    <2> QED
      BY <1>4, <2>1 DEF LostOwnership, TypeOK, Linked, Goto, Locations,
                        Executing, recVars
  <1>5. ASSUME NEW w \in Workers, FailRaises(w) PROVE IInv'
    <2>1. claims' \in Seq(Claim) /\ ClaimIds' = ClaimIds /\ Len(claims') = Len(claims)
      BY <1>1, <1>2, <1>5 DEF FailRaises, Failing, Linked, Executing
    <2> QED
      BY <1>3, <1>5, <2>1 DEF FailRaises, Failing, Close, TypeOK, Linked, Goto, Locations,
                              Executing, recVars
  <1>6. ASSUME NEW w \in Workers, HeartbeatWrites(w) PROVE IInv'
    <2>1. claims' \in Seq(Claim) /\ ClaimIds' = ClaimIds /\ Len(claims') = Len(claims)
      BY <1>1, <1>2, <1>6 DEF HeartbeatWrites, Linked
    <2> QED
      BY <1>6, <2>1 DEF HeartbeatWrites, TypeOK, Linked, workVars, recVars
  <1>7. ASSUME NEW w \in Workers, ReleaseLease(w) PROVE IInv'
    <2>1. cur[w] = 0 \/ cur[w] \in ClaimIds
      BY DEF TypeOK, ClaimIds
    <2>2. claims' \in Seq(Claim) /\ ClaimIds' = ClaimIds /\ Len(claims') = Len(claims)
      BY <1>1, <1>2, <1>7, <2>1 DEF ReleaseLease, TypeOK, ClaimIds
    <2> QED
      BY <1>7, <2>2 DEF ReleaseLease, TypeOK, Linked, workVars, recVars
  <1>8. ASSUME NEW e \in ClaimIds, Expire(e) PROVE IInv'
    <2>1. claims' \in Seq(Claim) /\ ClaimIds' = ClaimIds /\ Len(claims') = Len(claims)
      BY <1>1, <1>2, <1>8 DEF Expire
    <2> QED
      BY <1>8, <2>1 DEF Expire, TypeOK, Linked, workVars, recVars
  <1> QED
    BY <1>4, <1>5, <1>6, <1>7, <1>8

\* The worker's transactions that write the task row they have read.
LEMMA RowStepsTyped ==
  ASSUME IInv, NEW w \in Workers,
         RunSettles(w) \/ CompleteWrites(w) \/ FailWrites(w)
  PROVE  IInv'
  <1> USE DEF IInv
  <1> DEFINE e == cur[w]
             t == claims[e].task
  <1>1. e \in ClaimIds
    BY DEF RunSettles, CompleteWrites, FailWrites, Linked, Executing
  <1>2. claims[e] \in Claim /\ t \in Tasks
    BY <1>1, ClaimTyped
  <1>3. NoRow \in TaskRow /\ snap[w] \in TaskRow /\ verdict[w] \in BOOLEAN
    BY CoordinatorAssumption DEF NoRow, TaskRow, TaskStatus, TypeOK
  <1>4. /\ [claims[e] EXCEPT !.status = Target(verdict[w])] \in Claim
        /\ CompletedClaim(claims[e]) \in Claim
        /\ FailedClaim(claims[e]) \in Claim
    BY <1>2 DEF Claim, ExecutionStatus, Target, CompletedClaim, FailedClaim
  <1>5. ASSUME NEW c \in Claim, claims' = [claims EXCEPT ![e] = c]
        PROVE  claims' \in Seq(Claim) /\ ClaimIds' = ClaimIds /\ Len(claims') = Len(claims)
    BY <1>1, <1>5, ClaimWritten DEF TypeOK, ClaimIds
  <1>6. ASSUME NEW new \in TaskRow, task' = [task EXCEPT ![t] = Merged(@, new, cols[w])]
        PROVE  task' \in [Tasks -> TaskRow]
    BY <1>2, <1>6, MergedTyped DEF TypeOK
  <1>7. task' \in [Tasks -> TaskRow]
    BY <1>3, <1>6, RowsTyped DEF RunSettles, CompleteWrites, FailWrites
  <1>8. claims' \in Seq(Claim) /\ ClaimIds' = ClaimIds /\ Len(claims') = Len(claims)
    BY <1>4, <1>5 DEF RunSettles, CompleteWrites, FailWrites
  <1>9. /\ pc[w] \in Executing
        /\ \E l \in {"own1", "end"} : pc' = [pc EXCEPT ![w] = l]
        /\ snap' = [snap EXCEPT ![w] = NoRow] /\ cols' = [cols EXCEPT ![w] = {}]
        /\ verdict' = verdict \/ verdict' = [verdict EXCEPT ![w] = FALSE]
        /\ UNCHANGED <<executing, wstatus, cur, cand, heartbeat, drain, recVars>>
    BY DEF RunSettles, CompleteWrites, FailWrites, Goto, Close, Executing
  <1> HIDE DEF t, e
  <1>10. verdict' \in [Workers -> BOOLEAN]
    BY <1>9, Zenon DEF TypeOK
  <1>11. /\ pc' \in [Workers -> Locations] /\ snap' \in [Workers -> TaskRow]
         /\ cols' \in [Workers -> SUBSET Columns]
    BY <1>3, <1>9 DEF TypeOK, Locations, Executing
  <1>12. TypeOK'
    BY <1>7, <1>8, <1>9, <1>10, <1>11 DEF TypeOK, recVars
  <1>13. Linked'
    BY <1>8, <1>9 DEF TypeOK, Linked, Executing, recVars
  <1> QED
    BY <1>12, <1>13

\* The steps of a recovery pass.
LEMMA RecoverStepsTyped ==
  ASSUME IInv, NEW r \in Recoverers, RecoverStep(r)
  PROVE  IInv'
  <1> USE DEF IInv
  <1>1. NoRow \in TaskRow
    BY CoordinatorAssumption DEF NoRow, TaskRow, TaskStatus
  <1>2. Len(claims) \in Nat
    BY LenProperties DEF TypeOK
  <1>3. CASE RecoverStarts(r)
    BY <1>3 DEF RecoverStarts, StaleLeases, TypeOK, Linked, ClaimIds,
                taskVars, workVars
  <1>4. CASE \E e \in ClaimIds : RecoverSkips(r, e)
    BY <1>4 DEF RecoverSkips, TypeOK, Linked, ClaimIds, taskVars, workVars
  <1>5. CASE \E e \in ClaimIds : RecoverReads(r, e)
    <2>1. PICK e \in ClaimIds : RecoverReads(r, e)
      BY <1>5
    <2>2. task[claims[e].task] \in TaskRow
      BY ClaimTyped
    <2> QED
      BY <1>2, <2>1, <2>2
      DEF RecoverReads, TypeOK, Linked, ClaimIds, taskVars, workVars
  <1>6. CASE RecoverGivesUp(r)
    <2>1. WrittenExecutions(r) \subseteq ClaimIds
      BY <1>6 DEF RecoverGivesUp, RecoverLooks, WrittenExecutions, TypeOK, Linked
    <2> QED
      BY <1>1, <1>2, <1>6, <2>1
      DEF RecoverGivesUp, RecoverLooks, NextLease, TypeOK, Linked, ClaimIds, taskVars, workVars
  <1>7. CASE RecoverEnds(r)
    BY <1>7 DEF RecoverEnds, TypeOK, Linked, ClaimIds, taskVars, workVars
  <1>8. CASE RecoverAborts(r)
    BY <1>1, <1>2, <1>8
    DEF RecoverAborts, TypeOK, Linked, ClaimIds, taskVars, workVars
  <1>9. CASE RecoverRereads(r)
    <2>1. WrittenExecutions(r) \subseteq ClaimIds
      BY <1>9 DEF RecoverRereads, RecoverLooks, WrittenExecutions, TypeOK, Linked
    <2>2. PICK set \in SUBSET Columns : rcols' = [rcols EXCEPT ![r] = set]
      BY <1>9, ColumnsTyped DEF RecoverRereads
    <2> QED
      BY <1>2, <1>9, <2>1, <2>2
      DEF RecoverRereads, RecoverLooks, TypeOK, Linked, ClaimIds, taskVars, workVars
  <1>10. CASE RecoverRequeues(r)
    <2> DEFINE t == claims[rcur[r]].task
    <2>1. t \in Tasks
      BY <1>10, ClaimTyped DEF RecoverRequeues, Linked
    <2>2. Merged(task[t], RequeuedRow(rsnap[r]), rcols[r]) \in TaskRow
      BY <2>1, MergedTyped, RowsTyped DEF TypeOK
    <2>3. claims' \in [1..Len(claims) -> Claim]
      <3>1. \A e \in ClaimIds : claims[e] \in Claim /\ [claims[e] EXCEPT !.status = "FAILED"] \in Claim
        BY ClaimTyped DEF Claim, ExecutionStatus
      <3> QED
        BY <1>10, <3>1 DEF RecoverRequeues, FailExecutions, ClaimIds
    <2>4. claims' \in Seq(Claim) /\ Len(claims') = Len(claims)
      BY <1>2, <2>3, SeqDef
    <2>5. task' \in [Tasks -> TaskRow]
      BY <1>10, <2>1, <2>2 DEF RecoverRequeues, TypeOK
    <2> HIDE DEF t
    <2>6. /\ rheld' = [rheld EXCEPT ![r] = {}] /\ rcur' = [rcur EXCEPT ![r] = 0]
          /\ rsnap' = [rsnap EXCEPT ![r] = NoRow] /\ rcols' = [rcols EXCEPT ![r] = {}]
          /\ rpc' = [rpc EXCEPT ![r] = "scan"]
          /\ UNCHANGED <<executing, wstatus, workVars, heartbeat, drain, rtodo>>
      BY <1>10 DEF RecoverRequeues, NextLease
    <2>7. TypeOK'
      BY <1>1, <1>2, <2>4, <2>5, <2>6 DEF TypeOK, ClaimIds, workVars
    <2>8. Linked'
      BY <2>4, <2>6 DEF TypeOK, Linked, ClaimIds, workVars
    <2> QED
      BY <2>7, <2>8
  <1> QED
    BY <1>3, <1>4, <1>5, <1>6, <1>7, <1>8, <1>9, <1>10 DEF RecoverStep

LEMMA NextTyped == IInv /\ [Next]_vars => IInv'
  <1> SUFFICES ASSUME IInv, [Next]_vars PROVE IInv'
    OBVIOUS
  <1>1. CASE UNCHANGED vars
    BY <1>1 DEF vars, IInv, TypeOK, Linked, ClaimIds
  <1>2. CASE MissionToggles
    BY <1>2 DEF MissionToggles, IInv, TypeOK, Linked, ClaimIds, workVars, recVars
  <1>3. CASE \E e \in ClaimIds : Expire(e)
    BY <1>3, ClaimStepsTyped
  <1>4. CASE \E r \in Recoverers : RecoverStep(r)
    BY <1>4, RecoverStepsTyped
  <1>5. CASE \E w \in Workers : WorkerStep(w) \/ HeartbeatStep(w) \/ ShutdownStep(w) \/ Crash(w)
    BY <1>5, QuietStepsTyped, ClaimTaskTyped, ClaimStepsTyped, RowStepsTyped
    DEF WorkerStep, HeartbeatStep, ShutdownStep
  <1> QED
    BY <1>1, <1>2, <1>3, <1>4, <1>5 DEF Next

\* Every behaviour keeps IInv.
THEOREM Invariance == Spec => []IInv
  BY InitTyped, NextTyped, PTL DEF Spec

\* The rows, locations and snapshots of the pool keep their types, for any
\* number of tasks, workers and recovery callers.
THEOREM TypeCorrect == Spec => []TypeOK
  BY Invariance, PTL DEF IInv

------------------------------------------------------------------------------
(* Ownership, in a deployment where nobody calls recover_stale.            *)

\* An UPDATE of the row that was read sets the columns that make it the row
\* wanted.
Intended(w) ==
  /\ pc[w] = "sWrite" => cols[w] = SettledColumns(snap[w], Target(verdict[w]), snap[w])
  /\ pc[w] = "cWrite" => cols[w] = Differing(CompletedRow(snap[w]), snap[w])
  /\ pc[w] = "fWrite" => cols[w] = FailedColumns(snap[w], snap[w])

\* A transaction of execute_claimed has read the task.
Transacting == {"sUpdate", "cUpdate", "fUpdate"} \cup Writing

\* The inductive invariant behind the ownership results: while a worker
\* executes a task, the row is out of the queue, no other worker executes it,
\* a snapshot taken by the worker's open transaction is still the row, and so
\* is what its second SELECT has found.
Owned ==
  /\ SingleExecutor
  /\ \A w \in Workers : pc[w] \in Executing =>
       task[claims[cur[w]].task].status \in {"RUNNING", "SUCCEEDED", "FAILED"}
  /\ \A w \in Workers : pc[w] \in Transacting => snap[w] = task[claims[cur[w]].task]
  /\ \A w \in Workers : pc[w] \in {"cUpdate", "cWrite"} => snap[w].status = "RUNNING"
  /\ \A w \in Workers : Intended(w)

\* A claim, once made, stays a claim of the same task by the same worker with
\* the same attempt number, and only ClaimTask adds one.
ClaimsFixed ==
  /\ Len(claims) <= Len(claims')
  /\ Len(claims') = Len(claims) \/ \E w \in Workers, t \in Tasks : ClaimTask(w, t)
  /\ \A e \in ClaimIds : /\ claims'[e].task = claims[e].task
                         /\ claims'[e].worker = claims[e].worker
                         /\ claims'[e].attempt = claims[e].attempt

LEMMA ClaimsStayFixed ==
  ASSUME IInv, [Next]_vars
  PROVE  ClaimsFixed
  <1> USE DEF IInv
  <1>0. claims \in Seq(Claim) /\ Len(claims) \in Nat
    BY LenProperties DEF TypeOK
  <1>1. ASSUME claims' = claims PROVE ClaimsFixed
    BY <1>0, <1>1 DEF ClaimsFixed
  <1>2. ASSUME NEW i \in ClaimIds, NEW c \in Claim, claims' = [claims EXCEPT ![i] = c],
               c.task = claims[i].task, c.worker = claims[i].worker,
               c.attempt = claims[i].attempt
        PROVE  ClaimsFixed
    BY <1>0, <1>2, ClaimWritten DEF ClaimsFixed, ClaimIds
  <1>3. \A e \in ClaimIds : claims[e] \in Claim
    BY ClaimTyped
  <1>4. CASE \E w \in Workers, t \in Tasks : ClaimTask(w, t)
    <2>1. PICK w \in Workers, t \in Tasks : ClaimTask(w, t)
      BY <1>4
    <2>2. PICK c : claims' = Append(claims, c)
      BY <2>1 DEF ClaimTask
    <2>3. /\ Len(claims) <= Len(claims')
          /\ \A e \in ClaimIds : claims'[e] = claims[e]
      BY <1>0, <2>2 DEF ClaimIds
    <2> QED
      BY <2>1, <2>3 DEF ClaimsFixed
  <1>5. CASE \E w \in Workers : LostOwnership(w) \/ FailRaises(w)
    <2>1. PICK w \in Workers : LostOwnership(w) \/ FailRaises(w)
      BY <1>5
    <2>2. cur[w] \in ClaimIds
      BY <2>1 DEF LostOwnership, FailRaises, Failing, Linked, Executing
    <2> QED
      BY <1>2, <1>3, <2>1, <2>2 DEF LostOwnership, FailRaises, Claim
  <1>6. CASE \E w \in Workers : HeartbeatWrites(w)
    <2>1. PICK w \in Workers : HeartbeatWrites(w)
      BY <1>6
    <2>2. cur[w] \in ClaimIds
      BY <2>1 DEF HeartbeatWrites, Linked
    <2> QED
      BY <1>2, <1>3, <2>1, <2>2 DEF HeartbeatWrites, Claim
  <1>7. CASE \E w \in Workers : ReleaseLease(w)
    <2>1. PICK w \in Workers : ReleaseLease(w)
      BY <1>7
    <2>2. cur[w] = 0 \/ cur[w] \in ClaimIds
      BY DEF TypeOK, ClaimIds
    <2> QED
      BY <1>1, <1>2, <1>3, <2>1, <2>2 DEF ReleaseLease, Claim
  <1>8. CASE \E e \in ClaimIds : Expire(e)
    <2>1. PICK e \in ClaimIds : Expire(e)
      BY <1>8
    <2> QED
      BY <1>2, <1>3, <2>1 DEF Expire, Claim
  <1>9. CASE \E w \in Workers : RunSettles(w) \/ CompleteWrites(w) \/ FailWrites(w)
    <2>1. PICK w \in Workers : RunSettles(w) \/ CompleteWrites(w) \/ FailWrites(w)
      BY <1>9
    <2>2. cur[w] \in ClaimIds
      BY <2>1 DEF RunSettles, CompleteWrites, FailWrites, Linked, Executing
    <2>3. claims[cur[w]] \in Claim
      BY <1>3, <2>2
    <2>4. PICK c \in {[claims[cur[w]] EXCEPT !.status = Target(verdict[w])],
                      CompletedClaim(claims[cur[w]]), FailedClaim(claims[cur[w]])} :
             claims' = [claims EXCEPT ![cur[w]] = c]
      BY <2>1 DEF RunSettles, CompleteWrites, FailWrites
    <2>5. /\ c \in Claim
          /\ c.task = claims[cur[w]].task
          /\ c.worker = claims[cur[w]].worker
          /\ c.attempt = claims[cur[w]].attempt
      BY <2>3 DEF Claim, ExecutionStatus, Target, CompletedClaim, FailedClaim
    <2> QED
      BY <1>2, <2>2, <2>4, <2>5
  <1>10. CASE \E r \in Recoverers : RecoverRequeues(r)
    <2>1. PICK E : claims' = [e \in ClaimIds |->
                      IF e \in E THEN [claims[e] EXCEPT !.status = "FAILED"] ELSE claims[e]]
      BY <1>10 DEF RecoverRequeues, FailExecutions
    <2>2. \A e \in ClaimIds : /\ claims'[e].task = claims[e].task
                              /\ claims'[e].worker = claims[e].worker
                              /\ claims'[e].attempt = claims[e].attempt
                              /\ claims'[e] \in Claim
      BY <1>3, <2>1 DEF Claim, ExecutionStatus
    <2>3. DOMAIN claims' = 1..Len(claims) /\ claims' \in [1..Len(claims) -> Claim]
      BY <2>1, <2>2 DEF ClaimIds
    <2>4. claims' \in Seq(Claim) /\ Len(claims') = Len(claims)
      BY <1>0, <2>3, SeqDef
    <2> QED
      BY <1>0, <2>2, <2>4 DEF ClaimsFixed
  <1>11. \/ claims' = claims
         \/ \E w \in Workers, t \in Tasks : ClaimTask(w, t)
         \/ \E w \in Workers :
              \/ LostOwnership(w) \/ FailRaises(w) \/ HeartbeatWrites(w) \/ ReleaseLease(w)
              \/ RunSettles(w) \/ CompleteWrites(w) \/ FailWrites(w)
         \/ \E e \in ClaimIds : Expire(e)
         \/ \E r \in Recoverers : RecoverRequeues(r)
    <2>1. ASSUME NEW w \in Workers,
                 \/ Register(w) \/ Poll(w) \/ \E t \in Tasks : LoseCandidate(w, t)
                 \/ RunReturns(w) \/ \E ok \in BOOLEAN : RunEnds(w, ok) \/ Verify(w, ok)
                 \/ Rereads(w) \/ ExecutionRaises(w) \/ StillOwner(w) \/ CompleteReads(w) \/ FailReads(w)
                 \/ EndExecution(w) \/ Exit(w) \/ Crash(w)
                 \/ HeartbeatReads(w) \/ HeartbeatDies(w) \/ Shutdown(w) \/ MarkStopped(w)
          PROVE  claims' = claims
      BY <2>1 DEF Register, Poll, LoseCandidate, RunReturns, RunEnds, Verify,
         Rereads, ExecutionRaises, StillOwner, CompleteReads, FailReads, EndExecution, Exit, Crash,
         HeartbeatReads, HeartbeatDies, Shutdown, MarkStopped, taskVars
    <2>2. ASSUME NEW r \in Recoverers,
                 \/ RecoverStarts(r) \/ RecoverGivesUp(r) \/ RecoverRereads(r)
                 \/ RecoverEnds(r) \/ RecoverAborts(r)
                 \/ \E e \in ClaimIds : RecoverSkips(r, e) \/ RecoverReads(r, e)
          PROVE  claims' = claims
      BY <2>2 DEF RecoverStarts, RecoverGivesUp, RecoverRereads, RecoverEnds,
         RecoverAborts, RecoverSkips, RecoverReads, taskVars
    <2>3. UNCHANGED vars \/ MissionToggles => claims' = claims
      BY DEF vars, MissionToggles
    <2> QED
      BY <2>1, <2>2, <2>3 DEF Next, WorkerStep, HeartbeatStep, ShutdownStep, RecoverStep
  <1> QED
    BY <1>1, <1>4, <1>5, <1>6, <1>7, <1>8, <1>9, <1>10, <1>11

\* A failure that queues its task again has found an attempt left.
LEMMA RequeuedWithinBudget ==
  ASSUME NEW row \in TaskRow, row.status # "QUEUED", AfterFailure(row).status = "QUEUED"
  PROVE  AfterFailure(row).attempts < MaxAttempts
  <1>1. AfterFailure(row).attempts = row.attempts
    BY DEF AfterFailure, TaskRow
  <1>2. ~(row.attempts < MaxAttempts) => AfterFailure(row).status # "QUEUED"
    BY DEF AfterFailure, TaskRow
  <1> QED
    BY <1>1, <1>2

\* Under Owned an UPDATE leaves exactly the row its transaction wants.
LEMMA MergedWanted ==
  ASSUME NEW row \in TaskRow
  PROVE  /\ \A ok \in BOOLEAN :
              Merged(row, SettledRow(row, Target(ok)), SettledColumns(row, Target(ok), row))
                = SettledRow(row, Target(ok))
         /\ Merged(row, CompletedRow(row), Differing(CompletedRow(row), row)) = CompletedRow(row)
         /\ Merged(row, AfterFailure(row), FailedColumns(row, row)) = AfterFailure(row)
  <1>1. ASSUME NEW new \in TaskRow
        PROVE  /\ Merged(row, new, Differing(new, row)) = new
               /\ Merged(row, new, Columns) = new
               /\ Merged(row, row, {}) = row
    BY <1>1 DEF Merged, Differing, Columns, TaskRow
  <1>2. \A ok \in BOOLEAN :
          ~CanSettle(row.status, Target(ok)) => SettledRow(row, Target(ok)) = row
    BY DEF SettledRow
  <1> QED
    BY <1>1, <1>2, RowsTyped DEF SettledColumns, FailedColumns

LEMMA OwnedRowWritten ==
  ASSUME IInv, Owned, NEW w \in Workers,
         RunSettles(w) \/ CompleteWrites(w) \/ FailWrites(w)
  PROVE  LET t == claims[cur[w]].task
         IN /\ t \in Tasks /\ task[t] \in TaskRow
            /\ RunSettles(w) =>
                 task' = [task EXCEPT ![t] = SettledRow(task[t], Target(verdict[w]))]
            /\ CompleteWrites(w) =>
                 task[t].status = "RUNNING" /\ task' = [task EXCEPT ![t] = CompletedRow(task[t])]
            /\ FailWrites(w) => task' = [task EXCEPT ![t] = AfterFailure(task[t])]
  <1> DEFINE t == claims[cur[w]].task
  <1>1. pc[w] \in Executing /\ pc[w] \in Transacting
    BY DEF RunSettles, CompleteWrites, FailWrites, Executing, Transacting, Writing
  <1>2. t \in Tasks /\ task[t] \in TaskRow /\ verdict[w] \in BOOLEAN
    BY <1>1, ClaimTyped DEF IInv, TypeOK, Linked
  <1>3. snap[w] = task[t] /\ Intended(w)
    BY <1>1 DEF Owned
  <1>4. ASSUME RunSettles(w)
        PROVE  task' = [task EXCEPT ![t] = SettledRow(task[t], Target(verdict[w]))]
    <2>1. cols[w] = SettledColumns(task[t], Target(verdict[w]), task[t])
      BY <1>3, <1>4 DEF RunSettles, Intended
    <2>2. task' = [task EXCEPT ![t] = Merged(task[t], SettledRow(task[t], Target(verdict[w])), cols[w])]
      BY <1>2, <1>3, <1>4 DEF RunSettles
    <2> QED
      BY <1>2, <2>1, <2>2, MergedWanted
  <1>5. ASSUME CompleteWrites(w)
        PROVE  task[t].status = "RUNNING" /\ task' = [task EXCEPT ![t] = CompletedRow(task[t])]
    <2>1. /\ cols[w] = Differing(CompletedRow(task[t]), task[t])
          /\ task[t].status = "RUNNING"
      BY <1>3, <1>5 DEF CompleteWrites, Intended, Owned
    <2>2. task' = [task EXCEPT ![t] = Merged(task[t], CompletedRow(task[t]), cols[w])]
      BY <1>2, <1>3, <1>5 DEF CompleteWrites
    <2> QED
      BY <1>2, <2>1, <2>2, MergedWanted
  <1>6. ASSUME FailWrites(w)
        PROVE  task' = [task EXCEPT ![t] = AfterFailure(task[t])]
    <2>1. cols[w] = FailedColumns(task[t], task[t])
      BY <1>3, <1>6 DEF FailWrites, Intended
    <2>2. task' = [task EXCEPT ![t] = Merged(task[t], AfterFailure(task[t]), cols[w])]
      BY <1>2, <1>3, <1>6 DEF FailWrites
    <2> QED
      BY <1>2, <2>1, <2>2, MergedWanted
  <1> QED
    BY <1>2, <1>4, <1>5, <1>6

\* A step that leaves the tasks alone, starts no execution and takes only
\* current snapshots keeps tasks owned.
LEMMA QuietStepsOwned ==
  ASSUME IInv, Owned, [Next]_vars, task' = task,
         \A v \in Workers : pc'[v] \in Executing =>
           /\ pc[v] \in Executing /\ cur'[v] = cur[v]
           /\ pc'[v] \in Transacting => snap'[v] = task[claims[cur[v]].task]
           /\ pc'[v] \in {"cUpdate", "cWrite"} => snap'[v].status = "RUNNING"
           /\ Intended(v)'
  PROVE  Owned'
  <1>1. \A v \in Workers : pc'[v] \in Executing =>
          cur[v] \in ClaimIds /\ claims'[cur'[v]].task = claims[cur[v]].task
    BY ClaimsStayFixed DEF IInv, Linked, ClaimsFixed
  <1>2. \A v \in Workers : pc'[v] \in Transacting \cup {"cUpdate", "cWrite"} => pc'[v] \in Executing
    BY DEF Transacting, Writing, Executing
  <1>3. \A v \in Workers : Intended(v)'
    <2> SUFFICES ASSUME NEW v \in Workers, pc'[v] \notin Executing PROVE Intended(v)'
      OBVIOUS
    <2> QED
      BY DEF Intended, Executing
  <1>4. SingleExecutor'
    BY <1>1 DEF Owned, SingleExecutor, Executes
  <1> QED
    BY <1>1, <1>2, <1>3, <1>4 DEF Owned

LEMMA WorkerStepsOwned ==
  ASSUME IInv, Owned, Next, NEW w \in Workers,
         WorkerStep(w) \/ HeartbeatStep(w) \/ ShutdownStep(w) \/ Crash(w)
  PROVE  Owned'
  <1> USE DEF IInv
  <1> DEFINE t == claims[cur[w]].task
  <1>1. pc \in [Workers -> Locations] /\ snap \in [Workers -> TaskRow]
        /\ cur \in [Workers -> 0..Len(claims)] /\ task \in [Tasks -> TaskRow]
        /\ cols \in [Workers -> SUBSET Columns] /\ verdict \in [Workers -> BOOLEAN]
    BY DEF TypeOK
  <1>2. pc[w] \in Executing => cur[w] \in ClaimIds /\ t \in Tasks
    BY ClaimTyped DEF Linked
  <1>3. \A v \in Workers : pc[v] \in Transacting => snap[v] = task[claims[cur[v]].task]
    BY DEF Owned
  <1>4. \A v \in Workers : pc[v] \in {"cUpdate", "cWrite"} => snap[v].status = "RUNNING"
    BY DEF Owned
  <1>5. ASSUME NEW v \in Workers,
               pc'[v] \in Writing =>
                 /\ pc'[v] = pc[v] /\ snap'[v] = snap[v] /\ cols'[v] = cols[v]
                 /\ verdict'[v] = verdict[v]
        PROVE  Intended(v)'
    <2>1. Intended(v)
      BY DEF Owned
    <2> QED
      BY <1>5, <2>1 DEF Intended, Writing
  <1>6. CASE \/ Register(w) \/ Poll(w) \/ \E u \in Tasks : LoseCandidate(w, u)
             \/ RunReturns(w) \/ ExecutionRaises(w) \/ StillOwner(w) \/ LostOwnership(w)
             \/ FailRaises(w) \/ EndExecution(w) \/ Exit(w) \/ Crash(w)
             \/ HeartbeatStep(w) \/ ShutdownStep(w) \/ \E ok \in BOOLEAN : Verify(w, ok)
    <2>1. /\ task' = task /\ [Next]_vars
          /\ \A v \in Workers : pc'[v] \in Executing =>
               /\ pc[v] \in Executing /\ cur'[v] = cur[v]
               /\ pc'[v] \in Transacting => pc[v] = pc'[v] /\ snap'[v] = snap[v]
      BY <1>1, <1>6
      DEF Register, Poll, LoseCandidate, RunReturns, ExecutionRaises, StillOwner,
          LostOwnership, FailRaises, EndExecution, Exit, Crash, HeartbeatStep,
          HeartbeatReads, HeartbeatWrites, HeartbeatDies, ShutdownStep, Shutdown,
          ReleaseLease, MarkStopped, Verify, Goto, Close, Executing, Failing, Transacting,
          Writing, taskVars, workVars
    <2>2. \A v \in Workers : pc'[v] \in Writing => cols'[v] = cols[v] /\ verdict'[v] = verdict[v]
      BY <1>1, <1>6
      DEF Register, Poll, LoseCandidate, RunReturns, ExecutionRaises, StillOwner,
          LostOwnership, FailRaises, EndExecution, Exit, Crash, HeartbeatStep,
          HeartbeatReads, HeartbeatWrites, HeartbeatDies, ShutdownStep, Shutdown,
          ReleaseLease, MarkStopped, Verify, Goto, Close, Executing, Writing, workVars
    <2>3. \A v \in Workers : pc'[v] \in Executing =>
           /\ pc[v] \in Executing /\ cur'[v] = cur[v]
           /\ pc'[v] \in Transacting => snap'[v] = task[claims[cur[v]].task]
           /\ pc'[v] \in {"cUpdate", "cWrite"} => snap'[v].status = "RUNNING"
           /\ Intended(v)'
      BY <1>5, <1>3, <1>4, <2>1, <2>2 DEF Transacting, Writing, Executing
    <2> QED
      BY <2>1, <2>3, QuietStepsOwned
  <1>7. CASE \/ \E ok \in BOOLEAN : RunEnds(w, ok)
             \/ CompleteReads(w) \/ FailReads(w)
    <2>1. /\ task' = task /\ [Next]_vars /\ cur' = cur /\ cols' = cols /\ pc[w] \in Executing
          /\ \A v \in Workers \ {w} : verdict'[v] = verdict[v]
          /\ \/ pc' = [pc EXCEPT ![w] = "fRead"] /\ snap' = snap
             \/ /\ snap' = [snap EXCEPT ![w] = task[t]]
                /\ \/ \E l \in {"sUpdate", "fUpdate"} : pc' = [pc EXCEPT ![w] = l]
                   \/ /\ pc' = [pc EXCEPT ![w] = "cUpdate"]
                      /\ TaskCanMove(task[t].status, "SUCCEEDED")
      BY <1>1, <1>7 DEF RunEnds, CompleteReads, FailReads, ReadTask, Goto, Executing, taskVars
    <2>2. TaskCanMove(task[t].status, "SUCCEEDED") => task[t].status = "RUNNING"
      BY DEF TaskCanMove, TaskTransitions
    <2>3. \A v \in Workers : Intended(v)'
      BY <1>5, <1>1, <2>1 DEF Writing
    <2>4. \A v \in Workers : pc'[v] \in Executing =>
           /\ pc[v] \in Executing /\ cur'[v] = cur[v]
           /\ pc'[v] \in Transacting => snap'[v] = task[claims[cur[v]].task]
           /\ pc'[v] \in {"cUpdate", "cWrite"} => snap'[v].status = "RUNNING"
           /\ Intended(v)'
      BY <1>1, <1>3, <1>4, <2>1, <2>2, <2>3 DEF Transacting, Writing, Executing
    <2> QED
      BY <2>1, <2>4, QuietStepsOwned
  <1>8. CASE Rereads(w)
    <2>1. /\ task' = task /\ [Next]_vars /\ cur' = cur /\ snap' = snap /\ verdict' = verdict
          /\ pc[w] \in Executing /\ pc[w] \in Transacting
          /\ \E l, set : pc' = [pc EXCEPT ![w] = l] /\ cols' = [cols EXCEPT ![w] = set]
          /\ pc'[w] = "cWrite" => pc[w] = "cUpdate"
          /\ pc'[w] \in Writing
      BY <1>1, <1>8 DEF Rereads, SelectAgain, Goto, Executing, Transacting, Writing, taskVars
    <2>2. snap[w] = task[t]
      BY <1>3, <2>1
    <2>3. Intended(w)'
      BY <1>1, <1>8, <2>1, <2>2 DEF Rereads, SelectAgain, Goto, Intended
    <2>4. \A v \in Workers : Intended(v)'
      BY <1>5, <1>1, <2>1, <2>3
    <2>5. \A v \in Workers : pc'[v] \in Executing =>
           /\ pc[v] \in Executing /\ cur'[v] = cur[v]
           /\ pc'[v] \in Transacting => snap'[v] = task[claims[cur[v]].task]
           /\ pc'[v] \in {"cUpdate", "cWrite"} => snap'[v].status = "RUNNING"
           /\ Intended(v)'
      BY <1>1, <1>3, <1>4, <2>1, <2>2, <2>4 DEF Writing, Executing
    <2> QED
      BY <2>1, <2>5, QuietStepsOwned
  <1>9. \A v \in Workers : pc[v] \in Executing => cur[v] \in ClaimIds
    BY DEF Linked
  <1>10. ClaimsFixed
    BY ClaimsStayFixed
  <1>11. ASSUME NEW u \in Tasks, ClaimTask(w, u) PROVE Owned'
    <2>1. /\ task[u].status = "QUEUED"
          /\ task' = [task EXCEPT ![u] = ClaimedRow(task[u])]
          /\ cur' = [cur EXCEPT ![w] = Len(claims) + 1]
          /\ pc' = [pc EXCEPT ![w] = "run"]
          /\ snap' = snap /\ cols' = cols /\ verdict' = verdict
      BY <1>11 DEF ClaimTask, Claimable, Goto
    <2>2. claims'[cur'[w]].task = u
      BY <1>1, <1>11, <2>1, ClaimAppended, LenProperties DEF ClaimTask, TypeOK
    <2>3. \A v \in Workers : pc[v] \in Executing => claims[cur[v]].task # u
      BY <2>1 DEF Owned
    <2>4. \A v \in Workers \ {w} : pc[v] \in Executing =>
            claims'[cur'[v]].task = claims[cur[v]].task
      BY <1>1, <1>9, <1>10, <2>1 DEF ClaimsFixed
    <2>5. ClaimedRow(task[u]).status = "RUNNING"
      BY DEF ClaimedRow
    <2>6. SingleExecutor'
      <3>1. \A v \in Workers : pc'[v] \in Executing =>
              \/ v = w /\ claims'[cur'[v]].task = u
              \/ /\ v # w /\ pc[v] \in Executing /\ claims[cur[v]].task # u
                 /\ claims'[cur'[v]].task = claims[cur[v]].task
        BY <1>1, <2>1, <2>2, <2>3, <2>4
      <3> QED
        BY <3>1 DEF Owned, SingleExecutor, Executes
    <2>7. \A v \in Workers : pc'[v] \in Executing =>
            /\ task'[claims'[cur'[v]].task].status \in {"RUNNING", "SUCCEEDED", "FAILED"}
            /\ v # w => task'[claims'[cur'[v]].task] = task[claims[cur[v]].task]
      BY <1>1, <2>1, <2>2, <2>3, <2>4, <2>5 DEF Owned
    <2>8. \A v \in Workers : Intended(v)'
      BY <1>5, <1>1, <2>1 DEF Writing
    <2> QED
      BY <1>1, <1>3, <1>4, <2>1, <2>6, <2>7, <2>8 DEF Owned, Transacting, Writing, Executing
  <1>12. CASE RunSettles(w) \/ CompleteWrites(w) \/ FailWrites(w)
    <2>1. PICK row : task' = [task EXCEPT ![t] = row]
      BY <1>12, OwnedRowWritten
    <2>2. /\ pc[w] \in Executing /\ cur' = cur
          /\ snap' = [snap EXCEPT ![w] = NoRow] /\ cols' = [cols EXCEPT ![w] = {}]
          /\ \A v \in Workers \ {w} : verdict'[v] = verdict[v]
          /\ \/ pc' = [pc EXCEPT ![w] = "end"]
             \/ pc' = [pc EXCEPT ![w] = "own1"] /\ RunSettles(w)
      BY <1>1, <1>12 DEF RunSettles, CompleteWrites, FailWrites, Goto, Close, Executing
    <2>3. \A v \in Workers : pc[v] \in Executing =>
            claims'[cur'[v]].task = claims[cur[v]].task
      BY <1>9, <1>10, <2>2 DEF ClaimsFixed
    <2>4. SingleExecutor'
      <3>1. \A v \in Workers : pc'[v] \in Executing => pc[v] \in Executing
        BY <1>1, <2>2 DEF Executing
      <3> QED
        BY <2>3, <3>1 DEF Owned, SingleExecutor, Executes
    <2>5. \A v \in Workers \ {w} : pc[v] \in Executing =>
            /\ claims[cur[v]].task # t
            /\ task'[claims'[cur'[v]].task] = task[claims[cur[v]].task]
      <3>1. \A v \in Workers \ {w} : pc[v] \in Executing => claims[cur[v]].task # t
        <4> SUFFICES ASSUME NEW v \in Workers \ {w}, pc[v] \in Executing,
                            claims[cur[v]].task = t
                     PROVE  FALSE
          OBVIOUS
        <4>1. Executes(v, t) /\ Executes(w, t) /\ t \in Tasks
          BY <1>2, <2>2 DEF Executes
        <4> QED
          BY <4>1 DEF Owned, SingleExecutor
      <3>2. \A v \in Workers : pc[v] \in Executing => claims[cur[v]].task \in Tasks
        BY <1>9, ClaimTyped
      <3> QED
        BY <1>1, <2>1, <2>3, <3>1, <3>2
    <2>6. \A v \in Workers : Intended(v)'
      BY <1>5, <1>1, <2>2 DEF Writing
    <2>7. \A v \in Workers : pc'[v] \in Transacting \cup {"cUpdate", "cWrite"} =>
            /\ v # w /\ pc'[v] = pc[v] /\ snap'[v] = snap[v]
            /\ task'[claims'[cur'[v]].task] = task[claims[cur[v]].task]
      BY <1>1, <2>2, <2>5 DEF Transacting, Writing, Executing
    <2>8. /\ \A v \in Workers : pc'[v] \in Transacting => snap'[v] = task'[claims'[cur'[v]].task]
          /\ \A v \in Workers : pc'[v] \in {"cUpdate", "cWrite"} => snap'[v].status = "RUNNING"
      BY <1>3, <1>4, <2>7
    <2>9. \A v \in Workers \ {w} : pc'[v] \in Executing =>
             task'[claims'[cur'[v]].task].status \in {"RUNNING", "SUCCEEDED", "FAILED"}
      BY <1>1, <2>2, <2>5 DEF Owned
    <2>10. CASE RunSettles(w)
      <3>1. task[t].status \in {"RUNNING", "SUCCEEDED", "FAILED"}
        BY <2>2 DEF Owned
      <3>2. task'[t] = SettledRow(task[t], Target(verdict[w])) /\ task[t] \in TaskRow
        BY <1>1, <1>2, <2>2, <2>10, OwnedRowWritten
      <3>3. task'[t].status \in {"RUNNING", "SUCCEEDED", "FAILED"}
        BY <3>1, <3>2 DEF SettledRow, Target, TaskRow
      <3>4. pc' = [pc EXCEPT ![w] = "own1"]
        BY <2>10 DEF RunSettles, Goto
      <3> QED
        BY <2>2, <2>3, <2>4, <2>6, <2>8, <2>9, <3>3 DEF Owned
    <2>11. CASE pc' = [pc EXCEPT ![w] = "end"]
      <3>1. pc'[w] \notin Executing
        BY <1>1, <2>11 DEF Executing
      <3> QED
        BY <2>4, <2>6, <2>8, <2>9, <3>1 DEF Owned
    <2> QED
      BY <2>2, <2>10, <2>11
  <1> QED
    BY <1>6, <1>7, <1>11, <1>12, <1>8 DEF WorkerStep

LEMMA NextOwned ==
  ASSUME Recoverers = {}, IInv, Owned, [Next]_vars
  PROVE  Owned'
  <1>1. CASE UNCHANGED vars
    BY <1>1 DEF vars, Owned, SingleExecutor, Executes, Intended
  <1>2. CASE MissionToggles \/ \E e \in ClaimIds : Expire(e)
    <2>1. /\ task' = task /\ pc' = pc /\ cur' = cur /\ snap' = snap
          /\ cols' = cols /\ verdict' = verdict
      BY <1>2 DEF MissionToggles, Expire, workVars
    <2>2. \A v \in Workers : Intended(v)'
      BY <2>1 DEF Owned, Intended
    <2> QED
      BY <2>1, <2>2, QuietStepsOwned DEF Owned
  <1>3. CASE \E w \in Workers : WorkerStep(w) \/ HeartbeatStep(w) \/ ShutdownStep(w) \/ Crash(w)
    <2>1. CASE Next
      BY <1>3, <2>1, WorkerStepsOwned
    <2> QED
      BY <1>1, <2>1
  <1> QED
    BY <1>1, <1>2, <1>3 DEF Next

\* The steps that change tasks, seen through the one row they change.
RowChanges ==
  \/ task' = task
  \/ \E w \in Workers, t \in Tasks : ClaimTask(w, t)
  \/ \E w \in Workers : RunSettles(w) \/ CompleteWrites(w) \/ FailWrites(w)
  \/ \E r \in Recoverers : RecoverRequeues(r)

LEMMA OnlyRowSteps ==
  ASSUME [Next]_vars
  PROVE  RowChanges
  <1>1. ASSUME NEW w \in Workers,
               WorkerStep(w) \/ HeartbeatStep(w) \/ ShutdownStep(w) \/ Crash(w)
        PROVE  RowChanges
    BY <1>1 DEF RowChanges, WorkerStep, HeartbeatStep, ShutdownStep, Crash, Register, Poll,
       LoseCandidate, RunReturns, RunEnds, Verify, Rereads, ExecutionRaises, StillOwner,
       LostOwnership, CompleteReads, FailReads, FailRaises, EndExecution, Exit, HeartbeatReads,
       HeartbeatWrites, HeartbeatDies, Shutdown, ReleaseLease, MarkStopped, taskVars
  <1>2. ASSUME NEW r \in Recoverers, RecoverStep(r) PROVE RowChanges
    BY <1>2 DEF RowChanges, RecoverStep, RecoverStarts, RecoverGivesUp, RecoverRereads,
       RecoverEnds, RecoverAborts, RecoverSkips, RecoverReads, taskVars
  <1>3. MissionToggles \/ (\E e \in ClaimIds : Expire(e)) \/ UNCHANGED vars => task' = task
    BY DEF MissionToggles, Expire, vars
  <1> QED
    BY <1>1, <1>2, <1>3 DEF Next, RowChanges

\* A failure requeues only while attempts are left, nothing else queues.
LEMMA NextKeepsBudget ==
  ASSUME Recoverers = {}, IInv, Owned, RetryBudget, [Next]_vars
  PROVE  RetryBudget'
  <1>1. task \in [Tasks -> TaskRow] /\ verdict \in [Workers -> BOOLEAN]
    BY DEF IInv, TypeOK
  <1>2. ASSUME NEW t \in Tasks, NEW row, task' = [task EXCEPT ![t] = row],
               row.status = "QUEUED" => row.attempts < MaxAttempts
        PROVE  RetryBudget'
    BY <1>1, <1>2 DEF RetryBudget
  <1>3. ASSUME NEW w \in Workers, NEW t \in Tasks, ClaimTask(w, t) PROVE RetryBudget'
    BY <1>2, <1>3 DEF ClaimTask, ClaimedRow
  <1>4. ASSUME NEW w \in Workers, RunSettles(w) \/ CompleteWrites(w) \/ FailWrites(w)
        PROVE  RetryBudget'
    <2> DEFINE t == claims[cur[w]].task
    <2>1. /\ t \in Tasks /\ task[t] \in TaskRow
          /\ \E row \in {SettledRow(task[t], Target(verdict[w])), CompletedRow(task[t]),
                          AfterFailure(task[t])} : task' = [task EXCEPT ![t] = row]
      BY <1>4, OwnedRowWritten
    <2>2. task[t].status # "QUEUED"
      <3>1. pc[w] \in Executing
        BY <1>4 DEF RunSettles, CompleteWrites, FailWrites, Executing
      <3> QED
        BY <3>1 DEF Owned
    <2>3. /\ SettledRow(task[t], Target(verdict[w])).status # "QUEUED"
          /\ CompletedRow(task[t]).status # "QUEUED"
      BY <2>1, <2>2 DEF SettledRow, CompletedRow, Target, TaskRow
    <2>4. AfterFailure(task[t]).status = "QUEUED" => AfterFailure(task[t]).attempts < MaxAttempts
      BY <2>1, <2>2, RequeuedWithinBudget
    <2> QED
      BY <1>2, <2>1, <2>3, <2>4
  <1>5. task' = task => RetryBudget'
    BY DEF RetryBudget
  <1> QED
    BY <1>3, <1>4, <1>5, OnlyRowSteps DEF RowChanges

\* Without recovery passes every behaviour keeps Owned and the retry budget.
THEOREM OwnershipInvariance ==
  ASSUME Recoverers = {}
  PROVE  Spec => [](IInv /\ Owned /\ RetryBudget)
  <1>1. Init => Owned /\ RetryBudget
    BY CoordinatorAssumption
    DEF Init, PoolInit, Owned, SingleExecutor, Executes, Executing, Transacting, Writing,
        Intended, RetryBudget
  <1>2. IInv /\ Owned /\ RetryBudget /\ [Next]_vars => Owned' /\ RetryBudget'
    BY NextOwned, NextKeepsBudget
  <1> QED
    BY <1>1, <1>2, InitTyped, NextTyped, PTL DEF Spec

\* Without recovery passes no failure queues a task whose attempts are used
\* up, whatever the number of workers and wherever they crash.
THEOREM BudgetKept ==
  ASSUME Recoverers = {}
  PROVE  Spec => []RetryBudget
  BY OwnershipInvariance, PTL

\* No two workers ever work on the same task, whatever the number of workers,
\* tasks and attempts and wherever processes crash or shut down.
THEOREM Exclusive ==
  ASSUME Recoverers = {}
  PROVE  Spec => []SingleExecutor
  BY OwnershipInvariance, PTL DEF Owned

------------------------------------------------------------------------------
(* The pool implements the abstract ownership promise.                     *)

\* A worker that executes a task is its only owner.
LEMMA SoleOwner ==
  ASSUME IInv, Owned, NEW w \in Workers, pc[w] \in Executing
  PROVE  /\ claims[cur[w]].task \in Tasks
         /\ Owners[claims[cur[w]].task] = {w}
  <1>1. claims[cur[w]].task \in Tasks
    BY ClaimTyped DEF IInv, Linked
  <1> QED
    BY <1>1 DEF Owners, Owned, SingleExecutor, Executes

\* A step of w that claims nothing either leaves the owners as they are or
\* ends w's ownership of the one task it executed.
LEMMA OwnersAfter ==
  ASSUME IInv, Owned, [Next]_vars, NEW w \in Workers,
         \A v \in Workers \ {w} : pc'[v] = pc[v] /\ cur'[v] = cur[v],
         pc'[w] \in Executing => pc[w] \in Executing /\ cur'[w] = cur[w]
  PROVE  \/ /\ Owners' = Owners
            /\ pc'[w] \in Executing <=> pc[w] \in Executing
         \/ /\ pc[w] \in Executing /\ pc'[w] \notin Executing
            /\ Owners' = [Owners EXCEPT ![claims[cur[w]].task] = {}]
  <1>1. \A v \in Workers : pc[v] \in Executing /\ cur'[v] = cur[v] =>
          claims'[cur'[v]].task = claims[cur[v]].task
    BY ClaimsStayFixed DEF IInv, Linked, ClaimsFixed
  <1>2. \A v \in Workers \ {w} : \A t \in Tasks : Executes(v, t)' <=> Executes(v, t)
    BY <1>1 DEF Executes
  <1>3. CASE pc'[w] \in Executing <=> pc[w] \in Executing
    <2>1. \A t \in Tasks : Executes(w, t)' <=> Executes(w, t)
      BY <1>1, <1>3 DEF Executes
    <2>2. \A t \in Tasks : \A v \in Workers : Executes(v, t)' <=> Executes(v, t)
      BY <1>2, <2>1
    <2> QED
      BY <1>3, <2>2 DEF Owners
  <1>4. CASE pc[w] \in Executing /\ pc'[w] \notin Executing
    <2> DEFINE u == claims[cur[w]].task
    <2>1. u \in Tasks /\ \A v \in Workers : Executes(v, u) => v = w
      <3>1. u \in Tasks /\ Owners[u] = {w}
        BY <1>4, SoleOwner
      <3>2. Owners[u] = {v \in Workers : Executes(v, u)}
        BY <3>1 DEF Owners
      <3> QED
        BY <3>1, <3>2
    <2>2. \A t \in Tasks : ~Executes(w, t)'
      BY <1>4 DEF Executes
    <2>3. \A t \in Tasks \ {u} : ~Executes(w, t)
      BY DEF Executes
    <2>4. \A t \in Tasks : {v \in Workers : Executes(v, t)'} =
            IF t = u THEN {} ELSE {v \in Workers : Executes(v, t)}
      BY <1>2, <2>1, <2>2, <2>3
    <2>5. Owners' = [t \in Tasks |-> IF t = u THEN {} ELSE Owners[t]]
      BY <2>4 DEF Owners
    <2> QED
      BY <1>4, <2>1, <2>5 DEF Owners
  <1> QED
    BY <1>3, <1>4

\* A step of w that changes no task row and claims nothing.
LEMMA QuietStepKeepsPromise ==
  ASSUME IInv, Owned, [Next]_vars, NEW w \in Workers, task' = task,
         \A v \in Workers \ {w} : pc'[v] = pc[v] /\ cur'[v] = cur[v],
         pc'[w] \in Executing => pc[w] \in Executing /\ cur'[w] = cur[w]
  PROVE  [Promise!Next]_Promise!vars
  <1>1. CASE Owners' = Owners
    BY <1>1 DEF Promise!vars
  <1>2. CASE /\ pc[w] \in Executing
             /\ Owners' = [Owners EXCEPT ![claims[cur[w]].task] = {}]
    <2> DEFINE u == claims[cur[w]].task
    <2>1. u \in Tasks /\ Owners[u] = {w}
      BY <1>2, SoleOwner
    <2>2. task[u].status \in Promise!Outcomes(task[u])
      BY DEF Promise!Outcomes
    <2>3. task' = [task EXCEPT ![u].status = task[u].status]
      BY <2>1 DEF IInv, TypeOK, TaskRow
    <2>4. Promise!Release(w, u)
      BY <1>2, <2>1, <2>2, <2>3 DEF Promise!Release
    <2> QED
      BY <2>1, <2>4 DEF Promise!Next
  <1> QED
    BY <1>1, <1>2, OwnersAfter

LEMMA ClaimKeepsPromise ==
  ASSUME IInv, Owned, RetryBudget, Next, NEW w \in Workers, NEW t \in Tasks, ClaimTask(w, t)
  PROVE  Promise!Acquire(w, t)
  <1> USE DEF IInv
  <1>1. /\ pc[w] = "claim" /\ pc' = [pc EXCEPT ![w] = "run"]
        /\ cur' = [cur EXCEPT ![w] = Len(claims) + 1]
        /\ task[t].status = "QUEUED" /\ task' = [task EXCEPT ![t] = ClaimedRow(task[t])]
    BY DEF ClaimTask, Claimable, Goto
  <1>2. pc \in [Workers -> Locations] /\ cur \in [Workers -> 0..Len(claims)]
    BY DEF TypeOK
  <1>3. claims'[cur'[w]].task = t
    BY <1>1, <1>2, ClaimAppended, LenProperties DEF ClaimTask, TypeOK
  <1>4. \A v \in Workers : pc[v] \in Executing /\ cur'[v] = cur[v] =>
          claims'[cur'[v]].task = claims[cur[v]].task
    BY ClaimsStayFixed DEF Linked, ClaimsFixed
  <1>5. \A v \in Workers \ {w} : \A u \in Tasks : Executes(v, u)' <=> Executes(v, u)
    BY <1>1, <1>2, <1>4 DEF Executes
  <1>6. \A u \in Tasks : ~Executes(w, u) /\ (Executes(w, u)' <=> u = t)
    BY <1>1, <1>2, <1>3 DEF Executes, Executing
  <1>7. \A v \in Workers : ~Executes(v, t)
    BY <1>1 DEF Owned, Executes
  <1>8. \A u \in Tasks : {v \in Workers : Executes(v, u)'} =
          IF u = t THEN {w} ELSE {v \in Workers : Executes(v, u)}
    BY <1>5, <1>6, <1>7
  <1>9. Owners' = [u \in Tasks |-> IF u = t THEN {w} ELSE Owners[u]]
    BY <1>8 DEF Owners
  <1>10. Owners' = [Owners EXCEPT ![t] = {w}] /\ Owners[t] = {}
    BY <1>7, <1>9 DEF Owners
  <1>11. task[t].attempts < MaxAttempts
    BY <1>1 DEF RetryBudget
  <1> QED
    BY <1>1, <1>10, <1>11 DEF Promise!Acquire, ClaimedRow

LEMMA RowStepKeepsPromise ==
  ASSUME IInv, Owned, Next, NEW w \in Workers,
         RunSettles(w) \/ CompleteWrites(w) \/ FailWrites(w)
  PROVE  [Promise!Next]_Promise!vars
  <1> USE DEF IInv
  <1> DEFINE u == claims[cur[w]].task
  <1>1. /\ pc[w] \in Executing
        /\ cur' = cur
        /\ \A v \in Workers \ {w} : pc'[v] = pc[v]
    BY DEF RunSettles, CompleteWrites, FailWrites, Goto, Executing, TypeOK
  <1>2. u \in Tasks /\ Owners[u] = {w}
    BY <1>1, SoleOwner
  <1>3. task[u] \in TaskRow /\ task[u].status \in {"RUNNING", "SUCCEEDED", "FAILED"}
    BY <1>1, <1>2 DEF Owned, TypeOK
  <1>4. CASE RunSettles(w)
    <2>1. pc'[w] \in Executing
      BY <1>4 DEF RunSettles, Goto, TypeOK, Executing
    <2>2. Owners' = Owners
      BY <1>1, <2>1, OwnersAfter
    <2>3. \/ task' = task
          \/ /\ task[u].status = "RUNNING"
             /\ \E s \in {"SUCCEEDED", "FAILED"} : task' = [task EXCEPT ![u].status = s]
      <3> DEFINE s == Target(verdict[w])
      <3>1. task' = [task EXCEPT ![u] = SettledRow(task[u], s)]
        BY <1>4, OwnedRowWritten
      <3>2. s \in {"SUCCEEDED", "FAILED"}
        BY DEF Target
      <3> HIDE DEF u, s
      <3>3. CASE ~CanSettle(task[u].status, s) \/ task[u].status = s
        <4>1. SettledRow(task[u], s) = task[u]
          BY <1>3, <3>3 DEF SettledRow, TaskRow
        <4> QED
          BY <1>2, <3>1, <4>1 DEF TypeOK
      <3>4. CASE CanSettle(task[u].status, s) /\ task[u].status # s
        <4>1. task[u].status = "RUNNING"
          BY <1>3, <3>2, <3>4 DEF CanSettle, TaskCanMove, TaskTransitions
        <4>2. task' = [task EXCEPT ![u].status = s]
          BY <3>1, <3>4 DEF SettledRow
        <4> QED
          BY <3>2, <4>1, <4>2
      <3> QED
        BY <3>3, <3>4
    <2> QED
      BY <1>2, <2>2, <2>3 DEF Promise!Next, Promise!Report, Promise!vars
  <1>5. CASE CompleteWrites(w) \/ FailWrites(w)
    <2>1. pc'[w] \notin Executing
      BY <1>5 DEF CompleteWrites, FailWrites, Goto, TypeOK, Executing
    <2>2. Owners' = [Owners EXCEPT ![u] = {}]
      BY <1>1, <2>1, OwnersAfter
    <2>3. /\ CompleteWrites(w) => /\ task[u].status = "RUNNING"
                                  /\ task' = [task EXCEPT ![u] = CompletedRow(task[u])]
          /\ FailWrites(w) => task' = [task EXCEPT ![u] = AfterFailure(task[u])]
      BY OwnedRowWritten
    <2> HIDE DEF u
    <2>4. \E s \in Promise!Outcomes(task[u]) : task' = [task EXCEPT ![u].status = s]
      <3>1. CASE CompleteWrites(w)
        BY <2>3, <3>1 DEF Promise!Outcomes, CompletedRow
      <3>2. CASE FailWrites(w)
        <4>1. AfterFailure(task[u]).status \in Promise!Outcomes(task[u])
          BY <1>3, CoordinatorAssumption
          DEF AfterFailure, Promise!Outcomes, TaskRow, TaskCanMove, TaskTransitions
        <4>2. AfterFailure(task[u]) = [task[u] EXCEPT !.status = AfterFailure(task[u]).status]
          BY <1>3 DEF AfterFailure, TaskRow
        <4>3. task' = [task EXCEPT ![u].status = AfterFailure(task[u]).status]
          BY <2>3, <3>2, <4>2
        <4> QED
          BY <4>1, <4>3
      <3> QED
        BY <1>5, <3>1, <3>2
    <2>5. Promise!Release(w, u)
      BY <1>2, <2>2, <2>4 DEF Promise!Release
    <2> QED
      BY <1>2, <2>5 DEF Promise!Next
  <1> QED
    BY <1>4, <1>5

LEMMA StepKeepsPromise ==
  ASSUME Recoverers = {}, IInv, Owned, RetryBudget, [Next]_vars
  PROVE  [Promise!Next]_Promise!vars
  <1>1. CASE UNCHANGED vars
    BY <1>1 DEF vars, Promise!vars, Owners, Executes
  <1>2. CASE Next
    <2>1. ASSUME MissionToggles \/ \E e \in ClaimIds : Expire(e)
          PROVE  [Promise!Next]_Promise!vars
      <3>1. task' = task /\ pc' = pc /\ cur' = cur
        BY <2>1 DEF MissionToggles, Expire, workVars
      <3>2. \A v \in Workers : pc[v] \in Executing =>
              claims'[cur'[v]].task = claims[cur[v]].task
        BY <3>1, ClaimsStayFixed DEF IInv, Linked, ClaimsFixed
      <3>3. \A v \in Workers : \A t \in Tasks : Executes(v, t)' <=> Executes(v, t)
        BY <3>1, <3>2 DEF Executes
      <3> QED
        BY <3>1, <3>3 DEF Owners, Promise!vars
    <2>2. ASSUME NEW w \in Workers,
                 WorkerStep(w) \/ HeartbeatStep(w) \/ ShutdownStep(w) \/ Crash(w)
          PROVE  [Promise!Next]_Promise!vars
      <3>1. pc \in [Workers -> Locations] /\ cur \in [Workers -> 0..Len(claims)]
        BY DEF IInv, TypeOK
      <3>2. CASE \E t \in Tasks : ClaimTask(w, t)
        BY <1>2, <3>2, ClaimKeepsPromise DEF Promise!Next
      <3>3. CASE RunSettles(w) \/ CompleteWrites(w) \/ FailWrites(w)
        BY <1>2, <3>3, RowStepKeepsPromise
      <3>4. CASE \/ Register(w) \/ Poll(w) \/ \E t \in Tasks : LoseCandidate(w, t)
                 \/ RunReturns(w) \/ ExecutionRaises(w) \/ StillOwner(w) \/ LostOwnership(w)
                 \/ FailRaises(w) \/ EndExecution(w) \/ Exit(w) \/ Crash(w)
                 \/ HeartbeatStep(w) \/ ShutdownStep(w)
                 \/ \E ok \in BOOLEAN : RunEnds(w, ok) \/ Verify(w, ok)
                 \/ Rereads(w) \/ CompleteReads(w) \/ FailReads(w)
        <4>1. /\ task' = task
              /\ \A v \in Workers \ {w} : pc'[v] = pc[v] /\ cur'[v] = cur[v]
              /\ pc'[w] \in Executing => pc[w] \in Executing /\ cur'[w] = cur[w]
          BY <3>1, <3>4
          DEF Register, Poll, LoseCandidate, RunReturns, ExecutionRaises, StillOwner,
              LostOwnership, FailRaises, EndExecution, Exit, Crash, HeartbeatStep,
              HeartbeatReads, HeartbeatWrites, HeartbeatDies, ShutdownStep, Shutdown,
              ReleaseLease, MarkStopped, RunEnds, Verify, Rereads, SelectAgain, CompleteReads,
              FailReads, ReadTask, Goto, Executing, Failing, taskVars, workVars
        <4> QED
          BY <4>1, QuietStepKeepsPromise
      <3> QED
        BY <2>2, <3>2, <3>3, <3>4 DEF WorkerStep
    <2> QED
      BY <1>2, <2>1, <2>2 DEF Next
  <1> QED
    BY <1>1, <1>2

\* The worker pool implements TaskOwnership: however its processes interleave,
\* crash and shut down, tasks change hands only as that specification allows.
THEOREM PromiseKept ==
  ASSUME Recoverers = {}
  PROVE  Spec => KeepsPromise
  <1>1. Init => Promise!Init
    BY CoordinatorAssumption DEF Init, PoolInit, Promise!Init, Owners, Executes, Executing
  <1>2. IInv /\ Owned /\ RetryBudget /\ [Next]_vars => [Promise!Next]_Promise!vars
    BY StepKeepsPromise
  <1> QED
    BY <1>1, <1>2, OwnershipInvariance, PTL DEF Spec, KeepsPromise, Promise!Spec

\* A task that has SUCCEEDED stays SUCCEEDED: no completion, failure or claim
\* of any worker overwrites the row.
THEOREM SuccessKept ==
  ASSUME Recoverers = {}
  PROVE  Spec => SuccessIsFinal
  <1> DEFINE SuccessStays ==
        \A t \in Tasks : task[t].status = "SUCCEEDED" => task'[t].status = "SUCCEEDED"
  <1>1. ASSUME IInv, [Promise!Next]_Promise!vars
        PROVE  SuccessStays
    <2>1. task \in [Tasks -> TaskRow]
      BY <1>1 DEF IInv, TypeOK
    <2>2. ASSUME NEW u \in Tasks, task[u].status # "SUCCEEDED",
                 \E row : task' = [task EXCEPT ![u] = row]
          PROVE  SuccessStays
      BY <2>1, <2>2
    <2>3. CASE UNCHANGED Promise!vars
      BY <2>3 DEF Promise!vars
    <2>4. CASE Promise!Schedule
      BY <2>4 DEF Promise!Schedule, Promise!Waiting
    <2>5. ASSUME NEW u \in Tasks, NEW w \in Workers, Promise!Acquire(w, u) PROVE SuccessStays
      BY <2>2, <2>5 DEF Promise!Acquire
    <2>6. ASSUME NEW u \in Tasks, NEW w \in Workers, Promise!Report(w, u) PROVE SuccessStays
      BY <2>2, <2>6 DEF Promise!Report
    <2>7. ASSUME NEW u \in Tasks, NEW w \in Workers, Promise!Release(w, u) PROVE SuccessStays
      <3>1. PICK s \in Promise!Outcomes(task[u]) : task' = [task EXCEPT ![u].status = s]
        BY <2>7 DEF Promise!Release
      <3>2. task[u].status = "SUCCEEDED" => s = "SUCCEEDED"
        BY <3>1 DEF Promise!Outcomes
      <3> QED
        BY <2>1, <3>1, <3>2 DEF TaskRow
    <2> QED
      BY <1>1, <2>3, <2>4, <2>5, <2>6, <2>7 DEF Promise!Next
  <1>2. IInv /\ Owned /\ RetryBudget /\ [Next]_vars => [SuccessStays]_vars
    BY <1>1, StepKeepsPromise
  <1> QED
    BY <1>2, OwnershipInvariance, PTL DEF Spec, SuccessIsFinal

------------------------------------------------------------------------------
(* What the rows say of the past: no settled claim leaves its task         *)
(* RUNNING, with recovery passes too, and, where nobody calls              *)
(* recover_stale, attempts, executions and tasks agree with each other.    *)

\* Only a claim makes a row RUNNING: no other transaction wants that, and the
\* UPDATE of a transaction that wants a RUNNING row settled sets its status.
LEMMA RowsSettled ==
  ASSUME NEW row \in TaskRow
  PROVE  /\ \A ok \in BOOLEAN : SettledRow(row, Target(ok)).status # "RUNNING"
         /\ CompletedRow(row).status # "RUNNING"
         /\ AfterFailure(row).status # "RUNNING"
         /\ RequeuedRow(row).status # "RUNNING"
  BY CoordinatorAssumption
  DEF TaskRow, TaskStatus, SettledRow, CanSettle, Target, CompletedRow, AfterFailure, RequeuedRow,
      TaskCanMove, TaskTransitions

LEMMA RunningIsSet ==
  ASSUME NEW row \in TaskRow, NEW found \in TaskRow, found.status = "RUNNING"
  PROVE  /\ "status" \in Differing(CompletedRow(row), found)
         /\ row.status = "RUNNING" => "status" \in FailedColumns(row, found)
  <1>1. /\ CompletedRow(row).status # "RUNNING"
        /\ AfterFailure(row).status # "RUNNING"
    BY RowsSettled
  <1>2. \A new : new.status # "RUNNING" => "status" \in Differing(new, found)
    BY DEF Differing
  <1>3. row.status = "RUNNING" => AfterFailure(row) # row
    BY <1>1
  <1> QED
    BY <1>1, <1>2, <1>3 DEF FailedColumns, Columns

\* The claims written by a step, seen through the field left.
LeftChanges ==
  \A e \in ClaimIds :
    \/ claims'[e].left = claims[e].left
    \/ claims'[e].left # "settled"
    \/ \E w \in Workers : (CompleteWrites(w) \/ FailWrites(w)) /\ e = cur[w]

\* How worker w comes to stand before or within the UPDATE of a failure, or
\* within that of a completion: it was there, it has just read the task, or its
\* second SELECT has just found it.
Prepared(w) ==
  LET row == task[claims[cur[w]].task]
  IN /\ cur'[w] = cur[w] /\ pc[w] \in Executing
     /\ \/ pc'[w] = pc[w] /\ snap'[w] = snap[w] /\ cols'[w] = cols[w]
        \/ pc'[w] = "fUpdate" /\ snap'[w] = row
        \/ /\ pc[w] = "fUpdate" /\ pc'[w] = "fWrite"
           /\ snap'[w] = snap[w] /\ cols'[w] = FailedColumns(snap[w], row)
        \/ pc'[w] = "cWrite" /\ cols'[w] = Differing(CompletedRow(snap[w]), row)

\* A step that claims nothing makes no row RUNNING.
NothingStarts ==
  /\ \A t \in Tasks : task'[t].status = "RUNNING" => task[t].status = "RUNNING"
  /\ \A w \in Workers : pc'[w] \in {"fUpdate", "fWrite", "cWrite"} => Prepared(w)

\* A worker that is about to fail or complete its newest claim knows that the
\* task is RUNNING if it is, and its UPDATE is going to set the status.
SettlingInformed ==
  \A w \in Workers :
    Newest(cur[w]) /\ task[claims[cur[w]].task].status = "RUNNING" =>
      /\ pc[w] = "fUpdate" => snap[w].status = "RUNNING"
      /\ pc[w] \in {"fWrite", "cWrite"} => "status" \in cols[w]

LEMMA LeftOnlySettled ==
  ASSUME IInv, [Next]_vars, ~\E w \in Workers, t \in Tasks : ClaimTask(w, t)
  PROVE  LeftChanges
  <1> USE DEF IInv
  <1>1. claims \in Seq(Claim) /\ \A e \in ClaimIds : claims[e] \in Claim
    BY ClaimTyped DEF TypeOK
  <1>2. ASSUME NEW i \in ClaimIds, NEW c \in Claim, claims' = [claims EXCEPT ![i] = c],
               \/ c.left = claims[i].left \/ c.left # "settled"
               \/ \E w \in Workers : (CompleteWrites(w) \/ FailWrites(w)) /\ i = cur[w]
        PROVE  LeftChanges
    BY <1>1, <1>2, ClaimWritten DEF LeftChanges, ClaimIds
  <1>3. ASSUME claims' = claims PROVE LeftChanges
    BY <1>3 DEF LeftChanges
  <1>4. ASSUME NEW w \in Workers,
               \/ LostOwnership(w) \/ FailRaises(w) \/ HeartbeatWrites(w)
               \/ RunSettles(w) \/ CompleteWrites(w) \/ FailWrites(w)
        PROVE  LeftChanges
    <2>1. cur[w] \in ClaimIds /\ claims[cur[w]] \in Claim
      BY <1>1, <1>4
      DEF LostOwnership, FailRaises, HeartbeatWrites, RunSettles, CompleteWrites, FailWrites,
          Linked, Executing, Failing
    <2>2. CASE LostOwnership(w) \/ FailRaises(w)
      <3>1. PICK c \in {[claims[cur[w]] EXCEPT !.left = "stale"],
                        [claims[cur[w]] EXCEPT !.left = "raised"]} :
              claims' = [claims EXCEPT ![cur[w]] = c]
        BY <2>2 DEF LostOwnership, FailRaises
      <3>2. c \in Claim /\ c.left # "settled"
        BY <2>1, <3>1 DEF Claim
      <3> QED
        BY <1>2, <2>1, <3>1, <3>2
    <2>3. CASE HeartbeatWrites(w) \/ RunSettles(w)
      <3>1. PICK c \in {[claims[cur[w]] EXCEPT !.live = TRUE],
                        [claims[cur[w]] EXCEPT !.status = Target(verdict[w])]} :
              claims' = [claims EXCEPT ![cur[w]] = c]
        BY <2>3 DEF HeartbeatWrites, RunSettles
      <3>2. c \in Claim /\ c.left = claims[cur[w]].left
        BY <2>1, <3>1 DEF Claim, Target, ExecutionStatus
      <3> QED
        BY <1>2, <2>1, <3>1, <3>2
    <2>4. CASE CompleteWrites(w) \/ FailWrites(w)
      <3>1. PICK c \in {CompletedClaim(claims[cur[w]]), FailedClaim(claims[cur[w]])} :
              claims' = [claims EXCEPT ![cur[w]] = c]
        BY <2>4 DEF CompleteWrites, FailWrites
      <3>2. c \in Claim
        BY <2>1, <3>1 DEF Claim, CompletedClaim, FailedClaim, ExecutionStatus
      <3> QED
        BY <1>2, <2>1, <2>4, <3>1, <3>2
    <2> QED
      BY <1>4, <2>2, <2>3, <2>4
  <1>5. ASSUME NEW i \in ClaimIds, claims' = [claims EXCEPT ![i].live = FALSE]
        PROVE  LeftChanges
    <2>1. [claims[i] EXCEPT !.live = FALSE] \in Claim
      BY <1>1 DEF Claim
    <2> QED
      BY <1>1, <1>2, <1>5, <2>1 DEF Claim
  <1>6. ASSUME NEW w \in Workers, ReleaseLease(w) PROVE LeftChanges
    <2>1. cur[w] = 0 \/ cur[w] \in ClaimIds
      BY DEF TypeOK, ClaimIds
    <2> QED
      BY <1>3, <1>5, <1>6, <2>1 DEF ReleaseLease
  <1>7. ASSUME NEW r \in Recoverers, RecoverStep(r) PROVE LeftChanges
    <2>1. claims' = claims \/ \E E : FailExecutions(E)
      BY <1>7 DEF RecoverStep, RecoverStarts, RecoverGivesUp, RecoverRereads, RecoverEnds,
         RecoverAborts, RecoverSkips, RecoverReads, RecoverRequeues, taskVars
    <2>2. ASSUME NEW E, FailExecutions(E) PROVE LeftChanges
      BY <1>1, <2>2 DEF FailExecutions, LeftChanges, Claim
    <2> QED
      BY <1>3, <2>1, <2>2
  <1>8. CASE MissionToggles \/ UNCHANGED vars
    BY <1>3, <1>8 DEF MissionToggles, vars
  <1>9. CASE \E e \in ClaimIds : Expire(e)
    BY <1>5, <1>9 DEF Expire
  <1>10. ASSUME NEW w \in Workers,
                WorkerStep(w) \/ HeartbeatStep(w) \/ ShutdownStep(w) \/ Crash(w)
         PROVE  LeftChanges
    <2>1. \/ claims' = claims
          \/ LostOwnership(w) \/ FailRaises(w) \/ HeartbeatWrites(w) \/ ReleaseLease(w)
          \/ RunSettles(w) \/ CompleteWrites(w) \/ FailWrites(w)
          \/ \E t \in Tasks : ClaimTask(w, t)
      BY <1>10 DEF WorkerStep, HeartbeatStep, ShutdownStep, Crash, Register, Poll,
         LoseCandidate, RunReturns, RunEnds, Verify, Rereads, ExecutionRaises, StillOwner,
         CompleteReads, FailReads, EndExecution, Exit, HeartbeatReads, HeartbeatDies,
         Shutdown, MarkStopped, taskVars
    <2> QED
      BY <1>3, <1>4, <1>6, <2>1
  <1> QED
    BY <1>7, <1>8, <1>9, <1>10 DEF Next

\* Every step that claims nothing only takes tasks out of RUNNING.
LEMMA NothingElseStarts ==
  ASSUME IInv, [Next]_vars, ~\E w \in Workers, t \in Tasks : ClaimTask(w, t)
  PROVE  NothingStarts
  <1> USE DEF IInv
  <1>1. /\ pc \in [Workers -> Locations] /\ snap \in [Workers -> TaskRow]
        /\ task \in [Tasks -> TaskRow] /\ rsnap \in [Recoverers -> TaskRow]
        /\ verdict \in [Workers -> BOOLEAN] /\ cur \in [Workers -> 0..Len(claims)]
        /\ cols \in [Workers -> SUBSET Columns]
    BY DEF TypeOK
  <1> DEFINE Before == {"fUpdate", "fWrite", "cWrite"}
  <1>2. \A w \in Workers : pc[w] \in Before => pc[w] \in Executing
    BY DEF Executing
  <1>3. ASSUME NEW w \in Workers,
               \A v \in Workers \ {w} : /\ pc'[v] = pc[v] /\ cur'[v] = cur[v]
                                       /\ snap'[v] = snap[v] /\ cols'[v] = cols[v],
               pc'[w] \notin Before \/ Prepared(w)
        PROVE  \A v \in Workers : pc'[v] \in Before => Prepared(v)
    <2>1. \A v \in Workers \ {w} : pc'[v] \in Before => Prepared(v)
      BY <1>2, <1>3 DEF Prepared
    <2> QED
      BY <1>3, <2>1
  <1>4. ASSUME NEW t, NEW new \in TaskRow, NEW set, new.status # "RUNNING",
               task' = [task EXCEPT ![t] = Merged(@, new, set)]
        PROVE  \A u \in Tasks : task'[u].status = "RUNNING" => task[u].status = "RUNNING"
    BY <1>1, <1>4 DEF Merged
  <1>5. ASSUME NEW w \in Workers, RunSettles(w) \/ CompleteWrites(w) \/ FailWrites(w)
        PROVE  NothingStarts
    <2>1. PICK new \in TaskRow :
            /\ new.status # "RUNNING"
            /\ task' = [task EXCEPT ![claims[cur[w]].task] = Merged(@, new, cols[w])]
      BY <1>1, <1>5, RowsTyped, RowsSettled DEF RunSettles, CompleteWrites, FailWrites
    <2>2. pc'[w] \notin Before
      BY <1>1, <1>5 DEF RunSettles, CompleteWrites, FailWrites, Goto
    <2>3. \A v \in Workers \ {w} : /\ pc'[v] = pc[v] /\ cur'[v] = cur[v]
                                   /\ snap'[v] = snap[v] /\ cols'[v] = cols[v]
      BY <1>1, <1>5 DEF RunSettles, CompleteWrites, FailWrites, Goto, Close
    <2> QED
      BY <1>3, <1>4, <2>1, <2>2, <2>3 DEF NothingStarts
  <1>6. ASSUME NEW w \in Workers, task' = task,
               \A v \in Workers \ {w} : /\ pc'[v] = pc[v] /\ cur'[v] = cur[v]
                                       /\ snap'[v] = snap[v] /\ cols'[v] = cols[v],
               pc'[w] \notin Before \/ Prepared(w)
        PROVE  NothingStarts
    BY <1>3, <1>6 DEF NothingStarts
  <1>7. ASSUME NEW w \in Workers,
               \/ Register(w) \/ Poll(w) \/ \E t \in Tasks : LoseCandidate(w, t)
               \/ RunReturns(w) \/ \E ok \in BOOLEAN : RunEnds(w, ok) \/ Verify(w, ok)
               \/ Rereads(w) \/ ExecutionRaises(w) \/ StillOwner(w) \/ LostOwnership(w)
               \/ CompleteReads(w) \/ FailReads(w) \/ FailRaises(w) \/ EndExecution(w)
               \/ Exit(w) \/ Crash(w)
        PROVE  NothingStarts
    <2> DEFINE Others == \A v \in Workers \ {w} : /\ pc'[v] = pc[v] /\ cur'[v] = cur[v]
                                                  /\ snap'[v] = snap[v] /\ cols'[v] = cols[v]
    <2>1. ASSUME \/ Register(w) \/ Poll(w) \/ \E t \in Tasks : LoseCandidate(w, t)
                 \/ RunReturns(w) \/ StillOwner(w) \/ LostOwnership(w)
                 \/ EndExecution(w) \/ Exit(w)
          PROVE  task' = task /\ Others /\ pc'[w] \notin Before
      BY <1>1, <2>1 DEF Register, Poll, LoseCandidate, RunReturns, StillOwner,
         LostOwnership, EndExecution, Exit, Goto, taskVars
    <2>2. ASSUME \/ \E ok \in BOOLEAN : RunEnds(w, ok) \/ Verify(w, ok)
                 \/ ExecutionRaises(w) \/ CompleteReads(w) \/ FailRaises(w) \/ Crash(w)
          PROVE  task' = task /\ Others /\ pc'[w] \notin Before
      BY <1>1, <2>2 DEF RunEnds, Verify, ExecutionRaises, CompleteReads, FailRaises, Crash,
         ReadTask, Close, Goto, taskVars
    <2>3. ASSUME FailReads(w)
          PROVE  task' = task /\ Others /\ Prepared(w)
      BY <1>1, <2>3 DEF FailReads, ReadTask, Goto, Prepared, Executing, taskVars
    <2>4. ASSUME Rereads(w)
          PROVE  task' = task /\ Others /\ (pc'[w] \notin Before \/ Prepared(w))
      <3>1. task' = task /\ cur' = cur /\ snap' = snap /\ Others
        BY <1>1, <2>4 DEF Rereads, SelectAgain, Goto, taskVars
      <3> DEFINE row == task[claims[cur[w]].task]
      <3>2. \/ pc'[w] = "sWrite"
            \/ /\ pc[w] = "cUpdate" /\ pc'[w] = "cWrite"
               /\ cols'[w] = Differing(CompletedRow(snap[w]), row)
            \/ /\ pc[w] = "fUpdate" /\ pc'[w] = "fWrite"
               /\ cols'[w] = FailedColumns(snap[w], row)
        BY <1>1, <2>4 DEF Rereads, SelectAgain, Goto
      <3> QED
        BY <3>1, <3>2 DEF Prepared, Executing
    <2> QED
      BY <1>6, <1>7, <2>1, <2>2, <2>3, <2>4
  <1>8. ASSUME UNCHANGED <<pc, cur, snap, cols>>
        PROVE  \A w \in Workers : pc'[w] \in Before => Prepared(w)
    BY <1>2, <1>8 DEF Prepared
  <1>9. ASSUME NEW w \in Workers, HeartbeatStep(w) \/ ShutdownStep(w) PROVE NothingStarts
    BY <1>8, <1>9 DEF NothingStarts, HeartbeatStep, HeartbeatReads, HeartbeatWrites,
       HeartbeatDies, ShutdownStep, Shutdown, ReleaseLease, MarkStopped, taskVars, workVars
  <1>10. ASSUME NEW r \in Recoverers, RecoverStep(r) PROVE NothingStarts
    <2>1. UNCHANGED workVars
      BY <1>10 DEF RecoverStep, RecoverStarts, RecoverGivesUp, RecoverRereads, RecoverEnds,
         RecoverAborts, RecoverSkips, RecoverReads, RecoverRequeues
    <2>2. CASE RecoverRequeues(r)
      <3>1. RequeuedRow(rsnap[r]) \in TaskRow /\ RequeuedRow(rsnap[r]).status # "RUNNING"
        BY <1>1, RowsTyped, RowsSettled
      <3> QED
        BY <1>4, <1>8, <2>1, <2>2, <3>1 DEF RecoverRequeues, NothingStarts, workVars
    <2>3. CASE ~RecoverRequeues(r)
      <3>1. task' = task
        BY <1>10, <2>3 DEF RecoverStep, RecoverStarts, RecoverGivesUp, RecoverRereads,
           RecoverEnds, RecoverAborts, RecoverSkips, RecoverReads, taskVars
      <3> QED
        BY <1>8, <2>1, <3>1 DEF NothingStarts, workVars
    <2> QED
      BY <2>2, <2>3
  <1>11. CASE MissionToggles \/ UNCHANGED vars \/ \E e \in ClaimIds : Expire(e)
    BY <1>8, <1>11 DEF NothingStarts, MissionToggles, vars, Expire, workVars
  <1> QED
    BY <1>5, <1>7, <1>9, <1>10, <1>11 DEF Next, WorkerStep

\* What a settled claim leaves behind: CompleteWrites and FailWrites take the
\* task out of RUNNING if the worker still holds its newest claim.
LEMMA SettlingEnds ==
  ASSUME IInv, SettlingInformed, NEW w \in Workers, Newest(cur[w]),
         CompleteWrites(w) \/ FailWrites(w)
  PROVE  task'[claims[cur[w]].task].status # "RUNNING"
  <1> DEFINE t == claims[cur[w]].task
  <1>1. t \in Tasks /\ task \in [Tasks -> TaskRow] /\ snap[w] \in TaskRow
    BY ClaimTyped DEF IInv, TypeOK, Linked, CompleteWrites, FailWrites, Executing
  <1>2. PICK new \in TaskRow :
          /\ new.status # "RUNNING"
          /\ task' = [task EXCEPT ![t] = Merged(@, new, cols[w])]
    BY <1>1, RowsTyped, RowsSettled DEF CompleteWrites, FailWrites
  <1>3. task[t].status = "RUNNING" => "status" \in cols[w]
    BY DEF SettlingInformed, CompleteWrites, FailWrites
  <1> QED
    BY <1>1, <1>2, <1>3 DEF Merged

\* A claim makes every older claim of its task an old one, and leaves the
\* claims of other tasks as new as they were.
LEMMA ClaimSupersedes ==
  ASSUME IInv, NEW w \in Workers, NEW t \in Tasks, ClaimTask(w, t)
  PROVE  /\ ClaimIds' = ClaimIds \cup {Len(claims) + 1}
         /\ Len(claims) + 1 \notin ClaimIds
         /\ claims'[Len(claims) + 1].task = t
         /\ claims'[Len(claims) + 1].attempt = ClaimedRow(task[t]).attempts
         /\ claims'[Len(claims) + 1].status = "RUNNING"
         /\ claims'[Len(claims) + 1].left = "no"
         /\ \A e \in ClaimIds : claims'[e] = claims[e]
         /\ \A e \in ClaimIds : Newest(e)' <=> Newest(e) /\ claims[e].task # t
  <1> DEFINE c == [task |-> t, worker |-> w, attempt |-> ClaimedRow(task[t]).attempts,
                   status |-> "RUNNING", live |-> TRUE, left |-> "no"]
             new == Len(claims) + 1
  <1>1. claims \in Seq(Claim) /\ Len(claims) \in Nat /\ claims' = Append(claims, c)
    BY LenProperties DEF IInv, TypeOK, ClaimTask
  <1>2. /\ c.task = t /\ c.attempt = ClaimedRow(task[t]).attempts
        /\ c.status = "RUNNING" /\ c.left = "no"
    OBVIOUS
  <1> HIDE DEF c
  <1>3. /\ ClaimIds' = ClaimIds \cup {new} /\ new \notin ClaimIds
        /\ claims'[new] = c
        /\ \A e \in ClaimIds : claims'[e] = claims[e] /\ e < new
    BY <1>1 DEF ClaimIds
  <1> HIDE DEF new
  <1>4. ASSUME NEW e \in ClaimIds
        PROVE  Newest(e)' <=> Newest(e) /\ claims[e].task # t
    <2>1. e \in Int /\ new \in Int /\ ~(new <= e)
      BY <1>1, <1>3 DEF ClaimIds, new
    <2>2. /\ ClaimIds' = ClaimIds \cup {new} /\ claims'[new].task = t
          /\ \A f \in ClaimIds : claims'[f].task = claims[f].task
      BY <1>2, <1>3
    <2>3. Newest(e)' => claims[e].task # t
      BY <2>1, <2>2 DEF Newest
    <2> QED
      BY <2>2, <2>3 DEF Newest
  <1> QED
    BY <1>2, <1>3, <1>4 DEF new

LEMMA NextAbandonsNothing ==
  ASSUME IInv, NoAbandonedRunning, SettlingInformed, [Next]_vars
  PROVE  NoAbandonedRunning' /\ SettlingInformed'
  <1>1. ASSUME NEW w \in Workers, NEW t \in Tasks, ClaimTask(w, t)
        PROVE  NoAbandonedRunning' /\ SettlingInformed'
    <2>1. /\ task' = [task EXCEPT ![t] = ClaimedRow(task[t])]
          /\ pc' = [pc EXCEPT ![w] = "run"] /\ snap' = snap /\ cols' = cols
          /\ \A v \in Workers \ {w} : cur'[v] = cur[v]
          /\ pc \in [Workers -> Locations] /\ task \in [Tasks -> TaskRow]
      BY <1>1 DEF ClaimTask, Goto, IInv, TypeOK
    <2>2. \A e \in ClaimIds : claims[e].task \in Tasks
      BY ClaimTyped DEF IInv
    <2>3. /\ ClaimIds' = ClaimIds \cup {Len(claims) + 1}
          /\ claims'[Len(claims) + 1].left = "no"
          /\ \A e \in ClaimIds : claims'[e] = claims[e]
          /\ \A e \in ClaimIds : Newest(e)' => Newest(e) /\ claims[e].task # t
      BY <1>1, ClaimSupersedes
    <2>4. \A e \in ClaimIds : Newest(e)' =>
            Newest(e) /\ task'[claims'[e].task] = task[claims[e].task]
      BY <2>1, <2>2, <2>3
    <2>5. NoAbandonedRunning'
      BY <2>3, <2>4 DEF NoAbandonedRunning
    <2>6. \A v \in Workers : pc'[v] \in {"fUpdate", "fWrite", "cWrite"} =>
            v # w /\ pc[v] = pc'[v] /\ cur'[v] = cur[v] /\ cur[v] \in ClaimIds
      BY <2>1 DEF IInv, Linked, Executing
    <2>7. SettlingInformed'
      BY <2>1, <2>4, <2>6 DEF SettlingInformed, Newest
    <2> QED
      BY <2>5, <2>7
  <1>2. CASE ~\E w \in Workers, t \in Tasks : ClaimTask(w, t)
    <2>1. /\ ClaimIds' = ClaimIds
          /\ \A e \in ClaimIds : claims'[e].task = claims[e].task
      BY <1>2, ClaimsStayFixed DEF ClaimsFixed, ClaimIds
    <2>2. \A e \in ClaimIds : Newest(e)' <=> Newest(e)
      BY <2>1 DEF Newest
    <2>3. LeftChanges /\ NothingStarts
      BY <1>2, LeftOnlySettled, NothingElseStarts
    <2>4. \A e \in ClaimIds : claims[e].task \in Tasks
      BY ClaimTyped DEF IInv
    <2>5. NoAbandonedRunning'
      <3> SUFFICES ASSUME NEW e \in ClaimIds, Newest(e),
                          task'[claims[e].task].status = "RUNNING",
                          claims'[e].left = "settled"
                   PROVE  FALSE
        BY <2>1, <2>2 DEF NoAbandonedRunning
      <3>1. claims[e].left # "settled"
        BY <2>3, <2>4 DEF NoAbandonedRunning, NothingStarts
      <3>2. PICK w \in Workers : (CompleteWrites(w) \/ FailWrites(w)) /\ e = cur[w]
        BY <2>3, <3>1 DEF LeftChanges
      <3> QED
        BY <3>2, SettlingEnds
    <2>6. \A v \in Workers : pc[v] \in Executing => cur[v] \in ClaimIds
      BY DEF IInv, Linked
    <2>7. SettlingInformed'
      <3> SUFFICES ASSUME NEW w \in Workers, pc'[w] \in {"fUpdate", "fWrite", "cWrite"},
                          Newest(cur[w])', task'[claims'[cur'[w]].task].status = "RUNNING"
                   PROVE  /\ pc'[w] = "fUpdate" => snap'[w].status = "RUNNING"
                          /\ pc'[w] \in {"fWrite", "cWrite"} => "status" \in cols'[w]
        BY DEF SettlingInformed
      <3> DEFINE row == task[claims[cur[w]].task]
      <3>1. Prepared(w)
        BY <2>3 DEF NothingStarts
      <3>2. cur'[w] = cur[w] /\ cur[w] \in ClaimIds
        BY <2>6, <3>1 DEF Prepared
      <3>3. Newest(cur[w]) /\ claims'[cur'[w]].task = claims[cur[w]].task
        BY <2>1, <2>2, <3>2 DEF Newest
      <3>4. row.status = "RUNNING" /\ row \in TaskRow /\ snap[w] \in TaskRow
        BY <2>3, <2>4, <3>2, <3>3 DEF NothingStarts, IInv, TypeOK
      <3> QED
        BY <3>1, <3>3, <3>4, RunningIsSet DEF Prepared, SettlingInformed
    <2> QED
      BY <2>5, <2>7
  <1> QED
    BY <1>1, <1>2

\* A claim that ended through _complete_task or _fail_task never leaves its
\* task RUNNING: not after lost updates, crashes, stale workers or recovery
\* passes, whatever their number.
THEOREM NothingAbandoned == Spec => []NoAbandonedRunning
  <1>1. Init => NoAbandonedRunning /\ SettlingInformed
    BY DEF Init, PoolInit, NoAbandonedRunning, SettlingInformed, ClaimIds
  <1> QED
    BY <1>1, NextAbandonsNothing, Invariance, PTL DEF Spec

------------------------------------------------------------------------------
(* The retry budget, with recovery passes.                                 *)

\* A failing worker whose snapshot asks for nothing sets no column, and a pass
\* requeues only what its snapshot allows.
Justified ==
  /\ \A w \in Workers : pc[w] = "fWrite" /\ AfterFailure(snap[w]) = snap[w] => cols[w] = {}
  /\ \A r \in Recoverers : rpc[r] = "write" => Requeuable(rsnap[r])

LEMMA NextJustified ==
  ASSUME IInv, Justified, [Next]_vars
  PROVE  Justified'
  <1> USE DEF IInv
  <1>1. ASSUME NEW w \in Workers, pc'[w] = "fWrite", AfterFailure(snap'[w]) = snap'[w]
        PROVE  cols'[w] = {}
    <2>1. CASE \E v \in Workers, t \in Tasks : ClaimTask(v, t)
      <3>1. pc[w] = "fWrite" /\ snap' = snap /\ cols' = cols
        BY <1>1, <2>1 DEF ClaimTask, Goto, TypeOK
      <3> QED
        BY <1>1, <3>1 DEF Justified
    <2>2. CASE ~\E v \in Workers, t \in Tasks : ClaimTask(v, t)
      <3>1. Prepared(w)
        BY <1>1, <2>2, NothingElseStarts DEF NothingStarts
      <3> QED
        BY <1>1, <3>1 DEF Prepared, Justified, FailedColumns
    <2> QED
      BY <2>1, <2>2
  <1>2. ASSUME NEW r \in Recoverers, rpc'[r] = "write" PROVE Requeuable(rsnap'[r])
    <2>1. CASE UNCHANGED <<rpc, rsnap>>
      BY <1>2, <2>1 DEF Justified
    <2>2. ASSUME NEW q \in Recoverers, RecoverStep(q) PROVE Requeuable(rsnap'[r])
      <3>1. CASE q = r
        <4>1. RecoverRereads(r) \/ (rpc[r] = "write" /\ rsnap'[r] = rsnap[r])
          BY <1>2, <2>2, <3>1 DEF RecoverStep, RecoverStarts, RecoverSkips, RecoverReads,
             RecoverGivesUp, RecoverRequeues, RecoverEnds, RecoverAborts, NextLease, TypeOK
        <4> QED
          BY <4>1 DEF RecoverRereads, Justified
      <3>2. CASE q # r
        <4>1. rpc'[r] = rpc[r] /\ rsnap'[r] = rsnap[r]
          BY <2>2, <3>2 DEF RecoverStep, RecoverStarts, RecoverSkips, RecoverReads,
             RecoverGivesUp, RecoverRereads, RecoverRequeues, RecoverEnds, RecoverAborts,
             NextLease, TypeOK
        <4> QED
          BY <1>2, <4>1 DEF Justified
      <3> QED
        BY <3>1, <3>2
    <2>3. ASSUME NEW w \in Workers,
                 WorkerStep(w) \/ HeartbeatStep(w) \/ ShutdownStep(w) \/ Crash(w)
          PROVE  UNCHANGED <<rpc, rsnap>>
      BY <2>3 DEF WorkerStep, HeartbeatStep, ShutdownStep, Crash, Register, Poll, ClaimTask,
         LoseCandidate, RunReturns, RunEnds, RunSettles, Verify, Rereads, ExecutionRaises,
         StillOwner, LostOwnership, CompleteReads, CompleteWrites, FailReads, FailWrites,
         FailRaises, EndExecution, Exit, HeartbeatReads, HeartbeatWrites, HeartbeatDies,
         Shutdown, ReleaseLease, MarkStopped, recVars
    <2>4. MissionToggles \/ (\E e \in ClaimIds : Expire(e)) \/ UNCHANGED vars
            => UNCHANGED <<rpc, rsnap>>
      BY DEF MissionToggles, Expire, vars, recVars
    <2> QED
      BY <2>1, <2>2, <2>3, <2>4 DEF Next
  <1> QED
    BY <1>1, <1>2 DEF Justified

\* A transaction other than a claim that takes a row into the queue has set
\* its status; if the row it leaves has no attempt left, it has left the count
\* alone, and its own copy of the row had attempts left.
LEMMA OverrunMerged ==
  ASSUME NEW row \in TaskRow, NEW new \in TaskRow, NEW set,
         row.status # "QUEUED", Merged(row, new, set).status = "QUEUED",
         Merged(row, new, set).attempts >= MaxAttempts, new.attempts < MaxAttempts
  PROVE  new.attempts < row.attempts
  BY CoordinatorAssumption DEF Merged, TaskRow

LEMMA QueuesOnlyOvertaken ==
  ASSUME IInv, Justified, [Next]_vars, NEW t \in Tasks,
         task[t].status # "QUEUED", task'[t].status = "QUEUED", task'[t].attempts >= MaxAttempts
  PROVE  \/ \E r \in Recoverers :
               /\ rpc[r] = "write" /\ rpc'[r] = "scan" /\ claims[rcur[r]].task = t
               /\ rsnap[r].attempts < task[t].attempts
         \/ \E w \in Workers :
               /\ pc[w] = "fWrite" /\ pc'[w] = "end" /\ claims[cur[w]].task = t
               /\ snap[w].attempts < task[t].attempts
  <1> USE DEF IInv
  <1>1. /\ task \in [Tasks -> TaskRow] /\ snap \in [Workers -> TaskRow]
        /\ rsnap \in [Recoverers -> TaskRow] /\ verdict \in [Workers -> BOOLEAN]
        /\ pc \in [Workers -> Locations]
    BY DEF TypeOK
  <1>2. ASSUME NEW w \in Workers, NEW u \in Tasks, ClaimTask(w, u) PROVE FALSE
    BY <1>1, <1>2 DEF ClaimTask, ClaimedRow
  <1>3. ASSUME NEW u, NEW new, NEW set, task' = [task EXCEPT ![u] = Merged(@, new, set)]
        PROVE  /\ u = t /\ task'[t] = Merged(task[t], new, set)
               /\ "status" \in set /\ new.status = "QUEUED"
    BY <1>1, <1>3 DEF Merged
  <1>4. ASSUME NEW w \in Workers, RunSettles(w) \/ CompleteWrites(w) PROVE FALSE
    <2> DEFINE settled == SettledRow(snap[w], Target(verdict[w]))
               completed == CompletedRow(snap[w])
               u == claims[cur[w]].task
    <2>1. settled.status = "QUEUED" =>
            snap[w].status = "QUEUED" /\ ~CanSettle(snap[w].status, Target(verdict[w]))
      BY <1>1 DEF SettledRow, Target, TaskRow
    <2>2. settled.status # "QUEUED"
      BY <2>1 DEF CanSettle
    <2>3. completed.status # "QUEUED"
      BY <1>1 DEF CompletedRow, TaskRow
    <2>4. \/ task' = [task EXCEPT ![u] = Merged(@, settled, cols[w])]
          \/ task' = [task EXCEPT ![u] = Merged(@, completed, cols[w])]
      BY <1>4 DEF RunSettles, CompleteWrites
    <2> HIDE DEF settled, completed, u
    <2> QED
      BY <1>3, <2>2, <2>3, <2>4
  <1>5. ASSUME NEW w \in Workers, FailWrites(w)
        PROVE  /\ pc[w] = "fWrite" /\ pc'[w] = "end" /\ claims[cur[w]].task = t
               /\ snap[w].attempts < task[t].attempts
    <2> DEFINE new == AfterFailure(snap[w])
    <2>1. /\ claims[cur[w]].task = t /\ task'[t] = Merged(task[t], new, cols[w])
          /\ "status" \in cols[w] /\ new.status = "QUEUED"
      BY <1>3, <1>5 DEF FailWrites
    <2>2. snap[w] \in TaskRow /\ new \in TaskRow /\ new # snap[w]
      BY <1>1, <1>5, <2>1, RowsTyped DEF Justified, FailWrites
    <2>3. snap[w].status # "QUEUED" /\ new.attempts = snap[w].attempts
      BY <2>1, <2>2 DEF AfterFailure, TaskRow
    <2>4. new.attempts < MaxAttempts
      BY <2>1, <2>2, <2>3, RequeuedWithinBudget
    <2> HIDE DEF new
    <2>5. snap[w].attempts < task[t].attempts
      BY <1>1, <2>1, <2>2, <2>3, <2>4, OverrunMerged
    <2> QED
      BY <1>1, <1>5, <2>1, <2>5 DEF FailWrites, Goto
  <1>6. ASSUME NEW r \in Recoverers, RecoverRequeues(r)
        PROVE  /\ rpc[r] = "write" /\ rpc'[r] = "scan" /\ claims[rcur[r]].task = t
               /\ rsnap[r].attempts < task[t].attempts
    <2> DEFINE new == RequeuedRow(rsnap[r])
    <2>1. claims[rcur[r]].task = t /\ task'[t] = Merged(task[t], new, rcols[r])
      BY <1>3, <1>6 DEF RecoverRequeues
    <2>2. new \in TaskRow /\ new.attempts = rsnap[r].attempts
      BY <1>1, RowsTyped DEF RequeuedRow, TaskRow
    <2>3. new.attempts < MaxAttempts
      BY <1>6, <2>2 DEF RecoverRequeues, Justified, Requeuable
    <2> HIDE DEF new
    <2>4. rsnap[r].attempts < task[t].attempts
      BY <1>1, <2>1, <2>2, <2>3, OverrunMerged
    <2> QED
      BY <1>1, <1>6, <2>1, <2>4 DEF RecoverRequeues, NextLease, TypeOK
  <1>7. task' # task
    OBVIOUS
  <1> QED
    BY <1>2, <1>4, <1>5, <1>6, <1>7, OnlyRowSteps DEF RowChanges

\* With any number of recovery callers, a task is queued without an attempt left
\* only by an UPDATE of recovery or of _fail_task whose transaction had read the
\* row before its count went up.
THEOREM OverrunsOvertaken == Spec => OverrunOvertaken
  <1>1. Init => Justified
    BY DEF Init, PoolInit, Justified
  <1>2. IInv /\ Justified /\ [Next]_vars => Justified'
    BY NextJustified
  <1> DEFINE Overtaken ==
        \A t \in Tasks :
          /\ task[t].status # "QUEUED" /\ task'[t].status = "QUEUED"
          /\ task'[t].attempts >= MaxAttempts
          => \/ \E r \in Recoverers :
                  /\ rpc[r] = "write" /\ rpc'[r] = "scan" /\ claims[rcur[r]].task = t
                  /\ rsnap[r].attempts < task[t].attempts
             \/ \E w \in Workers :
                  /\ pc[w] = "fWrite" /\ pc'[w] = "end" /\ claims[cur[w]].task = t
                  /\ snap[w].attempts < task[t].attempts
  <1>3. IInv /\ Justified /\ [Next]_vars => [Overtaken]_vars
    BY QueuesOnlyOvertaken
  <1> QED
    BY <1>1, <1>2, <1>3, InitTyped, NextTyped, PTL DEF Spec, OverrunOvertaken

------------------------------------------------------------------------------
(* What attempts, executions and tasks say of each other, in a deployment  *)
(* where nobody calls recover_stale.                                       *)

\* The settling transaction of a runtime.
Settling == {"sUpdate", "sWrite"}

\* A worker executes its own, newest claim of a task, and only a runtime that
\* settles stands at the settling transaction.
Holds ==
  \A w \in Workers :
    /\ pc[w] \in Executing => Newest(cur[w]) /\ claims[cur[w]].worker = w
    /\ pc[w] \in Settling => w \in SettlingRuntimes
    /\ pc[w] \in Executing /\ w \notin SettlingRuntimes =>
         task[claims[cur[w]].task].status = "RUNNING"

\* Every execution of a task in the queue has been closed.
QueuedClosed ==
  \A e \in ClaimIds : task[claims[e].task].status = "QUEUED" => claims[e].status # "RUNNING"

History == Holds /\ AttemptsCounted /\ QueuedClosed /\ SupersededClosed /\ OutcomesAgree

\* A step that claims nothing starts no execution.
StaysExecuting ==
  \A v \in Workers :
    /\ pc'[v] \in Executing => pc[v] \in Executing /\ cur'[v] = cur[v]
    /\ pc'[v] \in Settling /\ pc[v] \notin Settling => v \in SettlingRuntimes

\* It leaves rows and execution statuses alone ...
NothingSettles ==
  task' = task /\ \A e \in ClaimIds : claims'[e].status = claims[e].status

\* ... or it is one worker's, which closes its execution and leaves its task in
\* a status that follows from the row as it is.
Settles(w) ==
  LET t == claims[cur[w]].task
      status == claims'[cur[w]].status
      row == task'[t]
  IN /\ pc[w] \in Executing
     /\ \A e \in ClaimIds \ {cur[w]} : claims'[e].status = claims[e].status
     /\ \A u \in Tasks \ {t} : task'[u] = task[u]
     /\ status \in {"SUCCEEDED", "FAILED"}
     /\ row.attempts = task[t].attempts
     /\ \/ w \in SettlingRuntimes /\ pc'[w] = "own1" /\ row.status # "QUEUED"
        \/ pc'[w] = "end" /\ row.status = "SUCCEEDED" /\ status = "SUCCEEDED"
        \/ pc'[w] = "end" /\ row.status = AfterFailure(task[t]).status /\ status = "FAILED"

LEMMA ExecutionStays ==
  ASSUME Recoverers = {}, IInv, [Next]_vars, ~\E w \in Workers, t \in Tasks : ClaimTask(w, t)
  PROVE  StaysExecuting
  <1>1. pc \in [Workers -> Locations] /\ cur \in [Workers -> 0..Len(claims)]
    BY DEF IInv, TypeOK
  <1>2. ASSUME UNCHANGED <<pc, cur>> PROVE StaysExecuting
    BY <1>2 DEF StaysExecuting
  <1>3. ASSUME NEW w \in Workers, NEW l, pc' = [pc EXCEPT ![w] = l],
               \A v \in Workers \ {w} : cur'[v] = cur[v],
               l \in Executing => pc[w] \in Executing /\ cur' = cur,
               l \in Settling => pc[w] \in Settling \/ w \in SettlingRuntimes
        PROVE  StaysExecuting
    BY <1>1, <1>3 DEF StaysExecuting, Settling
  <1>4. CASE MissionToggles \/ UNCHANGED vars \/ \E e \in ClaimIds : Expire(e)
    BY <1>2, <1>4 DEF MissionToggles, vars, Expire, workVars
  <1>5. ASSUME NEW w \in Workers, HeartbeatStep(w) \/ ShutdownStep(w) PROVE StaysExecuting
    BY <1>2, <1>5 DEF HeartbeatStep, HeartbeatReads, HeartbeatWrites, HeartbeatDies,
       ShutdownStep, Shutdown, ReleaseLease, MarkStopped, workVars
  <1>6. ASSUME NEW w \in Workers, Crash(w) \/ EndExecution(w) PROVE StaysExecuting
    <2>1. /\ \E l \in {"crashed", "idle"} : pc' = [pc EXCEPT ![w] = l]
          /\ cur' = [cur EXCEPT ![w] = 0]
      BY <1>6 DEF Crash, EndExecution, Goto
    <2> QED
      BY <1>1, <1>3, <2>1 DEF Executing, Settling
  <1>7. ASSUME NEW w \in Workers,
               Register(w) \/ Poll(w) \/ (\E t \in Tasks : LoseCandidate(w, t)) \/ Exit(w)
        PROVE  StaysExecuting
    <2>1. cur' = cur /\ \E l \in {"idle", "claim", "exited"} : pc' = [pc EXCEPT ![w] = l]
      BY <1>7 DEF Register, Poll, LoseCandidate, Exit, Goto
    <2> QED
      BY <1>3, <2>1 DEF Executing, Settling
  <1>8. ASSUME NEW w \in Workers,
               \/ RunReturns(w) \/ RunSettles(w) \/ StillOwner(w) \/ LostOwnership(w)
               \/ CompleteReads(w) \/ CompleteWrites(w) \/ FailReads(w) \/ FailWrites(w)
               \/ FailRaises(w)
        PROVE  StaysExecuting
    <2>1. /\ cur' = cur /\ pc[w] \in Executing
          /\ \E l : l \notin Settling /\ pc' = [pc EXCEPT ![w] = l]
      BY <1>8 DEF RunReturns, RunSettles, StillOwner, LostOwnership, CompleteReads,
         CompleteWrites, FailReads, FailWrites, FailRaises, ReadTask, Goto, Executing, Failing,
         Settling
    <2> QED
      BY <1>3, <2>1
  <1>9. ASSUME NEW w \in Workers,
               \/ \E ok \in BOOLEAN : RunEnds(w, ok) \/ Verify(w, ok)
               \/ Rereads(w) \/ ExecutionRaises(w)
        PROVE  StaysExecuting
    <2>1. /\ cur' = cur /\ pc[w] \in Executing
          /\ \E l : /\ l \in Settling => pc[w] \in Settling \/ w \in SettlingRuntimes
                   /\ pc' = [pc EXCEPT ![w] = l]
      BY <1>9 DEF RunEnds, Verify, Rereads, SelectAgain, ExecutionRaises, ReadTask, Goto,
         Executing, Settling
    <2> QED
      BY <1>3, <2>1
  <1> QED
    BY <1>4, <1>5, <1>6, <1>7, <1>8, <1>9 DEF Next, WorkerStep

LEMMA StepSettles ==
  ASSUME Recoverers = {}, IInv, Owned, Holds, [Next]_vars,
         ~\E w \in Workers, t \in Tasks : ClaimTask(w, t)
  PROVE  NothingSettles \/ \E w \in Workers : Settles(w)
  <1> USE DEF IInv
  <1>1. /\ claims \in Seq(Claim) /\ \A e \in ClaimIds : claims[e] \in Claim
        /\ task \in [Tasks -> TaskRow] /\ pc \in [Workers -> Locations]
    BY ClaimTyped DEF TypeOK
  <1>2. ASSUME claims' = claims, task' = task PROVE NothingSettles
    BY <1>2 DEF NothingSettles
  <1>3. ASSUME NEW i \in ClaimIds, NEW c \in Claim, c.status = claims[i].status,
               claims' = [claims EXCEPT ![i] = c], task' = task
        PROVE  NothingSettles
    BY <1>1, <1>3, ClaimWritten DEF NothingSettles, ClaimIds
  <1>4. ASSUME NEW w \in Workers, LostOwnership(w) \/ FailRaises(w) \/ HeartbeatWrites(w)
        PROVE  NothingSettles
    <2>1. cur[w] \in ClaimIds /\ claims[cur[w]] \in Claim
      BY <1>1, <1>4 DEF LostOwnership, FailRaises, HeartbeatWrites, Linked, Executing, Failing
    <2>2. PICK c \in {[claims[cur[w]] EXCEPT !.left = "stale"],
                      [claims[cur[w]] EXCEPT !.left = "raised"],
                      [claims[cur[w]] EXCEPT !.live = TRUE]} :
            claims' = [claims EXCEPT ![cur[w]] = c]
      BY <1>4 DEF LostOwnership, FailRaises, HeartbeatWrites
    <2>3. c \in Claim /\ c.status = claims[cur[w]].status
      BY <2>1, <2>2 DEF Claim
    <2>4. task' = task
      BY <1>4 DEF LostOwnership, FailRaises, HeartbeatWrites
    <2> QED
      BY <1>3, <2>1, <2>2, <2>3, <2>4
  <1>5. ASSUME NEW i \in ClaimIds, claims' = [claims EXCEPT ![i].live = FALSE], task' = task
        PROVE  NothingSettles
    <2>1. [claims[i] EXCEPT !.live = FALSE] \in Claim
      BY <1>1 DEF Claim
    <2> QED
      BY <1>1, <1>3, <1>5, <2>1 DEF Claim
  <1>6. ASSUME NEW w \in Workers, ReleaseLease(w) PROVE NothingSettles
    <2>1. cur[w] = 0 \/ cur[w] \in ClaimIds
      BY DEF TypeOK, ClaimIds
    <2> QED
      BY <1>2, <1>5, <1>6, <2>1 DEF ReleaseLease
  <1>7. CASE MissionToggles \/ UNCHANGED vars \/ \E e \in ClaimIds : Expire(e)
    BY <1>2, <1>5, <1>7 DEF MissionToggles, vars, Expire
  <1>8. ASSUME NEW w \in Workers, RunSettles(w) \/ CompleteWrites(w) \/ FailWrites(w)
        PROVE  Settles(w)
    <2> DEFINE t == claims[cur[w]].task
    <2>1. /\ cur[w] \in ClaimIds /\ claims[cur[w]] \in Claim /\ t \in Tasks
          /\ pc[w] \in Executing /\ task[t] \in TaskRow
      BY <1>1, <1>8, ClaimTyped DEF RunSettles, CompleteWrites, FailWrites, Linked, Executing
    <2>2. \E c \in Claim :
            /\ claims' = [claims EXCEPT ![cur[w]] = c]
            /\ c.status = IF RunSettles(w) THEN Target(verdict[w])
                          ELSE IF CompleteWrites(w) THEN "SUCCEEDED" ELSE "FAILED"
      <3>1. RunSettles(w) => ~CompleteWrites(w)
        BY DEF RunSettles, CompleteWrites
      <3>2. /\ [claims[cur[w]] EXCEPT !.status = Target(verdict[w])] \in Claim
            /\ CompletedClaim(claims[cur[w]]) \in Claim
            /\ FailedClaim(claims[cur[w]]) \in Claim
        BY <2>1 DEF Claim, CompletedClaim, FailedClaim, Target, ExecutionStatus
      <3> QED
        BY <1>8, <2>1, <3>1, <3>2
        DEF RunSettles, CompleteWrites, FailWrites, CompletedClaim, FailedClaim, Claim
    <2>3. /\ \A e \in ClaimIds \ {cur[w]} : claims'[e].status = claims[e].status
          /\ claims'[cur[w]].status = IF RunSettles(w) THEN Target(verdict[w])
                ELSE IF CompleteWrites(w) THEN "SUCCEEDED" ELSE "FAILED"
      BY <1>1, <2>1, <2>2, ClaimWritten DEF ClaimIds
    <2>4. CASE RunSettles(w)
      <3>1. w \in SettlingRuntimes /\ pc'[w] = "own1"
        BY <1>1, <2>4 DEF RunSettles, Goto, Holds, Settling
      <3>2. /\ SettledRow(task[t], Target(verdict[w])).attempts = task[t].attempts
            /\ SettledRow(task[t], Target(verdict[w])).status # "QUEUED"
        BY <2>1 DEF Owned, SettledRow, TaskRow, Target
      <3>3. /\ task'[t].status # "QUEUED" /\ task'[t].attempts = task[t].attempts
            /\ \A u \in Tasks \ {t} : task'[u] = task[u]
        BY <1>1, <2>1, <2>4, <3>2, OwnedRowWritten
      <3>4. claims'[cur[w]].status \in {"SUCCEEDED", "FAILED"}
        BY <2>3, <2>4 DEF Target
      <3> QED
        BY <2>1, <2>3, <3>1, <3>3, <3>4 DEF Settles
    <2>5. CASE CompleteWrites(w)
      <3>1. pc'[w] = "end" /\ ~RunSettles(w)
        BY <1>1, <2>5 DEF CompleteWrites, RunSettles, Goto
      <3>2. /\ task'[t].status = "SUCCEEDED" /\ task'[t].attempts = task[t].attempts
            /\ \A u \in Tasks \ {t} : task'[u] = task[u]
        <4>1. task' = [task EXCEPT ![t] = CompletedRow(task[t])]
          BY <2>5, OwnedRowWritten
        <4>2. CompletedRow(task[t]).status = "SUCCEEDED"
              /\ CompletedRow(task[t]).attempts = task[t].attempts
          BY <2>1 DEF CompletedRow, TaskRow
        <4> QED
          BY <1>1, <2>1, <4>1, <4>2
      <3> QED
        BY <2>1, <2>3, <2>5, <3>1, <3>2 DEF Settles
    <2>6. CASE FailWrites(w)
      <3>1. pc'[w] = "end" /\ ~RunSettles(w) /\ ~CompleteWrites(w)
        BY <1>1, <2>6 DEF FailWrites, CompleteWrites, RunSettles, Goto
      <3>2. task'[t] = AfterFailure(task[t]) /\ \A u \in Tasks \ {t} : task'[u] = task[u]
        BY <1>1, <2>1, <2>6, OwnedRowWritten
      <3>3. AfterFailure(task[t]).attempts = task[t].attempts
        BY <2>1 DEF AfterFailure, TaskRow
      <3> QED
        BY <2>1, <2>3, <3>1, <3>2, <3>3 DEF Settles
    <2> QED
      BY <1>8, <2>4, <2>5, <2>6
  <1>9. ASSUME NEW w \in Workers,
               WorkerStep(w) \/ HeartbeatStep(w) \/ ShutdownStep(w) \/ Crash(w)
        PROVE  NothingSettles \/ Settles(w)
    <2>1. \/ claims' = claims /\ task' = task
          \/ LostOwnership(w) \/ FailRaises(w) \/ HeartbeatWrites(w) \/ ReleaseLease(w)
          \/ RunSettles(w) \/ CompleteWrites(w) \/ FailWrites(w)
          \/ \E t \in Tasks : ClaimTask(w, t)
      BY <1>9 DEF WorkerStep, HeartbeatStep, ShutdownStep, Crash, Register, Poll,
         LoseCandidate, RunReturns, RunEnds, Verify, Rereads, ExecutionRaises, StillOwner,
         CompleteReads, FailReads, EndExecution, Exit, HeartbeatReads, HeartbeatDies,
         Shutdown, MarkStopped, taskVars
    <2> QED
      BY <1>2, <1>4, <1>6, <1>8, <2>1
  <1> QED
    BY <1>7, <1>9 DEF Next

\* A new claim: it is the newest of its task, the attempt it counts is above
\* every earlier one, and the task was in the queue.
LEMMA ClaimKeepsHistory ==
  ASSUME IInv, Owned, History, [Next]_vars,
         NEW w \in Workers, NEW t \in Tasks, ClaimTask(w, t)
  PROVE  History'
  <1>0. PICK new \in Nat : new = Len(claims) + 1
    BY LenProperties DEF IInv, TypeOK
  <1>1. /\ task[t].status = "QUEUED" /\ task[t] \in TaskRow
        /\ task' = [task EXCEPT ![t] = ClaimedRow(task[t])]
        /\ cur' = [cur EXCEPT ![w] = new] /\ pc' = [pc EXCEPT ![w] = "run"]
        /\ pc \in [Workers -> Locations] /\ cur \in [Workers -> 0..Len(claims)]
        /\ task \in [Tasks -> TaskRow]
    BY <1>0 DEF ClaimTask, Claimable, Goto, IInv, TypeOK
  <1>2. /\ ClaimIds' = ClaimIds \cup {new} /\ new \notin ClaimIds
        /\ claims'[new].task = t
        /\ claims'[new].attempt = task[t].attempts + 1
        /\ claims'[new].status = "RUNNING"
        /\ \A e \in ClaimIds : claims'[e] = claims[e]
        /\ \A e \in ClaimIds : Newest(e)' <=> Newest(e) /\ claims[e].task # t
    <2>1. ClaimedRow(task[t]).attempts = task[t].attempts + 1
      BY DEF ClaimedRow
    <2> QED
      BY <1>0, <2>1, ClaimSupersedes
  <1>3. /\ task'[t].status = "RUNNING" /\ task'[t].attempts = task[t].attempts + 1
        /\ \A u \in Tasks \ {t} : task'[u] = task[u]
    BY <1>1 DEF ClaimedRow
  <1>4. \A e \in ClaimIds : claims[e] \in Claim /\ claims[e].task \in Tasks
    BY ClaimTyped DEF IInv
  <1>5. new \in Nat /\ \A e \in ClaimIds : e \in Nat /\ e < new
    BY <1>0, LenProperties DEF IInv, TypeOK, ClaimIds
  <1>6. claims'[new].worker = w
    BY <1>0, <1>5, ClaimAppended, LenProperties DEF ClaimTask, IInv, TypeOK
  <1>7. Newest(new)'
    BY <1>2, <1>5 DEF Newest
  <1>8. Holds'
    <2>1. ASSUME NEW v \in Workers, v # w, pc[v] \in Executing
          PROVE  /\ cur[v] \in ClaimIds /\ cur'[v] = cur[v] /\ pc'[v] = pc[v]
                 /\ claims[cur[v]].task # t
      BY <1>1, <2>1 DEF Owned, IInv, Linked
    <2>2. ASSUME NEW v \in Workers, v # w, pc'[v] \in Executing
          PROVE  /\ Newest(cur[v])' /\ claims'[cur'[v]].worker = v
                 /\ v \notin SettlingRuntimes => task'[claims'[cur'[v]].task].status = "RUNNING"
      <3>1. pc[v] \in Executing
        BY <1>1, <2>2
      <3>2. cur[v] \in ClaimIds /\ cur'[v] = cur[v] /\ claims[cur[v]].task # t
        BY <2>1, <2>2, <3>1
      <3>3. Newest(cur[v]) /\ claims[cur[v]].worker = v
        BY <3>1 DEF History, Holds
      <3>4. v \notin SettlingRuntimes => task[claims[cur[v]].task].status = "RUNNING"
        BY <3>1 DEF History, Holds
      <3>5. claims'[cur'[v]] = claims[cur[v]] /\ task'[claims[cur[v]].task] = task[claims[cur[v]].task]
        BY <1>2, <1>3, <1>4, <3>2
      <3>6. Newest(cur[v])'
        BY <1>2, <3>2, <3>3 DEF Newest
      <3> QED
        BY <3>3, <3>4, <3>5, <3>6
    <2>3. /\ Newest(cur[w])' /\ claims'[cur'[w]].worker = w /\ pc'[w] \notin Settling
          /\ task'[claims'[cur'[w]].task].status = "RUNNING"
      BY <1>1, <1>2, <1>3, <1>6, <1>7 DEF Newest, Settling
    <2>4. \A v \in Workers : pc'[v] \in Settling => v \in SettlingRuntimes
      BY <1>1, <2>3 DEF History, Holds
    <2> QED
      BY <2>2, <2>3, <2>4 DEF Holds
  <1>9. AttemptsCounted'
    <2>1. AttemptsCounted
      BY DEF History
    <2>2. task[t].attempts \in Nat /\ \A e \in ClaimIds : claims[e].attempt \in Nat
      BY <1>1, <1>4, CoordinatorAssumption DEF TaskRow, Claim
    <2>3. ASSUME NEW e \in ClaimIds
          PROVE  /\ claims'[e].attempt <= task'[claims'[e].task].attempts
                 /\ claims[e].task = t => claims[e].attempt < claims'[new].attempt
      BY <1>1, <1>2, <1>3, <1>4, <2>1, <2>2 DEF AttemptsCounted
    <2>4. claims'[new].attempt <= task'[claims'[new].task].attempts
      BY <1>2, <1>3, <2>2
    <2>5. ASSUME NEW e \in ClaimIds, NEW f \in ClaimIds,
                 claims'[f].task = claims'[e].task, e < f
          PROVE  claims'[e].attempt < claims'[f].attempt
      BY <1>2, <2>1, <2>5 DEF AttemptsCounted
    <2>6. \A f \in ClaimIds : ~(new < f)
      BY <1>5
    <2> QED
      BY <1>2, <1>5, <2>3, <2>4, <2>5, <2>6 DEF AttemptsCounted
  <1>10. QueuedClosed'
    BY <1>2, <1>3, <1>4 DEF History, QueuedClosed
  <1>11. SupersededClosed'
    <2>1. ASSUME NEW e \in ClaimIds, ~Newest(e)' PROVE claims'[e].status # "RUNNING"
      BY <1>1, <1>2, <2>1 DEF History, QueuedClosed, SupersededClosed
    <2> QED
      BY <1>2, <1>7, <2>1 DEF SupersededClosed
  <1>12. OutcomesAgree'
    <2>1. ASSUME NEW e \in ClaimIds, Newest(e)', claims'[e].worker \notin SettlingRuntimes,
                 task'[claims'[e].task].status = "SUCCEEDED"
          PROVE  claims'[e].status = "SUCCEEDED"
      BY <1>2, <1>3, <1>4, <2>1 DEF History, OutcomesAgree
    <2>2. task'[claims'[new].task].status # "SUCCEEDED"
      BY <1>2, <1>3
    <2> QED
      BY <1>2, <2>1, <2>2 DEF OutcomesAgree
  <1> QED
    BY <1>8, <1>9, <1>10, <1>11, <1>12 DEF History

LEMMA StepKeepsHistory ==
  ASSUME Recoverers = {}, IInv, Owned, History, [Next]_vars,
         ~\E w \in Workers, t \in Tasks : ClaimTask(w, t)
  PROVE  History'
  <1>1. StaysExecuting
    BY ExecutionStays
  <1>2. /\ ClaimIds' = ClaimIds
        /\ \A e \in ClaimIds : /\ claims'[e].task = claims[e].task
                              /\ claims'[e].worker = claims[e].worker
                              /\ claims'[e].attempt = claims[e].attempt
    BY ClaimsStayFixed DEF ClaimsFixed, ClaimIds
  <1>3. \A e \in ClaimIds : Newest(e)' <=> Newest(e)
    BY <1>2 DEF Newest
  <1>4. \A e \in ClaimIds : claims[e] \in Claim /\ claims[e].task \in Tasks
    BY ClaimTyped DEF IInv
  <1>5. \A v \in Workers : pc'[v] \in Executing =>
          /\ pc[v] \in Executing /\ cur'[v] = cur[v] /\ cur[v] \in ClaimIds
          /\ Newest(cur[v]) /\ Newest(cur[v])' /\ claims'[cur'[v]].worker = v
    <2>1. ASSUME NEW v \in Workers, pc'[v] \in Executing
          PROVE  /\ pc[v] \in Executing /\ cur'[v] = cur[v] /\ cur[v] \in ClaimIds
                 /\ Newest(cur[v]) /\ claims[cur[v]].worker = v
      BY <1>1, <2>1 DEF StaysExecuting, IInv, Linked, History, Holds
    <2> QED
      BY <1>2, <1>3, <2>1 DEF Newest
  <1>6. \A v \in Workers : pc'[v] \in Settling => v \in SettlingRuntimes
    BY <1>1 DEF StaysExecuting, History, Holds
  <1>7. ASSUME \A t \in Tasks : task'[t].attempts = task[t].attempts
        PROVE  AttemptsCounted'
    BY <1>2, <1>4, <1>7 DEF History, AttemptsCounted
  <1>8. CASE NothingSettles
    <2>1. Holds'
      BY <1>2, <1>5, <1>6, <1>8 DEF History, Holds, NothingSettles, Newest
    <2>2. AttemptsCounted'
      BY <1>7, <1>8 DEF NothingSettles
    <2>3. QueuedClosed' /\ SupersededClosed' /\ OutcomesAgree'
      BY <1>2, <1>3, <1>8
      DEF History, QueuedClosed, SupersededClosed, OutcomesAgree, NothingSettles
    <2> QED
      BY <2>1, <2>2, <2>3 DEF History
  <1>9. ASSUME NEW w \in Workers, Settles(w) PROVE History'
    <2> DEFINE i == cur[w]
               t == claims[cur[w]].task
    <2>1. /\ pc[w] \in Executing /\ i \in ClaimIds /\ t \in Tasks
          /\ Newest(i) /\ claims[i].worker = w
          /\ w \notin SettlingRuntimes => task[t].status = "RUNNING"
      BY <1>4, <1>9 DEF Settles, IInv, Linked, History, Holds
    <2>2. /\ \A e \in ClaimIds \ {i} : claims'[e].status = claims[e].status
          /\ \A u \in Tasks \ {t} : task'[u] = task[u]
          /\ claims'[i].status \in {"SUCCEEDED", "FAILED"}
          /\ task'[t].attempts = task[t].attempts
          /\ \/ w \in SettlingRuntimes /\ pc'[w] = "own1" /\ task'[t].status # "QUEUED"
             \/ pc'[w] = "end" /\ task'[t].status = "SUCCEEDED" /\ claims'[i].status = "SUCCEEDED"
             \/ pc'[w] = "end" /\ task'[t].status = AfterFailure(task[t]).status
      BY <1>9 DEF Settles
    <2>3. \A e \in ClaimIds : Newest(e) /\ claims[e].task = t => e = i
      BY <2>1 DEF Newest, ClaimIds
    <2>4. ASSUME NEW v \in Workers \ {w}, pc'[v] \in Executing
          PROVE  claims[cur[v]].task # t
      <3>1. pc[v] \in Executing
        BY <1>5, <2>4
      <3>2. claims[cur[v]].task = t => Executes(v, t) /\ Executes(w, t)
        BY <2>1, <3>1 DEF Executes
      <3> QED
        BY <2>1, <3>2 DEF Owned, SingleExecutor
    <2> HIDE DEF i, t
    <2>5. Holds'
      <3>1. ASSUME NEW v \in Workers, pc'[v] \in Executing, v \notin SettlingRuntimes
            PROVE  task'[claims'[cur'[v]].task].status = "RUNNING"
        <4>1. v # w
          BY <2>2, <3>1 DEF Executing
        <4>2. /\ pc[v] \in Executing /\ cur'[v] = cur[v] /\ cur[v] \in ClaimIds
              /\ claims[cur[v]].task # t
          BY <1>5, <2>4, <3>1, <4>1
        <4>3. task[claims[cur[v]].task].status = "RUNNING"
          BY <3>1, <4>2 DEF History, Holds
        <4> QED
          BY <1>2, <1>4, <2>2, <4>2, <4>3
      <3> QED
        BY <1>2, <1>5, <1>6, <3>1 DEF Holds, Newest
    <2>6. AttemptsCounted'
      BY <1>7, <2>2
    <2>7. SupersededClosed'
      BY <1>2, <1>3, <2>2 DEF History, SupersededClosed
    <2>8. QueuedClosed'
      <3>1. ASSUME NEW e \in ClaimIds, claims[e].task = t PROVE claims'[e].status # "RUNNING"
        BY <1>2, <1>3, <2>2, <2>3, <2>7, <3>1 DEF SupersededClosed
      <3> QED
        BY <1>2, <1>4, <2>2, <3>1 DEF History, QueuedClosed
    <2>9. OutcomesAgree'
      <3> SUFFICES ASSUME NEW e \in ClaimIds, Newest(e), claims[e].worker \notin SettlingRuntimes,
                          task'[claims[e].task].status = "SUCCEEDED"
                   PROVE  claims'[e].status = "SUCCEEDED"
        BY <1>2, <1>3 DEF OutcomesAgree
      <3>1. CASE claims[e].task # t
        <4>1. e # i
          BY <3>1 DEF i, t
        <4>2. task[claims[e].task].status = "SUCCEEDED"
          BY <1>4, <2>2, <3>1
        <4> QED
          BY <2>2, <4>1, <4>2 DEF History, OutcomesAgree
      <3>2. CASE claims[e].task = t
        <4>1. e = i /\ w \notin SettlingRuntimes /\ task[t].status = "RUNNING"
          BY <2>1, <2>3, <3>2
        <4>2. AfterFailure(task[t]).status # "SUCCEEDED"
          BY <4>1 DEF AfterFailure, TaskCanMove, TaskTransitions
        <4> QED
          BY <2>2, <3>2, <4>1, <4>2
      <3> QED
        BY <3>1, <3>2
    <2> QED
      BY <2>5, <2>6, <2>7, <2>8, <2>9 DEF History
  <1>10. NothingSettles \/ \E w \in Workers : Settles(w)
    BY StepSettles DEF History
  <1> QED
    BY <1>8, <1>9, <1>10

\* Without recovery the executions of a task are its history: the newest one is
\* its executor's, the others are closed.
THEOREM HistoryInvariance ==
  ASSUME Recoverers = {}
  PROVE  Spec => []History
  <1>1. Init => History
    BY DEF Init, PoolInit, History, Holds, AttemptsCounted, QueuedClosed, SupersededClosed,
       OutcomesAgree, ClaimIds, Executing, Settling
  <1>2. IInv /\ Owned /\ History /\ [Next]_vars => History'
    BY ClaimKeepsHistory, StepKeepsHistory
  <1> QED
    BY <1>1, <1>2, OwnershipInvariance, PTL DEF Spec

\* attempt_count never loses a claim: no failure or completion writes back a
\* row that misses one, however many workers race.
THEOREM NoAttemptLost ==
  ASSUME Recoverers = {}
  PROVE  Spec => []AttemptsCounted
  BY HistoryInvariance, PTL DEF History

\* A task that has been claimed again left no open execution behind.
THEOREM OldClaimsClosed ==
  ASSUME Recoverers = {}
  PROVE  Spec => []SupersededClosed
  BY HistoryInvariance, PTL DEF History

\* A SUCCEEDED task whose runtime leaves it to the coordinator has a SUCCEEDED
\* latest execution.
THEOREM TaskAndExecutionAgree ==
  ASSUME Recoverers = {}
  PROVE  Spec => []OutcomesAgree
  BY HistoryInvariance, PTL DEF History
=============================================================================
