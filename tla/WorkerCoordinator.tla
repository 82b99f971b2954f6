-------------------------- MODULE WorkerCoordinator --------------------------
(***************************************************************************)
(* The worker pool of one mission: core/application/worker_coordinator.py  *)
(* together with the writes the agent runtime makes to tasks and           *)
(* executions (core/application/agent_runtime.py).                         *)
(*                                                                         *)
(* PostgreSQL runs at READ COMMITTED.  A transaction that changes a task   *)
(* reads its row, and update() selects the row again, without a lock,      *)
(* before SQLAlchemy sends an UPDATE of the columns whose new value is not *)
(* the one selected.  Such a transaction is three steps here: the read     *)
(* (snap, rsnap), the second SELECT, which fixes the columns (cols,        *)
(* rcols), and the UPDATE with the commit, applied to the row as it is by  *)
(* then.  Every other actor is free to move in between.  Only claim_task   *)
(* locks the row it reads, so a claim is one step.  An execution has one   *)
(* writer as long as nobody recovers; its read and its update are one step *)
(* also when somebody does, for nothing here depends on its status then.   *)
(*                                                                         *)
(* A claim inserts a TaskExecution and its TaskLease in one transaction;   *)
(* claims[e] is that pair.  The wall clock is the action Expire.  Each     *)
(* element of Workers is one process: a restarted process registers a new  *)
(* worker row, so it is another element.                                   *)
(***************************************************************************)
EXTENDS StateMachines, Naturals, Sequences

CONSTANTS
  Tasks,            \* the tasks of the mission
  Workers,          \* worker processes
  Recoverers,       \* callers of recover_stale (the shipped program has none)
  SettlingRuntimes, \* workers whose runtime writes the task's status itself
  Beating,          \* workers whose heartbeat interval is below the lease's TTL
  Parents,          \* Parents[t]: the tasks t depends on
  Capable,          \* Capable[w]: the tasks whose type w has the capability for
  Rank,             \* Rank[t]: position of t in the (priority, created_at) order
  MaxAttempts,      \* Task.max_attempts
  Disturbances,     \* what the environment does: a subset of the four kinds
  MaxClaims         \* bound: claims a behaviour may make

ASSUME CoordinatorAssumption ==
  /\ SettlingRuntimes \subseteq Workers
  /\ Beating \subseteq Workers
  /\ Parents \in [Tasks -> SUBSET Tasks]
  /\ Capable \in [Workers -> SUBSET Tasks]
  /\ Rank \in [Tasks -> Nat]
  /\ MaxAttempts \in Nat \ {0}
  /\ Disturbances \subseteq {"raise", "signal", "crash", "pause"}
  /\ MaxClaims \in Nat

VARIABLES
  executing,   \* missions.status = EXECUTING
  task,        \* tasks rows: status and attempt_count
  claims,      \* task_executions and task_leases rows, one pair per claim
  wstatus,     \* workers.status, "NONE" before the row exists
  pc,          \* where each worker's main coroutine stands
  cur,         \* _current_lease_id: the worker's claim, 0 for None
  cand,        \* candidates left of the snapshot claim_next_task took
  snap,        \* the task row read by the open transaction of the worker
  cols,        \* the columns its UPDATE will set
  verdict,     \* the run's or the verification's result, once known
  heartbeat,   \* the heartbeat coroutine of the current claim
  drain,       \* the shutdown coroutine
  rpc, rtodo, rcur, rsnap, rcols, rheld  \* recover_stale of each recoverer

taskVars == <<executing, task, claims, wstatus>>
workVars == <<pc, cur, cand, snap, cols, verdict>>
recVars == <<rpc, rtodo, rcur, rsnap, rcols, rheld>>
vars == <<executing, task, claims, wstatus, pc, cur, cand, snap, cols, verdict,
          heartbeat, drain, rpc, rtodo, rcur, rsnap, rcols, rheld>>

------------------------------------------------------------------------------
(* Rows and locations.                                                     *)

TaskRow == [status: TaskStatus, attempts: Nat]

Columns == {"status", "attempts"}

NoRow == [status |-> "PENDING", attempts |-> 0]

\* One TaskExecution and its TaskLease, the rows their repositories store
\* under a common id: the position in claims.  "left" is a history field: how the
\* claiming worker's execute_claimed ended.
Claim == [task: Tasks, worker: Workers, attempt: Nat \ {0},
          status: ExecutionStatus, live: BOOLEAN,
          left: {"no", "settled", "stale", "raised"}]

ClaimIds == 1..Len(claims)

\* Control locations of execute_claimed, in program order: the agent runs,
\* the runtime's own settling transaction, the ownership checks around
\* verification, and the transactions of _complete_task and _fail_task.  A
\* transaction goes through Read (the runtime's starts in "run"), Update and
\* Write.
Executing == {"run", "sUpdate", "sWrite", "own1", "verify", "own2", "own3",
              "cRead", "cUpdate", "cWrite", "fRead", "fUpdate", "fWrite"}

\* Locations at which an UPDATE of the task row is under way.
Writing == {"sWrite", "cWrite", "fWrite"}

\* _fail_task has begun; what it raises ends the execution.
Failing == {"fRead", "fUpdate", "fWrite"}

Locations == {"off", "idle", "claim", "end", "exited", "crashed"} \cup Executing

\* The process of w exists and has finished registering.
Up(w) == pc[w] \notin {"off", "exited", "crashed"}

\* An execution row that an uncommitted recovery pass has already written.
ExecutionHeld(e) == \E r \in Recoverers : e \in rheld[r]

Goto(w, l) == pc' = [pc EXCEPT ![w] = l]

------------------------------------------------------------------------------
(* What each transaction makes of the task row it has read.                *)

\* The UPDATE that SQLAlchemy sends sets the columns in which the row wanted
\* differs from the row the second SELECT found.
Differing(new, found) ==
  (IF new.status # found.status THEN {"status"} ELSE {}) \cup
  (IF new.attempts # found.attempts THEN {"attempts"} ELSE {})

\* The row that UPDATE leaves of the one it meets.
Merged(row, new, set) ==
  [status |-> IF "status" \in set THEN new.status ELSE row.status,
   attempts |-> IF "attempts" \in set THEN new.attempts ELSE row.attempts]

\* The row claim_task writes, and a variant that forgets to count the attempt.
ClaimedRowUncounted(row) == [row EXCEPT !.status = "RUNNING"]
ClaimedRow(row) == [status |-> "RUNNING", attempts |-> row.attempts + 1]

\* The status a runtime's _complete_run (ok) or _fail_run aims at.
Target(ok) == IF ok THEN "SUCCEEDED" ELSE "FAILED"

\* The status _transition_task leaves on a row with status s: one transition,
\* or the walk through RUNNING; an illegal one leaves the row unwritten.
CanSettle(s, target) == s = target \/ s = "QUEUED" \/ TaskCanMove(s, target)

SettledRow(row, target) ==
  IF CanSettle(row.status, target) THEN [row EXCEPT !.status = target] ELSE row

SettledColumns(row, target, found) ==
  IF CanSettle(row.status, target) THEN Differing(SettledRow(row, target), found) ELSE {}

CompletedRow(row) == [row EXCEPT !.status = "SUCCEEDED"]

\* The row _fail_task wants: FAILED if that is legal, and then QUEUED again
\* while attempts remain.  The variants skip the state machine, never
\* write the task, or grant one attempt too many.
AfterFailureUnchecked(row) ==
  [row EXCEPT !.status = IF row.attempts < MaxAttempts THEN "QUEUED" ELSE "FAILED"]
AfterFailureUnwritten(row) == row
AfterFailureOneMore(row) ==
  IF row.status = "RUNNING" /\ row.attempts <= MaxAttempts
  THEN [row EXCEPT !.status = "QUEUED"] ELSE row
AfterFailure(row) ==
  LET failed == IF TaskCanMove(row.status, "FAILED") THEN "FAILED" ELSE row.status
      retry == row.attempts < MaxAttempts /\ TaskCanMove(failed, "RETRYING")
  IN [row EXCEPT !.status = IF retry THEN "QUEUED" ELSE failed]

\* The columns _fail_task sets.  After a legal move to FAILED the requeue is a
\* second UPDATE, and its SELECT sees the row that the first has locked: the
\* two together leave status and count as _fail_task has read them.
FailedColumns(row, found) ==
  IF AfterFailure(row) = row THEN {}
  ELSE IF TaskCanMove(row.status, "FAILED") /\ AfterFailure(row).status = "QUEUED"
  THEN Columns ELSE Differing(AfterFailure(row), found)

\* The row read may be requeued; the variants forget the attempt budget or
\* count the attempt to come against it.
RequeuableAlways(row) == TaskCanMove(row.status, "FAILED")
RequeuableOneLess(row) == row.attempts + 1 < MaxAttempts /\ TaskCanMove(row.status, "FAILED")
Requeuable(row) == row.attempts < MaxAttempts /\ TaskCanMove(row.status, "FAILED")

\* Some open transaction is about to change t's row and may hold its lock.
RowHeld(t) ==
  \/ \E v \in Workers :
       /\ pc[v] \in Writing /\ claims[cur[v]].task = t
       /\ pc[v] = "fWrite" => AfterFailure(snap[v]) # snap[v]
       /\ pc[v] = "sWrite" => CanSettle(snap[v].status, Target(verdict[v]))
  \/ \E r \in Recoverers : rpc[r] = "write" /\ claims[rcur[r]].task = t

------------------------------------------------------------------------------
(* The workers have not started; the rows of an executing mission exist.   *)

PoolInit ==
  /\ executing = TRUE
  /\ claims = << >>
  /\ wstatus = [w \in Workers |-> "NONE"]
  /\ pc = [w \in Workers |-> "off"]
  /\ cur = [w \in Workers |-> 0]
  /\ cand = [w \in Workers |-> {}]
  /\ snap = [w \in Workers |-> NoRow]
  /\ cols = [w \in Workers |-> {}]
  /\ verdict = [w \in Workers |-> FALSE]
  /\ heartbeat = [w \in Workers |-> "off"]
  /\ drain = [w \in Workers |-> "no"]
  /\ rpc = [r \in Recoverers |-> "idle"]
  /\ rtodo = [r \in Recoverers |-> {}]
  /\ rcur = [r \in Recoverers |-> 0]
  /\ rsnap = [r \in Recoverers |-> NoRow]
  /\ rcols = [r \in Recoverers |-> {}]
  /\ rheld = [r \in Recoverers |-> {}]

\* The pool on its own starts from the queue the scheduler leaves: the tasks
\* without parents are in it.
Init ==
  /\ PoolInit
  /\ task = [t \in Tasks |->
               [status |-> IF Parents[t] = {} THEN "QUEUED" ELSE "PENDING",
                attempts |-> 0]]

------------------------------------------------------------------------------
(* Lifecycle, polling and claiming.                                        *)

\* register: no row is ever left REGISTERED, so it always creates a new one.
\* A shutdown that arrives before this step is forgotten: run_forever resets
\* the running and draining flags after it.
Register(w) ==
  /\ pc[w] = "off"
  /\ wstatus' = [wstatus EXCEPT ![w] = "AVAILABLE"]
  /\ Goto(w, "idle")
  /\ UNCHANGED <<executing, task, claims, cur, cand, snap, cols, verdict,
                 heartbeat, drain, recVars>>

\* The filter of claim_next_task over its snapshot of tasks and dependencies.
Eligible(w, t) ==
  /\ task[t].status = "QUEUED"
  /\ t \in Capable[w]
  /\ \A p \in Parents[t] : task[p].status = "SUCCEEDED"

\* poll_once and the reads of claim_next_task.
Poll(w) ==
  /\ pc[w] = "idle" /\ drain[w] = "no" /\ executing
  /\ {t \in Tasks : Eligible(w, t)} # {}
  /\ cand' = [cand EXCEPT ![w] = {t \in Tasks : Eligible(w, t)}]
  /\ Goto(w, "claim")
  /\ UNCHANGED <<taskVars, cur, snap, cols, verdict, heartbeat, drain, recVars>>

\* The candidate the loop of claim_next_task tries next.
NextCandidate(w, t) ==
  t \in cand[w] /\ \A u \in cand[w] : Rank[t] <= Rank[u]

\* The WHERE clause of claim_task, evaluated on the locked row; the faulty
\* variant trusts the snapshot.
ClaimableUnlocked(t) == TRUE
Claimable(t) == task[t].status = "QUEUED"

\* claim_task locked the row while it was still QUEUED: execution and lease
\* are inserted with it, and the first claim of a worker writes its row BUSY.
ClaimTask(w, t) ==
  /\ pc[w] = "claim" /\ NextCandidate(w, t)
  /\ Claimable(t)
  /\ Len(claims) < MaxClaims
  /\ task' = [task EXCEPT ![t] = ClaimedRow(@)]
  /\ claims' = Append(claims, [task |-> t, worker |-> w,
                               attempt |-> ClaimedRow(task[t]).attempts,
                               status |-> "RUNNING", live |-> TRUE, left |-> "no"])
  /\ wstatus' = [wstatus EXCEPT ![w] =
                   IF \E e \in ClaimIds : claims[e].worker = w THEN @ ELSE "BUSY"]
  /\ cur' = [cur EXCEPT ![w] = Len(claims) + 1]
  /\ cand' = [cand EXCEPT ![w] = {}]
  /\ heartbeat' = [heartbeat EXCEPT ![w] = IF drain[w] = "no" THEN "asleep" ELSE "off"]
  /\ Goto(w, "run")
  /\ UNCHANGED <<executing, snap, cols, verdict, drain, recVars>>

\* claim_task returned None: the row has moved on or is locked (SKIP LOCKED).
LoseCandidate(w, t) ==
  /\ pc[w] = "claim" /\ NextCandidate(w, t)
  /\ ~Claimable(t) \/ RowHeld(t)
  /\ cand' = [cand EXCEPT ![w] = @ \ {t}]
  /\ Goto(w, IF cand[w] = {t} THEN "idle" ELSE "claim")
  /\ UNCHANGED <<taskVars, cur, snap, cols, verdict, heartbeat, drain, recVars>>

------------------------------------------------------------------------------
(* execute_claimed: the agent run.                                         *)

\* The task row as the open transaction of w reads it now.
ReadTask(w, then) ==
  /\ snap' = [snap EXCEPT ![w] = task[claims[cur[w]].task]]
  /\ Goto(w, then)

\* The second SELECT, the one inside update(), which then compares.
SelectAgain(w, at, then, columns) ==
  /\ pc[w] = at
  /\ cols' = [cols EXCEPT ![w] = columns]
  /\ Goto(w, then)

Rereads(w) ==
  LET found == task[claims[cur[w]].task]
  IN /\ \/ SelectAgain(w, "sUpdate", "sWrite",
                        SettledColumns(snap[w], Target(verdict[w]), found))
        \/ SelectAgain(w, "cUpdate", "cWrite", Differing(CompletedRow(snap[w]), found))
        \/ SelectAgain(w, "fUpdate", "fWrite", FailedColumns(snap[w], found))
     /\ UNCHANGED <<taskVars, cur, cand, snap, verdict, heartbeat, drain, recVars>>

\* The transaction of w is over, committed or rolled back.
Close(w) ==
  /\ snap' = [snap EXCEPT ![w] = NoRow]
  /\ cols' = [cols EXCEPT ![w] = {}]

\* A runtime that leaves the task alone returns its agent run.
RunReturns(w) ==
  /\ pc[w] = "run" /\ w \notin SettlingRuntimes
  /\ Goto(w, "own1")
  /\ UNCHANGED <<taskVars, cur, cand, snap, cols, verdict, heartbeat, drain, recVars>>

\* CodingAgentRuntime ends its loop and opens the transaction of
\* _complete_run (ok) or _fail_run.
RunEnds(w, ok) ==
  /\ pc[w] = "run" /\ w \in SettlingRuntimes
  /\ verdict' = [verdict EXCEPT ![w] = ok]
  /\ ReadTask(w, "sUpdate")
  /\ UNCHANGED <<taskVars, cur, cand, cols, heartbeat, drain, recVars>>

\* _complete_run and _fail_run write task and execution without looking at
\* the lease.
RunSettles(w) ==
  LET e == cur[w]
      t == claims[e].task
      target == Target(verdict[w])
  IN /\ pc[w] = "sWrite" /\ ~ExecutionHeld(e)
     /\ task' = [task EXCEPT ![t] = Merged(@, SettledRow(snap[w], target), cols[w])]
     /\ claims' = [claims EXCEPT ![e].status = target]
     /\ Close(w)
     /\ verdict' = [verdict EXCEPT ![w] = FALSE]
     /\ Goto(w, "own1")
     /\ UNCHANGED <<executing, wstatus, cur, cand, heartbeat, drain, recVars>>

\* Environment creation, the runtime, the verification engine or a database
\* call before _fail_task raised: an open transaction rolls back and
\* _fail_task takes over.
ExecutionRaises(w) ==
  /\ "raise" \in Disturbances
  /\ pc[w] \in Executing \ Failing
  /\ Close(w)
  /\ verdict' = [verdict EXCEPT ![w] = FALSE]
  /\ Goto(w, "fRead")
  /\ UNCHANGED <<taskVars, cur, cand, heartbeat, drain, recVars>>

\* Verification returns its verdict.
Verify(w, ok) ==
  /\ pc[w] = "verify"
  /\ verdict' = [verdict EXCEPT ![w] = ok]
  /\ Goto(w, "own2")
  /\ UNCHANGED <<taskVars, cur, cand, snap, cols, heartbeat, drain, recVars>>

\* _assert_ownership found the lease live and held by w; after the second
\* check the verdict decides between _complete_task and _fail_task.
StillOwner(w) ==
  /\ pc[w] \in {"own1", "own2", "own3"}
  /\ claims[cur[w]].live
  /\ verdict' = [verdict EXCEPT ![w] = FALSE]
  /\ \/ pc[w] = "own1" /\ Goto(w, "verify")
     \/ pc[w] = "own2" /\ Goto(w, IF verdict[w] THEN "own3" ELSE "fRead")
     \/ pc[w] = "own3" /\ Goto(w, "cRead")
  /\ UNCHANGED <<taskVars, cur, cand, snap, cols, heartbeat, drain, recVars>>

\* StaleOwnershipError propagates out of execute_claimed: nothing is written.
LostOwnership(w) ==
  /\ pc[w] \in {"own1", "own2", "own3"}
  /\ ~claims[cur[w]].live
  /\ claims' = [claims EXCEPT ![cur[w]].left = "stale"]
  /\ verdict' = [verdict EXCEPT ![w] = FALSE]
  /\ Goto(w, "end")
  /\ UNCHANGED <<executing, task, wstatus, cur, cand, snap, cols, heartbeat, drain, recVars>>

------------------------------------------------------------------------------
(* _complete_task and _fail_task, after the ownership check of the former. *)

\* The task is read; a transition to SUCCEEDED that the state machine refuses
\* raises RuntimeError, which execute_claimed answers with _fail_task.
CompleteReads(w) ==
  /\ pc[w] = "cRead"
  /\ IF TaskCanMove(task[claims[cur[w]].task].status, "SUCCEEDED")
     THEN ReadTask(w, "cUpdate")
     ELSE Goto(w, "fRead") /\ UNCHANGED snap
  /\ UNCHANGED <<taskVars, cur, cand, cols, verdict, heartbeat, drain, recVars>>

\* How _complete_task leaves execution and lease; the variant forgets the
\* execution.
CompletedLeaseOnly(c) == [c EXCEPT !.live = FALSE, !.left = "settled"]
CompletedClaim(c) == [c EXCEPT !.status = "SUCCEEDED", !.live = FALSE, !.left = "settled"]

CompleteWrites(w) ==
  LET e == cur[w]
  IN /\ pc[w] = "cWrite" /\ ~ExecutionHeld(e)
     /\ task' = [task EXCEPT ![claims[e].task] = Merged(@, CompletedRow(snap[w]), cols[w])]
     /\ claims' = [claims EXCEPT ![e] = CompletedClaim(@)]
     /\ Close(w)
     /\ Goto(w, "end")
     /\ UNCHANGED <<executing, wstatus, cur, cand, verdict, heartbeat, drain, recVars>>

\* _fail_task starts without an ownership check.
FailReads(w) ==
  /\ pc[w] = "fRead"
  /\ ReadTask(w, "fUpdate")
  /\ UNCHANGED <<taskVars, cur, cand, cols, verdict, heartbeat, drain, recVars>>

\* How _fail_task leaves execution and lease; the variant leaves the
\* execution open.
FailedLeaseOnly(c) == [c EXCEPT !.live = FALSE, !.left = "settled"]
FailedClaim(c) == [c EXCEPT !.status = "FAILED", !.live = FALSE, !.left = "settled"]

FailWrites(w) ==
  LET e == cur[w]
  IN /\ pc[w] = "fWrite" /\ ~ExecutionHeld(e)
     /\ task' = [task EXCEPT ![claims[e].task] = Merged(@, AfterFailure(snap[w]), cols[w])]
     /\ claims' = [claims EXCEPT ![e] = FailedClaim(@)]
     /\ Close(w)
     /\ Goto(w, "end")
     /\ UNCHANGED <<executing, wstatus, cur, cand, verdict, heartbeat, drain, recVars>>

\* _fail_task raised: run_forever swallows it and nothing is written.
FailRaises(w) ==
  /\ "raise" \in Disturbances
  /\ pc[w] \in Failing
  /\ claims' = [claims EXCEPT ![cur[w]].left = "raised"]
  /\ Close(w)
  /\ Goto(w, "end")
  /\ UNCHANGED <<executing, task, wstatus, cur, cand, verdict, heartbeat, drain, recVars>>

\* The finally clauses: the heartbeat is cancelled, whatever it was doing,
\* and the claim is forgotten.
EndExecution(w) ==
  /\ pc[w] = "end"
  /\ cur' = [cur EXCEPT ![w] = 0]
  /\ heartbeat' = [heartbeat EXCEPT ![w] = "off"]
  /\ Goto(w, "idle")
  /\ UNCHANGED <<taskVars, cand, snap, cols, verdict, drain, recVars>>

------------------------------------------------------------------------------
(* Heartbeats and the clock.                                               *)

\* renew_lease reads the lease; a lost lease ends the loop.  The loop looks
\* at the draining flag only after this renewal.  An interval that is not below
\* the TTL makes the first renewal come when the lease has expired.
HeartbeatReads(w) ==
  /\ heartbeat[w] = "asleep"
  /\ w \in Beating \/ ~claims[cur[w]].live
  /\ heartbeat' = [heartbeat EXCEPT ![w] =
                     IF claims[cur[w]].live THEN "renewing" ELSE "off"]
  /\ UNCHANGED <<taskVars, workVars, drain, recVars>>

HeartbeatWrites(w) ==
  /\ heartbeat[w] = "renewing"
  /\ claims' = [claims EXCEPT ![cur[w]].live = TRUE]
  /\ heartbeat' = [heartbeat EXCEPT ![w] = IF drain[w] = "no" THEN "asleep" ELSE "off"]
  /\ UNCHANGED <<executing, task, wstatus, workVars, drain, recVars>>

\* Any exception inside a renewal silently ends the loop.
HeartbeatDies(w) ==
  /\ "raise" \in Disturbances
  /\ heartbeat[w] \in {"asleep", "renewing"}
  /\ heartbeat' = [heartbeat EXCEPT ![w] = "off"]
  /\ UNCHANGED <<taskVars, workVars, drain, recVars>>

\* The wall clock passes lease_expires_at.
Expire(e) ==
  /\ e \in ClaimIds /\ claims[e].live
  /\ claims' = [claims EXCEPT ![e].live = FALSE]
  /\ UNCHANGED <<executing, task, wstatus, workVars, heartbeat, drain, recVars>>

------------------------------------------------------------------------------
(* Shutdown and crashes.                                                   *)

\* The signal handler starts shutdown(graceful=True).
Shutdown(w) ==
  /\ "signal" \in Disturbances
  /\ Up(w) /\ drain[w] = "no"
  /\ drain' = [drain EXCEPT ![w] = "draining"]
  /\ UNCHANGED <<taskVars, workVars, heartbeat, recVars>>

\* The wait is over, because the work ended or because it timed out: a lease
\* still held is released.  A claim in flight is not seen.
ReleaseLease(w) ==
  /\ Up(w) /\ drain[w] = "draining"
  /\ drain' = [drain EXCEPT ![w] = "released"]
  /\ claims' = IF cur[w] = 0 THEN claims ELSE [claims EXCEPT ![cur[w]].live = FALSE]
  /\ UNCHANGED <<executing, task, wstatus, workVars, heartbeat, recVars>>

\* The status _set_worker_status(STOPPED) leaves on a row with status s.
Stopped(s) == IF WorkerCanMove(s, "STOPPED") THEN "STOPPED" ELSE s

MarkStopped(w) ==
  /\ Up(w) /\ drain[w] = "released"
  /\ drain' = [drain EXCEPT ![w] = "stopped"]
  /\ wstatus' = [wstatus EXCEPT ![w] = Stopped(@)]
  /\ UNCHANGED <<executing, task, claims, workVars, heartbeat, recVars>>

\* run_forever leaves its loop, run_worker shuts down once more and ends.
Exit(w) ==
  /\ pc[w] = "idle" /\ drain[w] # "no"
  /\ wstatus' = [wstatus EXCEPT ![w] = Stopped(@)]
  /\ Goto(w, "exited")
  /\ UNCHANGED <<executing, task, claims, cur, cand, snap, cols, verdict,
                 heartbeat, drain, recVars>>

\* The process dies; its open transactions roll back.
Crash(w) ==
  /\ "crash" \in Disturbances
  /\ Up(w)
  /\ pc' = [pc EXCEPT ![w] = "crashed"]
  /\ cur' = [cur EXCEPT ![w] = 0]
  /\ heartbeat' = [heartbeat EXCEPT ![w] = "off"]
  /\ cand' = [cand EXCEPT ![w] = {}]
  /\ Close(w)
  /\ verdict' = [verdict EXCEPT ![w] = FALSE]
  /\ UNCHANGED <<taskVars, drain, recVars>>

------------------------------------------------------------------------------
(* recover_stale, one transaction over every expired lease.                *)

StaleLeases == {e \in ClaimIds : ~claims[e].live}

\* get_stale_leases.
RecoverStarts(r) ==
  /\ rpc[r] = "idle" /\ StaleLeases # {}
  /\ rtodo' = [rtodo EXCEPT ![r] = StaleLeases]
  /\ rpc' = [rpc EXCEPT ![r] = "scan"]
  /\ UNCHANGED <<taskVars, workVars, heartbeat, drain, rcur, rsnap, rcols, rheld>>

\* The lease was renewed meanwhile, or its task is neither RUNNING nor QUEUED.
Recoverable(e) ==
  ~claims[e].live /\ task[claims[e].task].status \in {"RUNNING", "QUEUED"}

RecoverSkips(r, e) ==
  /\ rpc[r] = "scan" /\ e \in rtodo[r] /\ ~Recoverable(e)
  /\ rtodo' = [rtodo EXCEPT ![r] = @ \ {e}]
  /\ UNCHANGED <<taskVars, workVars, heartbeat, drain, rpc, rcur, rsnap, rcols, rheld>>

RecoverReads(r, e) ==
  /\ rpc[r] = "scan" /\ e \in rtodo[r] /\ Recoverable(e)
  /\ rtodo' = [rtodo EXCEPT ![r] = @ \ {e}]
  /\ rcur' = [rcur EXCEPT ![r] = e]
  /\ rsnap' = [rsnap EXCEPT ![r] = task[claims[e].task]]
  /\ rpc' = [rpc EXCEPT ![r] = "update"]
  /\ UNCHANGED <<taskVars, workVars, heartbeat, drain, rcols, rheld>>

\* The executions of set E become FAILED.
FailExecutions(E) ==
  claims' = [e \in ClaimIds |->
               IF e \in E THEN [claims[e] EXCEPT !.status = "FAILED"] ELSE claims[e]]

\* Executions the pass has written, and locked, once it has looked at its
\* current lease.
WrittenExecutions(r) ==
  rheld[r] \cup (IF claims[rcur[r]].status = "SUCCEEDED" THEN {} ELSE {rcur[r]})

\* The pass writes the execution of its current lease, after any other pass
\* that has it locked.
RecoverLooks(r) ==
  /\ rpc[r] = "update"
  /\ ~\E q \in Recoverers \ {r} : rcur[r] \in rheld[q]
  /\ rheld' = [rheld EXCEPT ![r] = WrittenExecutions(r)]

\* The lease is dealt with, the loop goes on with the next.
NextLease(r) ==
  /\ rcur' = [rcur EXCEPT ![r] = 0]
  /\ rsnap' = [rsnap EXCEPT ![r] = NoRow]
  /\ rcols' = [rcols EXCEPT ![r] = {}]
  /\ rpc' = [rpc EXCEPT ![r] = "scan"]

\* Attempts are exhausted or the task is QUEUED: the loop continues with the
\* execution row written and locked, but not committed.
RecoverGivesUp(r) ==
  /\ ~Requeuable(rsnap[r])
  /\ RecoverLooks(r)
  /\ NextLease(r)
  /\ UNCHANGED <<taskVars, workVars, heartbeat, drain, rtodo>>

\* What a requeue wants of the row read: FAILED, RETRYING, QUEUED in memory.
RequeuedRow(row) == [row EXCEPT !.status = "QUEUED"]

\* The second SELECT of the task, inside update().
RecoverRereads(r) ==
  /\ Requeuable(rsnap[r])
  /\ RecoverLooks(r)
  /\ rcols' = [rcols EXCEPT ![r] =
                 Differing(RequeuedRow(rsnap[r]), task[claims[rcur[r]].task])]
  /\ rpc' = [rpc EXCEPT ![r] = "write"]
  /\ UNCHANGED <<taskVars, workVars, heartbeat, drain, rtodo, rcur, rsnap>>

\* The UPDATE of the task, and a commit that also publishes the executions
\* the pass has written.
RecoverRequeues(r) ==
  /\ rpc[r] = "write"
  /\ task' = [task EXCEPT ![claims[rcur[r]].task] =
                Merged(@, RequeuedRow(rsnap[r]), rcols[r])]
  /\ FailExecutions(rheld[r])
  /\ rheld' = [rheld EXCEPT ![r] = {}]
  /\ NextLease(r)
  /\ UNCHANGED <<executing, wstatus, workVars, heartbeat, drain, rtodo>>

\* The unit of work ends without a commit: what is still held rolls back.
RecoverEnds(r) ==
  /\ rpc[r] = "scan" /\ rtodo[r] = {}
  /\ rheld' = [rheld EXCEPT ![r] = {}]
  /\ rpc' = [rpc EXCEPT ![r] = "idle"]
  /\ UNCHANGED <<taskVars, workVars, heartbeat, drain, rtodo, rcur, rsnap, rcols>>

\* recover_stale raised (a deadlock the database resolved, a lost connection)
\* or its process died: the transaction rolls back.
RecoverAborts(r) ==
  /\ Disturbances \cap {"raise", "crash"} # {}
  /\ rpc[r] # "idle"
  /\ rpc' = [rpc EXCEPT ![r] = "idle"]
  /\ rtodo' = [rtodo EXCEPT ![r] = {}]
  /\ rcur' = [rcur EXCEPT ![r] = 0]
  /\ rsnap' = [rsnap EXCEPT ![r] = NoRow]
  /\ rcols' = [rcols EXCEPT ![r] = {}]
  /\ rheld' = [rheld EXCEPT ![r] = {}]
  /\ UNCHANGED <<taskVars, workVars, heartbeat, drain>>

------------------------------------------------------------------------------
\* The API moves the mission out of EXECUTING and back (RECOVERING, BLOCKED).
MissionToggles ==
  /\ "pause" \in Disturbances
  /\ executing' = ~executing
  /\ UNCHANGED <<task, claims, wstatus, workVars, heartbeat, drain, recVars>>

WorkerStep(w) ==
  \/ Register(w) \/ Poll(w)
  \/ \E t \in Tasks : ClaimTask(w, t) \/ LoseCandidate(w, t)
  \/ RunReturns(w)
  \/ \E ok \in BOOLEAN : RunEnds(w, ok) \/ Verify(w, ok)
  \/ Rereads(w) \/ RunSettles(w) \/ ExecutionRaises(w) \/ StillOwner(w) \/ LostOwnership(w)
  \/ CompleteReads(w) \/ CompleteWrites(w) \/ FailReads(w) \/ FailWrites(w)
  \/ FailRaises(w) \/ EndExecution(w) \/ Exit(w)

HeartbeatStep(w) == HeartbeatReads(w) \/ HeartbeatWrites(w) \/ HeartbeatDies(w)

ShutdownStep(w) == Shutdown(w) \/ ReleaseLease(w) \/ MarkStopped(w)

RecoverStep(r) ==
  \/ RecoverStarts(r) \/ RecoverGivesUp(r) \/ RecoverRereads(r) \/ RecoverRequeues(r)
  \/ RecoverEnds(r) \/ RecoverAborts(r)
  \/ \E e \in ClaimIds : RecoverSkips(r, e) \/ RecoverReads(r, e)

Next ==
  \/ \E w \in Workers : WorkerStep(w) \/ HeartbeatStep(w) \/ ShutdownStep(w) \/ Crash(w)
  \/ \E e \in ClaimIds : Expire(e)
  \/ \E r \in Recoverers : RecoverStep(r)
  \/ MissionToggles

Spec == Init /\ [][Next]_vars

\* The event loop keeps running each coroutine, a lease that nobody renews
\* expires, and, in a deployment that has recoverers, each of them is called
\* again and again.  Strong fairness for the workers: PostgreSQL grants a row
\* lock in the order of the requests, so a writer that keeps meeting recovery
\* passes gets its turn.
Fairness ==
  /\ \A w \in Workers : SF_vars(WorkerStep(w))
  /\ \A e \in 1..MaxClaims : WF_vars(Expire(e))
  /\ \A r \in Recoverers : WF_vars(RecoverStep(r))

FairSpec == Spec /\ Fairness

------------------------------------------------------------------------------
\* Every row, location and snapshot keeps its type; a claim's ids stay in the
\* table, and every claim has counted its attempt.
TypeOK ==
  /\ executing \in BOOLEAN
  /\ task \in [Tasks -> TaskRow]
  /\ claims \in Seq(Claim)
  /\ wstatus \in [Workers -> WorkerStatus \cup {"NONE"}]
  /\ pc \in [Workers -> Locations]
  /\ cur \in [Workers -> 0..Len(claims)]
  /\ cand \in [Workers -> SUBSET Tasks]
  /\ snap \in [Workers -> TaskRow]
  /\ cols \in [Workers -> SUBSET Columns]
  /\ verdict \in [Workers -> BOOLEAN]
  /\ heartbeat \in [Workers -> {"off", "asleep", "renewing"}]
  /\ drain \in [Workers -> {"no", "draining", "released", "stopped"}]
  /\ rpc \in [Recoverers -> {"idle", "scan", "update", "write"}]
  /\ rtodo \in [Recoverers -> SUBSET ClaimIds]
  /\ rcur \in [Recoverers -> 0..Len(claims)]
  /\ rsnap \in [Recoverers -> TaskRow]
  /\ rcols \in [Recoverers -> SUBSET Columns]
  /\ rheld \in [Recoverers -> SUBSET ClaimIds]

\* At the locations that speak of a claim there is one: the worker's main and
\* heartbeat coroutines and the recovery pass refer to rows that exist.
Linked ==
  /\ \A w \in Workers :
       pc[w] \in Executing \cup {"end"} \/ heartbeat[w] # "off" => cur[w] \in ClaimIds
  /\ \A r \in Recoverers : rpc[r] \in {"update", "write"} => rcur[r] \in ClaimIds

------------------------------------------------------------------------------
(* What the pool guarantees while nobody calls recover_stale.              *)

\* Worker w is between the commit of its claim of t and the commit of
\* _complete_task or _fail_task.
Executes(w, t) == pc[w] \in Executing /\ claims[cur[w]].task = t

\* e is the latest claim of its task.
Newest(e) == \A f \in ClaimIds : claims[f].task = claims[e].task => f <= e

\* Two workers never work on the same task: claim_task's row lock, and the
\* fact that only the claimant puts the task back into the queue.
SingleExecutor ==
  \A v, w \in Workers : \A t \in Tasks : Executes(v, t) /\ Executes(w, t) => v = w

\* attempt_count never loses a claim: the executions of a task carry distinct,
\* increasing attempt numbers, none above the task's count.
AttemptsCounted ==
  \A e \in ClaimIds :
    /\ claims[e].attempt <= task[claims[e].task].attempts
    /\ \A f \in ClaimIds : claims[f].task = claims[e].task /\ e < f
                            => claims[e].attempt < claims[f].attempt

\* When a task has been claimed again, the execution of every earlier claim
\* has been closed.
SupersededClosed ==
  \A e \in ClaimIds : ~Newest(e) => claims[e].status # "RUNNING"

\* A task is never queued without an attempt left, so a claim never takes
\* attempt_count past max_attempts, whoever fails or settles it meanwhile.
RetryBudget ==
  \A t \in Tasks : task[t].status = "QUEUED" => task[t].attempts < MaxAttempts

\* No interleaving of completions, failures and claims takes a task back out
\* of SUCCEEDED.
SuccessIsFinal ==
  [][\A t \in Tasks : task[t].status = "SUCCEEDED" => task'[t].status = "SUCCEEDED"]_vars

\* Where the runtime leaves the task's status to the coordinator, a task is
\* SUCCEEDED only with the execution of its latest claim SUCCEEDED too.
OutcomesAgree ==
  \A e \in ClaimIds :
    /\ Newest(e) /\ claims[e].worker \notin SettlingRuntimes
    /\ task[claims[e].task].status = "SUCCEEDED"
    => claims[e].status = "SUCCEEDED"

\* The pool implements the ownership promise: a worker owns the task it
\* executes.
Owners == [t \in Tasks |-> {w \in Workers : Executes(w, t)}]

Promise == INSTANCE TaskOwnership WITH owners <- Owners

KeepsPromise == Promise!Spec

------------------------------------------------------------------------------
(* What survives recovery passes, stale workers and lost updates.          *)

\* A task goes back into the queue without an attempt left only by an UPDATE of
\* recovery or of _fail_task that a claim has overtaken: its transaction read
\* the row when the count still left an attempt, and leaves the count alone.
OverrunOvertaken ==
  [][\A t \in Tasks :
       /\ task[t].status # "QUEUED" /\ task'[t].status = "QUEUED"
       /\ task'[t].attempts >= MaxAttempts
       => \/ \E r \in Recoverers :
               /\ rpc[r] = "write" /\ rpc'[r] = "scan" /\ claims[rcur[r]].task = t
               /\ rsnap[r].attempts < task[t].attempts
          \/ \E w \in Workers :
               /\ pc[w] = "fWrite" /\ pc'[w] = "end" /\ claims[cur[w]].task = t
               /\ snap[w].attempts < task[t].attempts]_vars

\* A worker that ended its latest claim through _complete_task or _fail_task
\* has not left the task RUNNING: only a lost lease, an exception in
\* _fail_task or a crash can, and those leave an expired or expiring lease.
NoAbandonedRunning ==
  \A e \in ClaimIds :
    Newest(e) /\ task[claims[e].task].status = "RUNNING" => claims[e].left # "settled"

\* No more claims can be made within the bound of the model.
OutOfClaims == Len(claims) = MaxClaims

\* Somebody's recovery passes fail again and again, before their normal end.
RecoveryKeepsFailing ==
  []<><<\E r \in Recoverers : RecoverAborts(r) /\ ~RecoverEnds(r)>>_vars

\* With recovery passes being made, a queued task is worked on until it has
\* SUCCEEDED or FAILED for good, unless its attempts ran out under a lost
\* lease (recovery then leaves it RUNNING), no worker is left, or recovery
\* itself never stops failing.
QueuedTaskSettles ==
  \/ RecoveryKeepsFailing
  \/ \A t \in Tasks :
       task[t].status = "QUEUED" ~>
         \/ task[t].status = "SUCCEEDED"
         \/ task[t].attempts >= MaxAttempts /\ ~\E w \in Workers : Executes(w, t)
         \/ OutOfClaims /\ task[t].status = "QUEUED"
         \/ ~\E w \in Workers : Up(w)

------------------------------------------------------------------------------
(* What the repository says and the code does not do.                      *)

\* .opencode/context/conventions.md:27, "Lease ownership validated before
\* every state mutation": a worker whose lease is gone does not change the row
\* of a task that another worker is executing under a live lease.
StaleWorkerHandsOff ==
  [][\A w, v \in Workers : \A t \in Tasks :
       /\ w # v /\ Executes(w, t) /\ ~claims[cur[w]].live
       /\ Executes(v, t) /\ claims[cur[v]].live
       /\ pc'[w] # pc[w]
       => task'[t] = task[t]]_vars

\* worker_coordinator.py:448, "Requeue tasks whose leases expired": recovery
\* picks a running task with attempts left only if its latest lease is dead.
RecoveryNeedsExpiry ==
  [][\A r \in Recoverers : \A e \in ClaimIds :
       /\ rpc[r] = "scan" /\ rpc'[r] = "update"
       /\ claims[e].task = claims[rcur'[r]].task /\ Newest(e)
       /\ Requeuable(rsnap'[r])
       => ~claims[e].live]_vars
=============================================================================
