# AURA: a TLA+ model of missions, tasks and workers

AURA takes a software engineering mission from a description to a merged pull
request. An HTTP API (FastAPI) moves the mission through a state machine, a
planner asks a language model for a plan, an orchestrator stores tasks and
their dependencies, a scheduler queues the tasks that are ready, and worker
processes claim them, run a coding agent in a git worktree, verify the result
and settle the task. Everything the parts share is rows of one PostgreSQL
database; there is no message queue and no in-memory state shared between
processes. The hard part is therefore not the message order but **which
transaction reads which version of which row, and what it writes back**.

Source paths below are relative to the repository; `wc` stands for
`core/application/worker_coordinator.py`.

## 1. Inventory

| Part | State | Operations | Hard behaviour | What makes it correct |
|---|---|---|---|---|
| **Worker coordinator** (`wc`, `apps/worker/main.py`) | `workers`, `tasks`, `task_executions`, `task_leases`; per process: current lease, running and draining flags, heartbeat coroutine | register, poll, claim, execute, heartbeat, assert ownership, complete, fail, shutdown, recover_stale | claims race; leases expire under running work; the ownership check and the write it protects are two transactions; SIGTERM during a claim; crash between claim and settlement; exception inside the error handler | at most one executor per task, attempts are counted and stay within the budget, success is final, queued work settles |
| **Agent runtime** (`core/application/agent_runtime.py`) | `agent_runs`, `tool_calls`, and again `tasks`, `task_executions` | decision loop, `_complete_run`, `_fail_run`, `_transition_task` | settles the task before the coordinator has verified the run, in a transaction of its own | settles only what it claimed; limits stop the loop |
| **Repositories, unit of work** (`core/infrastructure/database/repositories.py`) | all tables | `update()` by primary key (a second unlocked SELECT, then the changed columns), `claim_task` (FOR UPDATE SKIP LOCKED), `try_transition_status` (guarded UPDATE) | lost updates at READ COMMITTED | only the two guarded operations may be raced |
| **Task scheduler** (`core/application/task_scheduler.py`) | `tasks` | `schedule_ready_tasks` | overlapping passes with snapshots of different age, commits in the middle of a pass, deadlock of two passes | dependencies first; nothing a worker took is put back; a ready task is queued |
| **State machines** (`core/domain/*/state_machine.py`) | none | `transition`, `can_transition` | callers catch or ignore the exception differently | each caller's guard is the table |
| **Mission service and API** (`core/application/mission_service.py`, `apps/api/main.py`) | `missions`, `approvals`, `pull_requests` | create, transition, approve/reject, merge request/approve/reject, pull request | check and write are in different transactions; requests overlap and die in between | no gate is skipped, pull requests only for verified missions, a merge has its approval on record |
| **Planner** (`core/application/planner_agent.py`) | `plans` | generate, approve, reject | model calls between superseding and storing | one active plan |
| **Orchestrator, DAG** (`core/application/mission_orchestrator.py`, `core/domain/dag/validator.py`) | `tasks`, `task_dependencies` | add task, add dependency, validate | two requests that each validate their own snapshot | the graph stays acyclic |
| **Execution environments, orphan recovery** (`core/application/execution_service.py`, `orphan_recovery.py`) | `execution_environments`, worktrees on disk | create, execute, collect, clean up, recover orphans | row and directory are changed in separate steps; crash in between | a READY environment has its directory, there is one of them, and none comes back |
| **Verification** (`core/application/verification_engine.py`) | `verification_results` | run checks, combine the verdict | a check that errors; which environment is looked at | no pass over a failed command |
| **Coding agent, tool gateway** (`core/application/coding_agent.py`, `tool_gateway.py`) | `agent_runs`, `tool_calls`, `command_executions` | agent loop, verification and recovery, tool calls | limits counted in several places, a run verified more than once | the loop ends within its budgets, the row says what happens |
| **Local sandbox** (`core/infrastructure/execution/local_sandbox.py`) | processes, their group, the output pipes | execute, time out, kill the group, collect the output | a command's children outlive it, leave its group, keep its pipes open | output is complete, a timeout ends the group |
| **Context retrieval** (`core/application/rag/service.py`) | cache | search, deduplicate, rank, cut to the token budget, clear the cache | searches are awaited one by one while others read, fill and clear the cache | the budget of the role that asks, nothing better left out, no old result after a clear |
| GitHub, Forge, LLM clients, metrics, logging, migrations | none of their own | I/O | | |

`PROJECT.json` has a status for each and the hazards with their lines.

How they interact. The API is the only writer of `missions`. `wc` and the
scheduler read `missions.status` and do nothing unless it is `EXECUTING`. The
scheduler moves `tasks` from PENDING or BLOCKED to QUEUED; the workers take
them from QUEUED; the runtime and the coordinator both write the outcome; the
scheduler reads that outcome to decide about dependents. `recover_stale` and
`schedule_ready_tasks` have **no caller in the shipped program** (only tests
call them), so a model that takes them for granted would prove too much: here
their callers are the CONSTANTS `Recoverers` and `Schedulers`, and what is
claimed with and without them is kept apart.

## 2. Modules

| Module | Models | Role |
|---|---|---|
| `StateMachines` | the four `VALID_TRANSITIONS` tables in use | shared tables |
| `TaskOwnership` | what the pool promises about tasks | abstract specification |
| `WorkerCoordinator` | `wc`, the runtime's writes, the repositories' row semantics | core component |
| `WorkerCoordinatorProofs` | | proofs about it |
| `TaskScheduler` | `task_scheduler.py` | component |
| `MissionExecution` | scheduler and pool on the same task rows | composition |
| `MissionExecutionProofs` | | proofs about it |
| `TaskGraph` | `mission_orchestrator.py` behind the task and dependency endpoints | component |
| `TaskGraphProofs` | | proofs about it, `DagValidator` and `GrowingMission` |
| `DagValidator` | the depth-first search of `core/domain/dag/validator.py` | algorithm |
| `GrowingMission` | `TaskGraph`, `TaskScheduler`, the poll of `wc` and the pool as `TaskOwnership` | composition |
| `MissionLifecycle` | mission service, planner, the mission endpoints of the API | component |
| `MissionLifecycleProofs` | | proofs about it |
| `AgentRun` | `coding_agent.py`, the loop of `agent_runtime.py`, `tool_gateway.py`, the verdict of `verification_engine.py` | component |
| `LocalSandbox` | `local_sandbox.py` and the processes of a command | component |
| `SandboxedRun` | `AgentRun` whose commands run in `LocalSandbox` | composition |
| `AgentRunProofs` | | proofs about `LocalSandbox`, `AgentRun` and `SandboxedRun` |
| `ContextRetrieval` | `rag/service.py` | component |
| `ContextRetrievalProofs` | | proofs about it |
| `ExecutionEnvironments` | `execution_service.py`, `git_worktree.py`, `orphan_recovery.py` | component |
| `ExecutionEnvironmentsProofs` | | proofs about it |
| `RecursionLemmas` | | induction and recursion, for the proofs about computed values |
| `MC*` | | constants for TLC |

### Transactions and steps

PostgreSQL runs at its default READ COMMITTED. A service reads a row (`get`),
changes its copy and hands it to `update`, which **selects the row again, without
a lock**, sets the attributes, and flushes an UPDATE of only the columns whose new
value is not the one just selected (`repositories.py:236-247`). The second SELECT
finds what is committed by then: `get` keeps no reference to its model, and the
session's identity map holds unmodified models weakly. So a transaction that changes a task in
`WorkerCoordinator` is **three steps**: the read (`snap`, `rsnap`), the second
SELECT, which fixes the columns (`cols`, `rcols`, from `Differing`), and the UPDATE
with the commit, which `Merged` applies to the row as it is by then. Every other
actor may move between them, so that an UPDATE can combine the status of one
version with the count of another. `updated_at` always differs: an UPDATE is
always sent, and locks the row. `_fail_task` updates twice when it requeues; the
second time it finds the row that its first UPDATE has locked (`FailedColumns`).

In the other modules a change concerns one column (the status of a mission, a
plan or an approval, status and path of an environment, where only the creator
changes the path), and the second SELECT only decides whether it is sent. There a
transaction is two steps, the read and the write. A task's execution is read
and updated in one step: it has one writer while nobody recovers, and no property
claimed under recovery depends on its status.

A transaction that only reads, or that locks what it reads (`claim_task`), is one
step. Row locks that a transaction already holds are visible to others as
`RowHeld`, `ExecutionHeld`, `RowFree` and `rheld`: `claim_task` skips such rows,
everybody else waits. A transaction that raises, or whose process dies, leaves
nothing behind.

### WorkerCoordinator

* `claims[e]` is one TaskExecution together with its TaskLease: they are
  inserted in one transaction, refer to each other and are never deleted.
  `live` is "ACTIVE and not past `lease_expires_at`". `left` is a history
  field.
* `Expire(e)` is the wall clock. It may run at any time, so any timeout and any
  pause of a process are covered.
* `pc[w]` is the place of the worker's main coroutine; the locations follow
  `execute_claimed` in program order: `run`, `sUpdate`/`sWrite` (the runtime's own
  transaction, whose read is the end of `run`), `own1`, `verify`, `own2`, `own3` (the
  three calls of `_assert_ownership`), `cRead`/`cUpdate`/`cWrite` (`_complete_task`),
  `fRead`/`fUpdate`/`fWrite` (`_fail_task`). The heartbeat and the shutdown coroutine
  are `heartbeat[w]` and `drain[w]`.
* `SettlingRuntimes` are the workers whose runtime is
  `CodingAgentRuntime`, which writes tasks and executions itself. Other
  runtimes leave that to the coordinator.
* `Beating` are the workers whose `AURA_WORKER_HEARTBEAT_INTERVAL` is below the
  `AURA_WORKER_LEASE_TTL` (both are read from the environment, 30 s and 90 s by
  default, and nothing compares them). The heartbeat loop sleeps first: the other
  workers' first renewal finds the lease expired and ends the loop.
* Each element of `Workers` is one process. A restarted process registers a
  new row and is another element.
* `Disturbances` says what the environment may do: `raise` (any database or
  runtime call throws), `signal` (SIGTERM), `crash`, `pause` (the API moves
  the mission out of EXECUTING).
* `MaxClaims` bounds the claims of a behaviour; it is a guard of `ClaimTask`.

### TaskScheduler and MissionExecution

A pass reads all tasks and then all dependencies, in two statements; a
dependency may name a task that the first did not see (`ABSENT`), which blocks
the dependent like a failed parent does. Its updates are guarded by the status it
read, and become visible when a task is blocked (the code commits there) or at
the end of the pass. READY is overwritten by QUEUED in the same transaction and
is therefore never visible. `MissionExecution` runs `WorkerCoordinator` and
`TaskScheduler` on the same `task` and `executing`, with all tasks and
dependencies there from the start.

### TaskGraph, DagValidator and GrowingMission

`known` and `edges` are the rows of `tasks` and `task_dependencies`. An
`add_dependency` request is two steps, `RequestReads` with all its checks and
`RequestInserts`, because nothing locks the edges it has read; `overlapped` is
a history variable. The search itself is the constant `FindsCycle`, which
`GraphAssumption` asks to find exactly the cyclic graphs. `DagValidator` is the
code's search: `LookAt` is one turn of the loop of `is_cyclic`, `IsCyclic` a call
whose deeper calls are a parameter, `Search` ties the knot by the depth of the
calls, `StartAt` is one turn of the loop over the graph. Its loops and calls are
recursive functions and not operators, so that it is proved to meet
`GraphAssumption` (section 5). The run gives it to the constant and also compares it
with `Acyclic` on every list of up to four dependencies between three tasks.

`GrowingMission` puts scheduler passes and polls beside it. The pool is
`TaskOwnership` here, the promise that `WorkerCoordinator` is proved to keep,
because none of its internals matters to the graph; its polls have the reads of
`claim_next_task`, tasks first and dependencies second.

### LocalSandbox and SandboxedRun

`alive`, `group` and `holders` are the command's processes, those in the process
group that `start_new_session` made, and those that hold the write end of the
output pipes. `communicate` returns when the first process has exited and
`holders` is empty. What processes do (fork, `setsid`, close, exit) may happen
at any time and is never assumed to happen. `SandboxedRun` replaces the choice
of a command's result in `AgentRun` by the sandbox: the coroutine calls it when
the environment is READY and waits until it delivers; what it delivers may still
fail to be recorded.

### ContextRetrieval

The agents share one service. A search is a step, so that other agents fill and
clear the cache in between; its answer is a choice, and a search that raised
answers nothing. The contexts kept are computed as the code does: threshold,
first result of each path, stable sort, greedy fill, cut. Scores are in per
cent. `Ranked` states the stable sort by positions: the n-th context is the one that
n-1 others come before. `since`, `begun` and `overtaken` are history. No part of the program
constructs the service yet (`coding_agent.py` builds its context itself).

### MissionLifecycle

`job[c]` is the handler of the one request client `c` has in flight: the
transaction it stands before and what it has read. `Routes[c]` says which
endpoints the client calls, which is how assumptions such as "one planner at a
time" are stated. `seen` and `granted` are history variables.

### AgentRun

`run` is the AgentRun in the coroutine's memory, `row` what it has saved last;
`pc` is the place in `run()`. `engine` tells the two agents apart:
`CodingAgent` with a verification engine, and `CodingAgentRuntime` (or
`CodingAgent` without one), which completes as soon as the model says so. The
model's answers, the results of tools and commands, the policy's refusals and
the checks of the worktree are choices. `calls` are the `tool_calls` rows,
`commands` the `command_executions` of this run with the environment each ran in.
A command whose result could not be recorded, or whose environment was no longer
READY, raises inside `execute_command`; the gateway answers with a failed call
(`tool_gateway.py:345`) and no row (`CommandUnrecorded`).
Commands of the API in the same environment are left out: they can add failures
to what the verification finds, never remove one. The tasks and executions of
other workers are `WorkerCoordinator`'s business; here `execution` is the row of
this run.

### ExecutionEnvironments

The environments of **one** task execution, because that is what shares a
directory (`<root>/<mission>/<task>/<execution>`) and a branch
(`aura/task/<execution>`). `job[j]` is what a coroutine is doing, the row it
works on and its copy of it. `dir.marker` is the `.aura-environment` file. The
steps of an operation are its transactions, the `git worktree add`, the writing of
the marker and the `rmtree`. `gitRepo` is FALSE when the repository is not a git
repository and the manager falls back to `os.makedirs`; the properties are
claimed for git repositories (section 4 says why).

## 3. Runs

| Run | Question | Instance | Result |
|---|---|---|---|
| `worker_pool` | does the pool as shipped (no recovery) keep tasks exclusive, counted, within the retry budget and final, leave nothing RUNNING behind, and implement `TaskOwnership`? | 1 task, 2 workers (one settling), 3 attempts, 3 claims, all four disturbances | holds |
| `worker_recovery` | with crashes and recovery passes, is no task left RUNNING by an attempt that ended, does a queued task settle, and which writes alone queue a task without an attempt left? | 1 task, 2 workers, 2 attempts, 2 claims, one recoverer, crashes, timely heartbeats of one worker | holds |
| `mission_execution` | do overlapping passes and a worker keep the order of dependencies and the promise? | a task and its dependent, 2 passes, 1 worker, 3 claims | holds |
| `task_graph` | while the graph grows, does it stay free of cycles, are tasks taken in order, and does the mission drain? | 2 tasks, 2 clients, 1 scheduler, 1 worker, 2 attempts | holds |
| `mission_lifecycle` | do overlapping requests keep gates, pull requests, plans and merge approvals in order? | 2 clients, 2 approvals, 2 plans, 1 pull request | holds |
| `agent_run` | does a run keep its budgets, record what it does, agree with its execution, get complete output, end? | 4 iterations, 3 tool calls, 2 failures, 3 recoveries, 2 environments, 2 child processes | holds |
| `environments` | do overlapping creations, commands, cleanups and a sweep leave one READY environment with its directory? | 2 callers, 1 sweeper, 3 environments | holds |
| `context_retrieval` | do agents that share the cache get what fits their budget, the best of what was found, and nothing from before a clear? | 2 agents, 2 roles with one text, 2 clears, answers around every limit | holds |
| `retry_budget` | "retry (bounded) or FAILED" | 2 workers, 3 attempts, 3 claims, one recoverer, no disturbances | violated |
| `stale_worker` | "Lease ownership validated before every state mutation" | 2 workers, recovery | violated |
| `recovery_expiry` | "Requeue tasks whose leases expired" | 2 workers, 3 attempts, recovery | violated |
| `two_plans` | "A mission can only have one active plan" | 2 clients that generate | violated |

Why the bounds are enough to be interesting. One task is what two workers
compete for; the pool treats different tasks independently except for the
order of candidates and the dependencies, which `mission_execution` exercises
with two. Two claims are the first number at which a task is claimed *again*,
by the same or by another worker, while the first claimant is still
somewhere in its error path; two attempts are the first number at which
a retry exists and the last attempt is a different case from the first;
`worker_pool` has three of each, so that there is an attempt between the first and
the last, acted on by what was read before it. In
`recovery_expiry` the requeue has to leave an attempt, hence three, and in
`retry_budget` three claims bring the count to its limit under a pass that has read
the count before. In
`mission_execution` three claims allow a failed attempt of the parent, its
retry and the dependent. Two approvals are enough for an approval of each type
or two of one; two plans for superseding. In `agent_run` tool calls are fewer than
iterations and recoveries more than failures, so that every limit is the one
that ends some run; 3 recoveries are the code's own number. In `environments` two
callers can create at once, or one clean up under a command or a creation of the
other, and three rows allow a third environment after two of them. In
`task_graph` two tasks are enough for a dependency added before, between and
after the reads of a pass and a poll, for a parent that a pass has not read and
for a cycle of two requests; cycles of any length are the business of the proof
(section 5) and of the check of the search on three tasks. Three tasks, or two
workers, exceed what TLC does in minutes. Two child processes are a child that
stays in the group and one that leaves it. In `context_retrieval` the roles have
the same text, so that only the strategies keep their cache entries apart, and
the answers lie on both sides of the threshold, the budget and the smallest
cut; two clears are the first number at which a bundle may be older than the last
clear but one, and its key no longer among those the last clear overtook.

Every safety property of a passing run is also proved without bounds on the
instance, for the deployments that section 5 names; `worker_recovery` checks
`NoAbandonedRunning` and `OverrunOvertaken` with crashes only and with one worker in
`Beating` (every other run has all of them; the liveness check sets the limit here),
their theorems have all disturbances and any `Beating`.

Every run but `context_retrieval` says `CHECK_DEADLOCK FALSE`: workers exit,
crash or stop at the bound on claims, an agent's run ends, a mission is done, and
requests may stop coming. That somebody keeps moving where the code promises it
is what `QueuedTaskSettles`, `MissionDrains` and `RunEnds` check.

`OneActivePlan` and `MergeRecorded` hold for one planning client and one client
that resolves approvals. `two_plans` shows what happens to the first with two;
the second has the same limit, because `resolve_approval` does not ask whether
the approval is still PENDING: an approval that moved the mission to MERGED
can be turned into REJECTED by a second request that picked it before.

### Fairness

`FairSpec` assumes that the event loop runs every coroutine, that a lease
nobody renews expires, and that each recoverer, if the deployment has one, is
called again and again. Fairness is **strong** for a worker's main coroutine
because its writes wait for row locks that recovery passes take and release
again and again; PostgreSQL queues the waiters of a row lock in the order they
arrive, so a worker that waits is served. Nothing is assumed of shutdown
signals, crashes, heartbeats or the mission's pauses. `QueuedTaskSettles` excuses
a recoverer whose passes are rolled back, before their normal end, again and again.

`GrowingSpec` assumes that scheduler passes are made, that workers poll and let go
of what they have taken; clients owe nothing. It has one scheduler: two passes
that visit the same tasks in different orders (the query has no ORDER BY) deadlock
on the rows they have queued, the database rolls one back, and nothing in the
code keeps them from doing so again. `MissionDrains` counts a task whose owner
vanished, or that was given up, as lost: recovery is the business of
`QueuedTaskSettles`. Because nothing in the repository calls `recover_stale` or
`schedule_ready_tasks`, the two results are about a deployment that
adds a periodic caller; without one, a task whose worker dies stays RUNNING and
tasks stay PENDING for ever.

`SandboxedSpec` has weak fairness of the agent's steps and of the sandbox's wait:
the coroutine is scheduled, what it awaits answers, and a timeout passes. Nothing
is assumed of a command: its processes may run for ever. `RunEnds` therefore has
one exception, `Escaped`: a process that left the group survives the kill, and as
long as it holds the pipe the second `communicate` (`local_sandbox.py:197`),
which has no timeout, waits for it. The `git` and `grep` processes of the
verification, of `execute_command` and of the file tools have no timeout, and
`RunEnds` does not cover one that hangs. The runtime limit of the policy is only
looked at between two actions; nothing relies on it.
`LocalSandbox`, `TaskGraph` and `ContextRetrieval` on their own claim safety only.
`ExecutionEnvironments` assumes no fairness: nobody calls `recover_orphans`.

`QueuedTaskSettles` has one exception that is the code's own: recovery does not
requeue a task whose attempts are used up, and does not commit the failed
execution either, so the last attempt may leave a task RUNNING with a dead
lease. `NoAbandonedRunning` says that this takes a lost lease, an exception in
`_fail_task` or a crash, and never an attempt that ended normally.

## 4. What the code does not keep

* `retry_budget`: `recover_stale` decides on the row it has read and hands it to
  `update` (`wc:481`). A pass acts on the dead lease of an earlier attempt and reads
  (RUNNING, 2), twice; before its UPDATE the worker of the second attempt fails and
  commits (QUEUED, 2), and another claims, (RUNNING, 3). The UPDATE sets the status
  only and leaves (QUEUED, 3): with `max_attempts` 3 the next claim is one too many.
  `.opencode/context/architecture.md:93` promises a bounded retry. `RetryBudget` is
  therefore claimed for the pool without recoverers, and `OverrunOvertaken` says
  what is true with them: only an UPDATE of recovery or of `_fail_task` that a claim
  has overtaken can do it.
* `stale_worker`: `_fail_task` (`wc:555`) does not ask for the lease. A worker
  whose lease has been taken fails or requeues the task under its successor.
* `recovery_expiry`: `recover_stale` (`wc:451`) visits every expired or released
  lease, those of finished attempts included, and requeues the task if it is
  RUNNING, although its newest lease may be alive. This is why `SingleExecutor`
  is claimed only without recoverers.
* `two_plans`: two overlapping `generate_plan` requests both store a VALIDATED
  plan (`planner_agent.py:50`).

Met on the way and not a run of their own: `CodingAgentRuntime._complete_run`
moves the task to SUCCEEDED before verification (`agent_runtime.py:348`), although
`.opencode/context/conventions.md:37` says "Agent cannot declare itself successful";
when verification then fails, or `_complete_task` finds SUCCEEDED already, the
execution becomes FAILED under a SUCCEEDED task, so that `OutcomesAgree` speaks of the
workers with other runtimes only. Two `add_dependency` requests that
overlap validate against the edges they have read and can close a cycle, after
which its tasks wait for each other for ever, although
`docs/architecture/mission-engine.md:15` says that the validator "ensures the DAG
remains cycle-free" (`CycleFree` and `MissionDrains` name the case `overlapped`);
`POST /transition` reaches
APPROVED_FOR_EXECUTION and MERGED without any approval (`apps/api/main.py:146`),
so `GatesInOrder` speaks of statuses and `MergeRecorded` only of merges made by
an approval; a mission that was CANCELLED can be overwritten by a request that
had read it before; rejecting an approval of a PLANNED mission asks for
PLANNED -> BLOCKED, which the table does not have, so the rejection itself is
rolled back (`ResolveRaises`); `apps/worker/main.py` imports and calls the
coordinator with names and arguments it does not have, so the worker model
follows `WorkerCoordinator.run_forever` itself.

About runs of the agent: the checks of recorded commands take the first
environment of a query without an order (`verification_engine.py:311`, `:558`), so
with two environments, one of them perhaps FAILED and empty, failed commands of
the other go unseen; hence `Len(envs) = 1` in `FailuresStick`. Because commands
are never deleted, one failed command makes every later verification of the run
fail: the recovery attempts of `CodingAgent` cannot help, and repeating the
command successfully does not either. A warning leaves `success` TRUE under the
status INCONCLUSIVE. A run that fails before it was RUNNING has no transition to
FAILED and stays READY (`EndsAgree` names this case). `CodingAgent` itself is
constructed by tests only; the worker process uses `CodingAgentRuntime`. A command
that failed and whose row could not be written is a failed call that no
verification sees, so `FailuresStick` speaks of failed commands on record.

About the sandbox: "a timeout kills the whole tree" (`local_sandbox.py:173`) is
true of the process group only (`GroupKilled`), and children that outlive a
command which returned in time are never killed. What a killed command had written
before its timeout may be missing from the result, because the first `communicate`
is cancelled with what it has read.

About context retrieval: `_cache_ttl = 300  # 5 minutes` (`rag/service.py:117`) is
compared with the age of the *request* (`:127`), so an entry never expires; only
`clear_cache` removes it, and a retrieval that is running then writes its old
results back afterwards (`FreshAfterClear` names these keys). The results of a
search that failed are cached as empty ones. The key has the first 100 characters
of the text and neither the changed files nor the acceptance criteria, so two
reviews of different diffs of one task get the same bundle (a review's text starts
with the head of the diff). A file that changed has score 1.0 as a path result,
but keeps the score of an earlier search that found it, because the first result
of a path wins; `BestKept` speaks of these first scores. `get_dependencies` and
`get_git_history` are called with repository and file swapped
(`rag/service.py:248`, `:270` against
`forge/interfaces.py:135`, `:149`), so those searches find
nothing with the provider in the repository. "Run retrieval strategies in parallel"
(`:130`) is a sequence of awaits.

About environments: a crash while one is created leaves a CREATING row, and
perhaps a directory, for good, because the sweep takes CREATING for active. The
branch is never deleted, so after a failed or cleaned environment every further
creation for the same execution fails; this is also what keeps the directory with
one owner. `tests/unit/test_execution_idempotency.py` expects a new environment
after a FAILED one, with a mock in place of git. Without git the fallback lets two
creators share the directory, and cleaning one of them up takes it from the other:
`ReadyHasDirectory` and `OneReady` fail there. The worker never calls
`cleanup_environment`, although `docs/architecture/execution-boundary.md:17` says
that it runs once the task is completed or failed; only the API's DELETE does.

## 5. Proofs

All theorems hold for every value of the constants that satisfies
`CoordinatorAssumption` (sets and functions of the right kind, at least one
attempt), `LifecycleAssumption`, `RunAssumption`, `SandboxAssumption`,
`EnvironmentsAssumption` or `QueryAssumption`, which state no more than types and
that limits are numbers, or `GraphAssumption`: the tasks are finitely many, and
the search of the DAG validator finds exactly the cycles, which
`SearchFindsCycles` shows of the search in the code from the first part alone.

**WorkerCoordinatorProofs.**

* `TypeCorrect`, for any number of workers and recoverers. The inductive invariant
  is `IInv == TypeOK /\ Linked`: a step reads `claims[cur[w]]`, so `cur[w]` has to be
  a row. The type of a count is `Nat`, not a bound: with recoverers there is none.
* `Exclusive`, `SuccessKept`, `PromiseKept`, `BudgetKept` assume `Recoverers = {}`, the
  shipped program. The inductive invariant adds `Owned`: one executor per task, the task
  of an executor is RUNNING, SUCCEEDED or FAILED (hence not claimable), the
  copy of a transaction under way **is still the row**, and the columns it is going
  to set make of that row the one it wants (`Intended`). This
  is the heart of the matter: an UPDATE of some columns writes what was meant
  exactly because nobody else writes the row meanwhile (`OwnedRowWritten`). `ClaimsFixed`
  (a claim never changes its task, worker or attempt) is the step lemma they rest
  on. `PromiseKept` is the refinement: `Init` maps to the abstract `Init` and every
  step to `Acquire`, `Report`, `Release` or a stutter. `BudgetKept` needs `Owned`
  too: status and count come from one version only because the copy is the row.
* `OverrunsOvertaken`, with any recoverers and stale workers: a pass requeues only
  what its copy allows and a failing worker that wants nothing sets no column
  (`Justified`), so an UPDATE that queues a task has a copy with attempts left; if
  the row it leaves has none, the UPDATE has left the count alone and somebody has
  claimed the task since the copy was read (`OverrunMerged`).
* `NothingAbandoned`, with any recoverers: `SettlingInformed` adds that a worker about
  to fail or complete its newest claim has read RUNNING if the row is RUNNING, and that its
  UPDATE is going to set the status, which takes the task out of RUNNING; only a
  claim puts one in.
* `NoAttemptLost`, `OldClaimsClosed`, `TaskAndExecutionAgree` without recoverers, from
  `History`: an executor's claim is the newest of its task (`Holds`), and a queued
  task has no open execution (`QueuedClosed`), so that a claim supersedes closed
  ones only. Every other step either changes no row and no status or is one
  worker's that closes its execution (`StepSettles`), where `Owned` says that the
  snapshot it writes is still the row.

**MissionExecutionProofs** builds on the same invariants, without recoverers, for any
graph and any number of overlapping passes: `MissionTypeCorrect`,
`DependenciesRespected`, `MissionPromiseKept`. `DependenciesFirst` is not inductive,
because a pass acts on what it has read before and publishes it later. `PassInv`
says what stays true meanwhile: a success that a pass has read is final, and a row
it has queued but not committed still waits, its parents being done, and is held by
no other pass. Both sides need each other: the pool never touches a waiting row
(`PoolRows`), and a pass never touches one that a worker has anything to do with
(`PassRows`), so that `Owned` survives the passes and `PassInv` the workers.

**TaskGraphProofs**, for any tasks, clients and requests: `GraphTypeCorrect`, and
`GraphStaysAcyclic` from the invariant that every open request was validated
against edges that are still there (`RequestsValidated`); if they are all there
are, the insert leaves the graph acyclic by `GraphAssumption`, and if not, the
requests overlapped. `GrowingStaysAcyclic` states the second of `GrowingMission`, the
specification that the run checks.
There `WorkersKeepOrder` shows `TakenInOrder` for any number of workers and passes:
the successes a poll has read are final, since a pass moves only rows that it holds
and that still wait (`PassesHold`), and its dependencies, read last, include all
that were there when it began (`PollsKnow`). `GrowingKeepsPromise` is the refinement
of `TaskOwnership`: a pass writes BLOCKED or QUEUED, over a status that still waits
and hence has no owner (`PassWrites`), which is the abstract `Schedule`; polls and
workers move tasks as the abstract pool does by their definition.

`SearchFindsCycles`: for any list of dependencies between any finite set of tasks,
the depth-first search answers TRUE exactly when the graph has a cycle. What is easy
to get wrong there is that all starting points share one set of visited nodes. The
proof says what has been established about a node whose call has returned: nothing
leads out of the set of these nodes and no part of it is a loop (`Settled`), so that
skipping them later misses nothing. The other visited nodes are the stack, and each is
joined to the current node (`PathsTo`), so that an arrow back to one of them closes a
loop. `Correct(deps, call, k)` states this for calls with at most `k` unvisited nodes;
a call visits its node before it makes others, so their correctness is that for
`k - 1` (`CallCorrect`), and the turns of a loop preserve `Turned` (`TurnKeeps`) and
`Started` (`StartKeeps`).

**AgentRunProofs**. Of the sandbox, for any set of processes: `OutputComplete` and
`TimeoutKillsGroup`. The invariant adds that the exit code is known once the first
process has gone (`CodeKnown`). Both are inductive because the group and the holders
of the pipe only grow by a fork of a member.

Of the agent, for any policy and any number of environments: `RunTypeCorrect`,
`ToolCallsBounded`, `VerificationIsRecorded`, `RunAndExecutionAgree`,
`FailedCommandsStick`. `RunInv` adds how far memory, row and the calls on record may
be apart at each place (`Counted`), the status that goes with it (`StatusAt`), and
that a verification which has found nothing bad has looked at every command while
there is one environment (`CommandsSeen`). The last is what fails with a second
environment.

Of both together: `SuccessesReal`. What the agent records as SUCCEEDED, and what its
verification relies on later, is a command whose main process has exited with code
zero and to whose output nobody can add. It needs the sandbox's invariant at the
moment the agent takes the result over: the coroutine waits for a result that the
sandbox has fixed earlier, and no process may come back in between.

**MissionLifecycleProofs**, for any number of clients on any endpoints.

* `LifecycleTyped`.
* `NoGateSkipped`, `PRsOnlyAfterVerification` from `RoadInv`: the gates behind
  the current status have been seen, and so have the gates behind whatever
  status a request *is about to write*. The second half is needed because the
  write is blind: by then the mission may be somewhere else, and only what was
  true when the request read it, and can never become false, counts. Its lemma
  `LegalMovesAreAhead` is a fact about the transition table.
* `OnePlannerOnePlan`, if one client alone calls `generate_plan` (`OnlyFor`): between
  its transactions it knows every current plan, because reviews of others only take
  plans out (`PlanInv`). `MergeOnRecord`, if one client alone calls the endpoints that
  ask for or resolve approvals: the approval it has picked is still PENDING
  (`MergeInv`), so it is not the one that was granted before. Without these
  assumptions neither holds (section 3).

**ExecutionEnvironmentsProofs**, for any number of callers, sweepers and
environments, under `EnvironmentsAssumption` (callers are not sweepers, the bound
is a number). `EnvInv` is `EnvTypeOK /\ Lifecycle /\ Ownership`.

* `FinishedForGood`, `EnvironmentsTyped` from `Lifecycle`: a row is CREATING as
  long as its creator may still publish it, and meanwhile nobody else may write
  it. Late writes of old copies are harmless because no other copy is READY.
* `ReadyKeepsDirectory`, `AtMostOneReady`, `CommandsAtHome` from `Ownership`: at
  most one environment *owns* the directory, where owning includes being named by
  the marker, having the path in any copy, and being the target of a sweep under
  way; and whoever removes the directory works on its owner, whose row says by
  then that it is given up. Both parts rest on the branch, which makes the second
  `git worktree add` fail for ever.

**ContextRetrievalProofs**, for any agents, queries and answers of the searches, and
any number of clears. `RetrievalInv` says where a bundle and an entry can come from:
a caller that waits knows what it waits for (`Waiting`), every entry fits every role
that may read it (`CacheFits`), ages never exceed the number of clears, and an entry
or a retrieval that is older than the last clear belongs to an overtaken key (`Ages`);
a bundle that was not read from the cache is what its results make (`BundlesMade`).

* `BudgetsKept`: an entry is shared by all queries with its key. `KeysKnowBudgets` is
  what makes that harmless: no two roles have the same strategies, which are part of
  the key. It is a fact about the table of roles, and would fail with a further role
  that searches as another one does for a smaller budget.
* `BestHandedOut`: ranks are a bijection between the positions and the results kept
  (`RankStrict`, `RanksTaken`), so the list is the results kept, best first
  (`RankedLists`, `RankedBestFirst`); and what fits begins that list, with at most
  its last context cut (`FittingIsPrefix`, `FittingBeginsRanking`).
* `ClearIsHonoured`: only the keys whose retrieval was running at the *last* clear can
  answer with older results. The bundle itself has to be as young as that clear: one
  handed out between two clears is old by the second and its key need not be overtaken.

**RecursionLemmas** is what the two modules share about computed values. The theorems on
induction of the library have an operator for a parameter, which the provers cannot
instantiate. Here a statement about numbers is the set of the numbers it holds of
(`Numbers`, from the least element of the rest), and a recursion is a function
of its steps (`RecursionExists`), which is how the sum in `Tokens` and the loops and
calls of the search are known to be what their equations say.

Only model-checked: the three liveness properties `QueuedTaskSettles`, `MissionDrains`
and `RunEnds`; liveness under fairness and ENABLED are outside what is proved here.

## 6. Not modelled

The mapping of columns and JSON, HTTP status codes, authentication, logging and
metrics; the checks of paths and arguments in the sandbox (a choice of REJECTED),
redaction and the cut of its output; the extraction of symbols and the content of
contexts; the artifact collector; the GitHub, Forge and
LLM clients, whose answers are nondeterministic choices where a modelled part
depends on them. The webhook handlers call methods that the service does not
have and change nothing. `CANCELLED` tasks do not occur: no code path writes
that status. `worker.status` BUSY is written at a worker's first claim only and
never reset, as in the code; nothing decides on it.

## 7. Plan

Done: the pool, its recovery, the scheduler, the task graph, their compositions, the
mission lifecycle, the agent's run with its sandbox, the execution environments and
context retrieval.

Left:

1. The recovery attempts of `worker_recovery` with two recoverers, which TLC does not
   finish in minutes, for `QueuedTaskSettles`.
2. The artifact collector, and the file tools of the gateway on the worktree.
