------------------------------ MODULE AgentRun ------------------------------
(***************************************************************************)
(* One run of the coding agent on a claimed task: the loops of             *)
(* core/application/coding_agent.py (with a verification engine) and       *)
(* core/application/agent_runtime.py (without), the tool calls of          *)
(* core/application/tool_gateway.py, the commands they leave behind and    *)
(* the verdict core/application/verification_engine.py makes of them.      *)
(*                                                                         *)
(* The loop works on an AgentRun in memory (run) and saves it now and then *)
(* (row); each step ends with at most one commit.  Meanwhile the API may   *)
(* clean up or create environments of the same task execution.             *)
(***************************************************************************)
EXTENDS StateMachines, Naturals, Sequences

CONSTANTS
  MaxIterations, MaxToolCalls, MaxFailedActions,  \* AgentPolicy
  MaxRecoveries,                                  \* CodingAgent.max_recovery_attempts
  MaxEnvs                                         \* bound: environments ever made

ASSUME RunAssumption ==
  /\ MaxIterations \in Nat /\ MaxToolCalls \in Nat
  /\ MaxFailedActions \in Nat /\ MaxRecoveries \in Nat
  /\ MaxEnvs \in Nat \ {0}

VARIABLES
  engine,      \* the runtime has a verification engine
  pc,          \* where run() stands
  run,         \* the AgentRun in memory
  row,         \* its agent_runs row
  failures,    \* consecutive_failures
  recoveries,  \* recovery_attempts
  calls,       \* status of each tool_calls row of the run
  envs,        \* execution_environments rows of the execution: READY or not
  env,         \* the environment the current command runs in
  commands,    \* command_executions rows of the run
  bad,         \* the verification in progress has a failed check
  verdict,     \* the latest verification_results row
  execution    \* task_executions.status

loopVars == <<run, row, failures, recoveries>>
checkVars == <<bad, verdict>>
runVars == <<engine, pc, run, row, failures, recoveries, calls, envs, env, commands,
             bad, verdict, execution>>

\* What the agent-run repository stores of a run.
Run == [status: RunStatus, iterations: Nat, calls: Nat]

CallStatus == {"ALLOWED", "REJECTED", "RUNNING", "COMPLETED", "FAILED"}

Verdicts == {"NONE", "INCONCLUSIVE", "PASSED", "FAILED", "BLOCKED"}

\* Locations in the order of the loop.
Loop == {"top", "decide", "gate", "tool", "command", "account"}
Verification == {"checkTests", "checkFailures", "conclude", "judge"}
Closing == {"complete", "fail"}
Places == {"start", "created", "verify", "ended", "raised"}
          \cup Loop \cup Verification \cup Closing

Init ==
  /\ engine \in BOOLEAN
  /\ pc = "start"
  /\ run = [status |-> "CREATED", iterations |-> 0, calls |-> 0] /\ row = run
  /\ failures = 0 /\ recoveries = 0
  /\ calls = << >> /\ commands = << >>
  /\ envs = <<TRUE>> /\ env = 0  \* the coordinator creates one before the run
  /\ bad = FALSE /\ verdict = [status |-> "NONE", success |-> FALSE]
  /\ execution = "RUNNING"

\* The run in memory after a transition that the state machine may refuse.
Moved(r, status) == IF RunCanMove(r.status, status) THEN [r EXCEPT !.status = status] ELSE r

Save(r) == run' = r /\ row' = r

------------------------------------------------------------------------------
(* The head of the loop.                                                   *)

\* The row is inserted CREATED and then updated to READY.
Create ==
  /\ pc = "start"
  /\ pc' = "created"
  /\ run' = Moved(run, "READY")
  /\ UNCHANGED <<engine, row, failures, recoveries, calls, envs, env, commands,
                 checkVars, execution>>

MakeReady ==
  /\ pc = "created"
  /\ pc' = "top"
  /\ Save(run)
  /\ UNCHANGED <<engine, failures, recoveries, calls, envs, env, commands,
                 checkVars, execution>>

\* AgentPolicy.check_limits, and an off-by-one variant.
LimitsExceeded(r) == r.iterations > MaxIterations \/ r.calls > MaxToolCalls
LimitsReached(r) == r.iterations >= MaxIterations \/ r.calls >= MaxToolCalls

\* The runtime limit, which may pass at any time, or the policy's limits.
StopsAtTop ==
  /\ pc = "top"
  /\ pc' = "fail"
  /\ UNCHANGED <<engine, loopVars, calls, envs, env, commands, checkVars, execution>>

\* Only a READY run becomes RUNNING: after a failed verification the loop goes
\* on with a run that is still VERIFYING.
Proceed ==
  /\ pc = "top" /\ ~LimitsReached(run)
  /\ pc' = "decide"
  /\ IF run.status = "READY" THEN Save(Moved(run, "RUNNING")) ELSE UNCHANGED <<run, row>>
  /\ UNCHANGED <<engine, failures, recoveries, calls, envs, env, commands,
                 checkVars, execution>>

------------------------------------------------------------------------------
(* The model's decision.                                                   *)

\* No answer, or one that is not an AgentDecision.
NoDecision ==
  /\ pc = "decide"
  /\ pc' = "fail"
  /\ UNCHANGED <<engine, loopVars, calls, envs, env, commands, checkVars, execution>>

TooManyFailures == failures' >= MaxFailedActions

\* An unknown action type costs no iteration, only a failure.
InvalidDecision ==
  /\ pc = "decide"
  /\ failures' = failures + 1
  /\ pc' = IF TooManyFailures THEN "fail" ELSE "top"
  /\ Save(run)
  /\ UNCHANGED <<engine, recoveries, calls, envs, env, commands, checkVars, execution>>

\* The row _enter_verifying leaves; the variant does not save the run.
VerifyingRowUnsaved(r) == row
VerifyingRow(r) == r

\* FINISH_TASK.  _enter_verifying saves the run unless it is VERIFYING already.
Finish ==
  /\ pc = "decide"
  /\ IF engine
     THEN /\ pc' = "verify"
          /\ run' = Moved(run, "VERIFYING")
          /\ row' = IF RunCanMove(run.status, "VERIFYING") THEN VerifyingRow(run') ELSE row
     ELSE pc' = "complete" /\ UNCHANGED <<run, row>>
  /\ UNCHANGED <<engine, failures, recoveries, calls, envs, env, commands,
                 checkVars, execution>>

------------------------------------------------------------------------------
(* ToolGatewayImpl.execute_tool.  Its own check of the limits and of the   *)
(* tool's name cannot fail here: the loop has just made both.              *)

\* A capability the policy denies is recorded, too.
ToolRejected ==
  /\ pc = "decide"
  /\ calls' = Append(calls, "REJECTED")
  /\ pc' = "account"
  /\ UNCHANGED <<engine, loopVars, envs, env, commands, checkVars, execution>>

ToolAllowed ==
  /\ pc = "decide"
  /\ calls' = Append(calls, "ALLOWED")
  /\ pc' = "gate"
  /\ UNCHANGED <<engine, loopVars, envs, env, commands, checkVars, execution>>

ToolStarts ==
  /\ pc = "gate"
  /\ calls' = [calls EXCEPT ![Len(calls)] = "RUNNING"]
  /\ pc' = "tool"
  /\ UNCHANGED <<engine, loopVars, envs, env, commands, checkVars, execution>>

\* The status of a call that has returned ok or not, exceptions included.
Returned(ok) == IF ok THEN "COMPLETED" ELSE "FAILED"

\* A tool that runs no command, or one that finds no READY environment.
ToolReturns(ok) ==
  /\ pc = "tool"
  /\ calls' = [calls EXCEPT ![Len(calls)] = Returned(ok)]
  /\ pc' = "account"
  /\ UNCHANGED <<engine, loopVars, envs, env, commands, checkVars, execution>>

\* RUN_COMMAND and RUN_TESTS take the newest READY environment.
NewestReady(i) == i \in DOMAIN envs /\ envs[i] /\ \A j \in i + 1..Len(envs) : ~envs[j]

CommandStarts(i) ==
  /\ pc = "tool" /\ NewestReady(i)
  /\ env' = i
  /\ pc' = "command"
  /\ UNCHANGED <<engine, loopVars, calls, envs, commands, checkVars, execution>>

\* execute_command has run the command and records its result, which decides
\* the call unless writing the call's row raises.
CommandEnds(ok, noted) ==
  /\ pc = "command"
  /\ noted => ok
  /\ commands' = Append(commands, [env |-> env, ok |-> ok])
  /\ calls' = [calls EXCEPT ![Len(calls)] = Returned(noted)]
  /\ env' = 0
  /\ pc' = "account"
  /\ UNCHANGED <<engine, loopVars, envs, checkVars, execution>>

\* execute_command raises: it looks at the environment once more and finds it
\* not READY, or cannot record the result.  The gateway makes a failed call of
\* that, and the command leaves no row.
CommandUnrecorded ==
  /\ pc = "command"
  /\ calls' = [calls EXCEPT ![Len(calls)] = "FAILED"]
  /\ env' = 0
  /\ pc' = "account"
  /\ UNCHANGED <<engine, loopVars, envs, commands, checkVars, execution>>

\* The counters of the loop; a run that has failed too often is not saved
\* here but by _fail_run.
Account ==
  LET ok == calls[Len(calls)] = "COMPLETED"
      counted == [run EXCEPT !.iterations = @ + 1, !.calls = @ + 1]
  IN /\ pc = "account"
     /\ failures' = IF ok THEN 0 ELSE failures + 1
     /\ IF ~ok /\ TooManyFailures
        THEN pc' = "fail" /\ run' = counted /\ UNCHANGED row
        ELSE pc' = "top" /\ Save(counted)
     /\ UNCHANGED <<engine, recoveries, calls, envs, env, commands, checkVars, execution>>

------------------------------------------------------------------------------
(* VerificationEngine.verify and what CodingAgent does with it.            *)

VerificationStarts ==
  /\ pc = "verify"
  /\ verdict' = [status |-> "INCONCLUSIVE", success |-> FALSE]
  /\ bad' = FALSE
  /\ pc' = "checkTests"
  /\ UNCHANGED <<engine, loopVars, calls, envs, env, commands, execution>>

\* The checks of the commands look at envs[0], of a query without an order.  A
\* command that has not SUCCEEDED fails the check; the test check asks the same
\* of the commands whose output mentions tests.
FailedIn(i) == \E k \in DOMAIN commands : commands[k].env = i /\ ~commands[k].ok

CheckTests(i, mentioned) ==
  /\ pc = "checkTests" /\ i \in DOMAIN envs
  /\ mentioned => DOMAIN commands # {}
  /\ bad' = (mentioned /\ FailedIn(i))
  /\ pc' = "checkFailures"
  /\ UNCHANGED <<engine, loopVars, calls, envs, env, commands, verdict, execution>>

\* _check_execution_failures; the variant trusts the tests.
FailuresFoundByTests(i) == FALSE
FailuresFound(i) == FailedIn(i)

CheckFailures(i) ==
  /\ pc = "checkFailures" /\ i \in DOMAIN envs
  /\ bad' = (bad \/ FailuresFound(i))
  /\ pc' = "conclude"
  /\ UNCHANGED <<engine, loopVars, calls, envs, env, commands, verdict, execution>>

\* What the checks of the worktree add to those of the commands: nothing or a
\* failure, and a warning when protected paths have changed.
GitChecks == {"PASSED", "FAILED"}
WorktreeChecks == GitChecks \cup {"WARNING"}

\* A warning leaves success TRUE with status INCONCLUSIVE.
Conclude(others) ==
  /\ pc = "conclude"
  /\ verdict' = IF bad \/ others = "FAILED" THEN [status |-> "FAILED", success |-> FALSE]
                ELSE IF others = "WARNING" THEN [status |-> "INCONCLUSIVE", success |-> TRUE]
                ELSE [status |-> "PASSED", success |-> TRUE]
  /\ pc' = "judge"
  /\ UNCHANGED <<engine, loopVars, calls, envs, env, commands, bad, execution>>

\* verify catches what a check or its row raises.
VerificationErrs ==
  /\ pc \in {"checkTests", "checkFailures", "conclude"}
  /\ verdict' = [status |-> "BLOCKED", success |-> FALSE]
  /\ pc' = "judge"
  /\ UNCHANGED <<engine, loopVars, calls, envs, env, commands, bad, execution>>

\* recovery_attempts < max_recovery_attempts, and an off-by-one variant.
MayRecoverOnceMore(n) == n <= MaxRecoveries
MayRecover(n) == n < MaxRecoveries

\* recovery_attempts after a failed verification; the variant forgets it.
RecoveriesForgotten(n) == n
RecoveriesAfter(n) == n + 1

Passes ==
  /\ pc = "judge" /\ verdict.success
  /\ pc' = "complete"
  /\ UNCHANGED <<engine, loopVars, calls, envs, env, commands, checkVars, execution>>

Recovers ==
  /\ pc = "judge" /\ ~verdict.success /\ MayRecover(recoveries)
  /\ recoveries' = RecoveriesAfter(recoveries)
  /\ Save(run)
  /\ pc' = "top"
  /\ UNCHANGED <<engine, failures, calls, envs, env, commands, checkVars, execution>>

GivesUp ==
  /\ pc = "judge" /\ ~verdict.success /\ ~MayRecover(recoveries)
  /\ pc' = "fail"
  /\ UNCHANGED <<engine, loopVars, calls, envs, env, commands, checkVars, execution>>

------------------------------------------------------------------------------
(* The end of the run.                                                     *)

\* _complete_run tries COMPLETED directly and then through VERIFYING.
Completed(r) ==
  IF RunCanMove(r.status, "COMPLETED") THEN Moved(r, "COMPLETED")
  ELSE Moved(Moved(r, "VERIFYING"), "COMPLETED")

CompleteRun ==
  /\ pc = "complete"
  /\ Save(Completed(run))
  /\ execution' = "SUCCEEDED"
  /\ pc' = "ended"
  /\ UNCHANGED <<engine, failures, recoveries, calls, envs, env, commands, checkVars>>

\* _fail_run on a run that never became RUNNING leaves it READY.
FailRun ==
  /\ pc = "fail"
  /\ Save(Moved(run, "FAILED"))
  /\ execution' = "FAILED"
  /\ pc' = "ended"
  /\ UNCHANGED <<engine, failures, recoveries, calls, envs, env, commands, checkVars>>

\* A database call of the loop, or one of the gateway outside the try around
\* the tool, raises out of run(); or the process dies.
RunRaises ==
  /\ pc \notin {"ended", "raised"}
  /\ pc' = "raised"
  /\ UNCHANGED <<engine, loopVars, calls, envs, env, commands, checkVars, execution>>

------------------------------------------------------------------------------
\* DELETE /environments/{id} takes an environment away, POST
\* .../environment makes a new one, READY or FAILED, when none is READY.
EnvironmentCleaned(i) ==
  /\ i \in DOMAIN envs /\ envs[i]
  /\ envs' = [envs EXCEPT ![i] = FALSE]
  /\ UNCHANGED <<engine, pc, loopVars, calls, env, commands, checkVars, execution>>

EnvironmentCreated(ready) ==
  /\ \A i \in DOMAIN envs : ~envs[i]
  /\ Len(envs) < MaxEnvs
  /\ envs' = Append(envs, ready)
  /\ UNCHANGED <<engine, pc, loopVars, calls, env, commands, checkVars, execution>>

AgentStep ==
  \/ Create \/ MakeReady \/ StopsAtTop \/ Proceed
  \/ NoDecision \/ InvalidDecision \/ Finish
  \/ ToolRejected \/ ToolAllowed \/ ToolStarts \/ CommandUnrecorded \/ Account
  \/ \E ok \in BOOLEAN :
       ToolReturns(ok) \/ \E noted \in BOOLEAN : CommandEnds(ok, noted)
  \/ VerificationStarts \/ VerificationErrs \/ Passes \/ Recovers \/ GivesUp
  \/ \E i \in DOMAIN envs :
       \/ CommandStarts(i) \/ CheckFailures(i)
       \/ \E mentioned \in BOOLEAN : CheckTests(i, mentioned)
  \/ \E others \in WorktreeChecks : Conclude(others)
  \/ CompleteRun \/ FailRun

Next ==
  \/ AgentStep \/ RunRaises
  \/ \E ready \in BOOLEAN : EnvironmentCreated(ready)
  \/ \E i \in DOMAIN envs : EnvironmentCleaned(i)

Spec == Init /\ [][Next]_runVars

------------------------------------------------------------------------------
\* The run, its row and what hangs on them keep their types, and a call that
\* is being made has a row.
RunTypeOK ==
  /\ engine \in BOOLEAN /\ pc \in Places
  /\ run \in Run /\ row \in Run
  /\ failures \in Nat /\ recoveries \in 0..MaxRecoveries
  /\ calls \in Seq(CallStatus)
  /\ envs \in Seq(BOOLEAN) /\ env \in 0..Len(envs)
  /\ commands \in Seq([env: 1..MaxEnvs, ok: BOOLEAN])
  /\ bad \in BOOLEAN /\ verdict \in [status: Verdicts, success: BOOLEAN]
  /\ execution \in ExecutionStatus
  /\ pc \in {"gate", "tool", "command", "account"} => Len(calls) > 0
  /\ pc = "command" => env > 0

\* coding_agent.py:429, "Verification must never execute while the recorded
\* state still claims the agent is RUNNING", after recoveries too.
VerifyingRecorded == pc \in Verification => row.status = "VERIFYING"

\* The policy's limits bound the tool calls on record, rejected ones included,
\* although the loop counts them only after they have been made.
ToolBudget ==
  /\ Len(calls) <= MaxIterations /\ Len(calls) <= MaxToolCalls
  /\ row.calls <= Len(calls) /\ Len(calls) <= row.calls + 1

\* When the run has ended, its row and the execution tell the same story: the
\* only run that fails without a FAILED row is one that never started.
EndsAgree ==
  pc = "ended" =>
    /\ execution = "SUCCEEDED" <=> row.status = "COMPLETED"
    /\ execution = "FAILED" <=> row.status \in {"FAILED", "READY"}

\* With a verification engine a run with a failed command on record never makes
\* its execution SUCCEEDED, whatever the model answers and however often it
\* tries again, as long as the execution has had one environment.
FailuresStick ==
  engine /\ Len(envs) = 1 /\ execution = "SUCCEEDED" =>
    \A k \in DOMAIN commands : commands[k].ok
=============================================================================
