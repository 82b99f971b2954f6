----------------------------- MODULE SandboxedRun -----------------------------
(***************************************************************************)
(* A run of the coding agent whose commands execute in the local sandbox:  *)
(* execute_command (core/application/execution_service.py) looks at the    *)
(* environment, calls LocalSandbox.execute and records the result it gets, *)
(* and the tool gateway makes the tool call succeed with the command.      *)
(***************************************************************************)
EXTENDS AgentRun, LocalSandbox

sandboxedVars == <<runVars, sandboxVars>>

SandboxedInit == Init /\ SandboxInit

\* The environment is READY, and the sandbox is called.
CommandCalls ==
  /\ pc = "command" /\ envs[env]
  /\ Starts \/ \E status \in {"REJECTED", "FAILED"} : Refuses(status)
  /\ UNCHANGED runVars

\* The result is recorded, unless that raises; the tool call succeeds only if
\* the command SUCCEEDED.
CommandReturns ==
  /\ Delivers
  /\ CommandUnrecorded \/ \E noted \in BOOLEAN : CommandEnds(outcome = "SUCCEEDED", noted)

\* Everything else the run does, with no command in the sandbox.
RunStep ==
  \/ at = "idle" /\ pc = "command" /\ ~envs[env] /\ CommandUnrecorded
  \/ pc # "command" /\ AgentStep

RunGoesOn ==
  \/ CommandCalls \/ CommandReturns
  \/ RunStep /\ UNCHANGED sandboxVars

\* While execute waits, the agent's coroutine waits with it.
SandboxWaits == pc = "command" /\ Waits /\ UNCHANGED runVars

SandboxedNext ==
  \/ RunGoesOn \/ SandboxWaits
  \/ ProcessStep /\ UNCHANGED runVars
  \/ /\ \/ RunRaises
        \/ \E ready \in BOOLEAN : EnvironmentCreated(ready)
        \/ \E i \in DOMAIN envs : EnvironmentCleaned(i)
     /\ UNCHANGED sandboxVars

\* The event loop keeps running the coroutine, a timeout passes in the end, and
\* what communicate waits for is noticed.  Nothing is assumed of the command:
\* its processes may run for ever.
SandboxedSpec ==
  /\ SandboxedInit /\ [][SandboxedNext]_sandboxedVars
  /\ WF_sandboxedVars(RunGoesOn)
  /\ WF_sandboxedVars(SandboxWaits)

------------------------------------------------------------------------------
\* What the agent takes for a success is one: a command goes on record as
\* SUCCEEDED only when its main process has exited with code zero, unkilled, and
\* no process can add to the output any more.
RecordedSuccessReal ==
  [][\A k \in DOMAIN commands' \ DOMAIN commands :
       commands'[k].ok => Main \notin alive /\ code = "zero" /\ holders = {}]_sandboxedVars

\* Every run ends, whatever the model answers and the commands do: invalid
\* decisions, rejected tools, failed commands and failed verifications are
\* bounded by different counters, one of which is reset by a success.  The one
\* way to keep a run for ever is a process that has left its command's group
\* and holds the output pipe when the command times out.
RunEnds == <>(pc \in {"ended", "raised"}) \/ <>[]Escaped
=============================================================================
