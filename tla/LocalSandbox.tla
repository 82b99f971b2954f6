----------------------------- MODULE LocalSandbox -----------------------------
(***************************************************************************)
(* The local sandbox, core/infrastructure/execution/local_sandbox.py: one  *)
(* call of execute, the process it starts in a session of its own and the  *)
(* processes that one starts in turn.                                      *)
(*                                                                         *)
(* execute waits in communicate for two things: that the process it        *)
(* started has exited and that nobody holds the write end of its output    *)
(* pipes any more.  A child inherits process group and pipes; it can leave *)
(* the group (setsid) and close the pipes on its own.  stdout and stderr   *)
(* are one pipe here, and their contents are left out.                     *)
(***************************************************************************)

CONSTANTS
  Main,         \* the process that execute starts
  Descendants   \* processes that may exist next to it

ASSUME SandboxAssumption == Main \notin Descendants

VARIABLES
  at,       \* where execute stands
  alive,    \* the command's processes that have not exited
  group,    \* those in the process group of Main
  holders,  \* those that hold the output pipe
  code,     \* exit code of Main: not known yet, zero or not zero
  outcome   \* CommandResult.status

sandboxVars == <<at, alive, group, holders, code, outcome>>
processVars == <<alive, group, holders, code>>

Processes == {Main} \cup Descendants

CommandStatus == {"REJECTED", "SUCCEEDED", "FAILED", "TIMED_OUT"}

SandboxInit ==
  /\ at = "idle"
  /\ alive = {} /\ group = {} /\ holders = {}
  /\ code = "none" /\ outcome = "NONE"

------------------------------------------------------------------------------
(* execute.                                                                *)

\* The executable is not allowed, or the working directory or an argument
\* leads out of the worktree; or create_subprocess_exec raises.
Refuses(status) ==
  /\ at = "idle"
  /\ at' = "done"
  /\ status \in {"REJECTED", "FAILED"} /\ outcome' = status
  /\ UNCHANGED processVars

\* start_new_session: Main leads a group of its own.
Starts ==
  /\ at = "idle"
  /\ at' = "waiting"
  /\ alive' = {Main} /\ group' = {Main} /\ holders' = {Main}
  /\ UNCHANGED <<code, outcome>>

\* communicate returns; the variant is wait, which asks only for the exit.
DrainedByExit == Main \notin alive
Drained == Main \notin alive /\ holders = {}

Returns ==
  /\ at = "waiting" /\ Drained
  /\ at' = "done"
  /\ outcome' = IF code = "zero" THEN "SUCCEEDED" ELSE "FAILED"
  /\ UNCHANGED processVars

\* Whom _kill_process_tree kills: the group; the variant only kills Main.
KilledAlone == {Main}
Killed == group

\* wait_for gives up, at whatever moment; Main is killed unless it has exited.
TimesOut ==
  /\ at = "waiting"
  /\ at' = "killed"
  /\ alive' = alive \ Killed
  /\ group' = group \ Killed
  /\ holders' = holders \ Killed
  /\ code' = IF Main \in alive THEN "nonzero" ELSE code
  /\ UNCHANGED outcome

\* The second communicate has no timeout.
Collects ==
  /\ at = "killed" /\ Drained
  /\ at' = "done"
  /\ outcome' = "TIMED_OUT"
  /\ UNCHANGED processVars

\* execute hands its result over; processes that survived are nobody's now.
Delivers ==
  /\ at = "done"
  /\ at' = "idle"
  /\ alive' = {} /\ group' = {} /\ holders' = {}
  /\ code' = "none" /\ outcome' = "NONE"

------------------------------------------------------------------------------
(* What the command's processes do, at any time after the start.           *)

\* The child inherits group and pipe.
Forks(p, q) ==
  /\ p \in alive /\ q \in Descendants \ alive
  /\ alive' = alive \cup {q}
  /\ group' = IF p \in group THEN group \cup {q} ELSE group
  /\ holders' = IF p \in holders THEN holders \cup {q} ELSE holders
  /\ UNCHANGED <<at, code, outcome>>

\* setsid, which the leader of a group cannot call.
Detaches(p) ==
  /\ p \in group \ {Main}
  /\ group' = group \ {p}
  /\ UNCHANGED <<at, alive, holders, code, outcome>>

ClosesOutput(p) ==
  /\ p \in holders
  /\ holders' = holders \ {p}
  /\ UNCHANGED <<at, alive, group, code, outcome>>

Exits(p, c) ==
  /\ p \in alive
  /\ alive' = alive \ {p} /\ group' = group \ {p} /\ holders' = holders \ {p}
  /\ code' = IF p = Main THEN c ELSE code
  /\ UNCHANGED <<at, outcome>>

ProcessStep ==
  \E p \in Processes :
    \/ Detaches(p) \/ ClosesOutput(p)
    \/ \E q \in Descendants : Forks(p, q)
    \/ \E c \in {"zero", "nonzero"} : Exits(p, c)

Waits == Returns \/ TimesOut \/ Collects

SandboxNext ==
  \/ \E status \in {"REJECTED", "FAILED"} : Refuses(status)
  \/ Starts \/ Waits \/ Delivers \/ ProcessStep

SandboxSpec == SandboxInit /\ [][SandboxNext]_sandboxVars

------------------------------------------------------------------------------
SandboxTypeOK ==
  /\ at \in {"idle", "waiting", "killed", "done"}
  /\ alive \in SUBSET Processes
  /\ group \in SUBSET alive /\ holders \in SUBSET alive
  /\ code \in {"none", "zero", "nonzero"}
  /\ outcome \in CommandStatus \cup {"NONE"}

\* execute hands over a result only when the command's output has ended: no
\* process, in the group or out of it, can still write to it, and a command
\* that SUCCEEDED was not killed.
OutputEnded ==
  at = "done" => holders = {} /\ (outcome = "SUCCEEDED" => Main \notin alive /\ code = "zero")

\* local_sandbox.py:172, "a timeout kills the whole tree, not just the direct
\* child": after a timeout only processes that have left the group are alive,
\* and what such processes start later does not come back into it.
GroupKilled ==
  at = "killed" \/ outcome = "TIMED_OUT" => group = {}

\* execute waits for a process that has left the group and keeps the output
\* pipe open: nothing kills it any more.
Escaped == at = "killed" /\ holders # {} /\ holders \cap group = {}
=============================================================================
