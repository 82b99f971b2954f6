----------------------- MODULE ExecutionEnvironments -----------------------
(***************************************************************************)
(* The execution environments of one task execution:                       *)
(* core/application/execution_service.py over the worktree manager of      *)
(* core/infrastructure/execution/git_worktree.py, and the sweep of         *)
(* core/application/orphan_recovery.py.  All environments of an execution  *)
(* share one directory, whose marker file names the environment that       *)
(* created it, and one branch, which nothing ever deletes.                 *)
(*                                                                         *)
(* Callers (API requests, a worker) create and clean up environments and   *)
(* run commands in them; sweepers remove what is left over.  Each keeps a  *)
(* copy of the row it works on and finally writes it back blindly.  Any of *)
(* them may die between two steps.                                         *)
(***************************************************************************)
EXTENDS Naturals, Sequences

CONSTANTS
  Callers,   \* coroutines inside ExecutionService
  Sweepers,  \* coroutines inside recover_orphans
  MaxEnvs    \* bound: rows ever inserted

ASSUME EnvironmentsAssumption == Callers \cap Sweepers = {} /\ MaxEnvs \in Nat

VARIABLES
  gitRepo,  \* the mission's repository is a git repository
  envs,     \* the execution_environments rows, oldest first
  dir,      \* the worktree directory and whom its marker names, 0 for nobody
  branch,   \* branch aura/task/<execution> exists
  job       \* what each coroutine is doing, on which row, with which copy

vars == <<gitRepo, envs, dir, branch, job>>

\* The part of EnvironmentStatus that is ever written.
EnvironmentStatus == {"CREATING", "READY", "FAILED", "CLEANING_UP", "DESTROYED"}

\* A row of the environment repository: its status and whether worktree_path is set.
Row == [status: EnvironmentStatus, path: BOOLEAN]

Created == [status |-> "CREATING", path |-> FALSE]

NoDir == [there |-> FALSE, marker |-> 0]

Steps == {"idle", "adding", "marking", "removing", "found", "sweeping", "running",
          "publishing"}

Idle == [at |-> "idle", env |-> 0, row |-> Created]

Init ==
  /\ gitRepo \in BOOLEAN
  /\ envs = << >> /\ dir = NoDir /\ branch = FALSE
  /\ job = [j \in Callers \cup Sweepers |-> Idle]

Is(j, step) == job[j].at = step

\* j goes on to step, holding row.
Goes(j, step, row) == job' = [job EXCEPT ![j].at = step, ![j].row = row]

Failed(row) == [row EXCEPT !.status = "FAILED"]

------------------------------------------------------------------------------
(* create_environment                                                      *)

\* With a READY environment the call returns it and changes nothing.  The read
\* and the insert are one transaction, and nobody acts on a row before its
\* creator has published it, so that they may be one step.
CreateBegins(c) ==
  /\ Is(c, "idle") /\ Len(envs) < MaxEnvs
  /\ \A i \in DOMAIN envs : envs[i].status # "READY"
  /\ envs' = Append(envs, Created)
  /\ job' = [job EXCEPT ![c] = [at |-> "adding", env |-> Len(envs) + 1, row |-> Created]]
  /\ UNCHANGED <<gitRepo, dir, branch>>

\* git worktree add -b wants a new branch and a new directory.  The variants
\* delete the branch with the worktree, and force the add.
CanAddAgain == ~dir.there
CanAddForced == TRUE
CanAdd == ~dir.there /\ ~branch

WorktreeAdds(c) ==
  /\ Is(c, "adding") /\ gitRepo /\ CanAdd
  /\ dir' = [there |-> TRUE, marker |-> 0]
  /\ branch' = TRUE
  /\ Goes(c, "marking", job[c].row)
  /\ UNCHANGED <<gitRepo, envs>>

\* Without a git repository: os.makedirs(worktree_path, exist_ok=True).
DirectoryMade(c) ==
  /\ Is(c, "adding") /\ ~gitRepo
  /\ dir' = [dir EXCEPT !.there = TRUE]
  /\ Goes(c, "marking", job[c].row)
  /\ UNCHANGED <<gitRepo, envs, branch>>

\* A failed add may leave the branch it has created.
WorktreeFails(c) ==
  /\ Is(c, "adding")
  /\ branch' \in {branch, gitRepo \/ branch}
  /\ Goes(c, "publishing", Failed(job[c].row))
  /\ UNCHANGED <<gitRepo, envs, dir>>

\* The copy of a provisioned environment; the variant loses the path.
ProvisionedNowhere == [status |-> "READY", path |-> FALSE]
Provisioned == [status |-> "READY", path |-> TRUE]

\* The marker is written after the directory has been made.
Marks(c) ==
  /\ Is(c, "marking") /\ dir.there
  /\ dir' = [dir EXCEPT !.marker = job[c].env]
  /\ Goes(c, "publishing", Provisioned)
  /\ UNCHANGED <<gitRepo, envs, branch>>

MarkFails(c) ==
  /\ Is(c, "marking")
  /\ Goes(c, "publishing", Failed(job[c].row))
  /\ UNCHANGED <<gitRepo, envs, dir, branch>>

\* The last transaction of every operation: repository.update selects the row
\* and sets the columns in which the copy differs, whatever has become of them.
\* That is the copy: only a creator changes the path, before anyone else knows
\* the row, and a status that is there already is set when it is selected.
Publishes(j) ==
  /\ Is(j, "publishing")
  /\ envs' = [envs EXCEPT ![job[j].env] = job[j].row]
  /\ job' = [job EXCEPT ![j] = Idle]
  /\ UNCHANGED <<gitRepo, dir, branch>>

------------------------------------------------------------------------------
(* cleanup_environment, for any environment whose id is known, in whatever *)
(* state it is: the id first leaves create_environment with its result.    *)

Known(i) == envs[i].status # "CREATING"

CleanupBegins(c, i) ==
  LET row == [envs[i] EXCEPT !.status = "CLEANING_UP"]
  IN /\ Is(c, "idle") /\ Known(i)
     /\ envs' = [envs EXCEPT ![i] = row]
     /\ job' = [job EXCEPT ![c] = [at |-> "removing", env |-> i, row |-> row]]
     /\ UNCHANGED <<gitRepo, dir, branch>>

\* What an rmtree that fails half-way leaves: the directory, perhaps unmarked.
Remains == {dir, [dir EXCEPT !.marker = 0]}

\* An environment without a path has nothing to remove.
CleanupRemoves(c) ==
  /\ Is(c, "removing")
  /\ dir' = IF job[c].row.path THEN NoDir ELSE dir
  /\ Goes(c, "publishing", [job[c].row EXCEPT !.status = "DESTROYED"])
  /\ UNCHANGED <<gitRepo, envs, branch>>

CleanupFails(c) ==
  /\ Is(c, "removing") /\ job[c].row.path /\ dir.there
  /\ dir' \in Remains
  /\ Goes(c, "publishing", Failed(job[c].row))
  /\ UNCHANGED <<gitRepo, envs, branch>>

------------------------------------------------------------------------------
(* execute_command looks at the row once and then runs in the directory.   *)

CommandBegins(c, i) ==
  /\ Is(c, "idle") /\ envs[i].status = "READY"
  /\ job' = [job EXCEPT ![c] = [at |-> "running", env |-> i, row |-> envs[i]]]
  /\ UNCHANGED <<gitRepo, envs, dir, branch>>

\* The result goes to command_executions (see AgentRun); the row stays.
CommandEnds(c) ==
  /\ Is(c, "running")
  /\ job' = [job EXCEPT ![c] = Idle]
  /\ UNCHANGED <<gitRepo, envs, dir, branch>>

------------------------------------------------------------------------------
(* recover_orphans on this directory.  A row is inserted before its marker *)
(* is written and never deleted: the marker's row is always found.         *)

\* A directory without a marker is left alone.
SweepFinds(s) ==
  /\ Is(s, "idle") /\ dir.there /\ dir.marker # 0
  /\ job' = [job EXCEPT ![s] = [at |-> "found", env |-> dir.marker, row |-> Created]]
  /\ UNCHANGED <<gitRepo, envs, dir, branch>>

\* The statuses of a finished environment; the variant takes every environment
\* that is not in use for finished.
OrphanStatusesAndCreating == {"CREATING", "DESTROYED", "FAILED"}
OrphanStatuses == {"DESTROYED", "FAILED"}

\* An orphan is reported in a transaction of its own before it is removed.
SweepChecks(s) ==
  LET row == envs[job[s].env]
  IN /\ Is(s, "found")
     /\ IF row.status \in OrphanStatuses THEN Goes(s, "sweeping", row)
        ELSE job' = [job EXCEPT ![s] = Idle]
     /\ UNCHANGED <<gitRepo, envs, dir, branch>>

\* rmtree(ignore_errors=True) goes by the path, whoever owns it by now, and
\* DESTROYED is recorded whether or not it has removed anything.
SweepRemoves(s) ==
  /\ Is(s, "sweeping")
  /\ dir' \in {NoDir} \cup Remains
  /\ Goes(s, "publishing", [job[s].row EXCEPT !.status = "DESTROYED"])
  /\ UNCHANGED <<gitRepo, envs, branch>>

\* The process dies, or a transaction fails.
Crash(j) ==
  /\ ~Is(j, "idle")
  /\ job' = [job EXCEPT ![j] = Idle]
  /\ UNCHANGED <<gitRepo, envs, dir, branch>>

------------------------------------------------------------------------------
Next ==
  \/ \E c \in Callers :
       \/ CreateBegins(c) \/ WorktreeAdds(c) \/ DirectoryMade(c) \/ WorktreeFails(c)
       \/ Marks(c) \/ MarkFails(c) \/ CleanupRemoves(c) \/ CleanupFails(c)
       \/ CommandEnds(c)
       \/ \E i \in DOMAIN envs : CleanupBegins(c, i) \/ CommandBegins(c, i)
  \/ \E s \in Sweepers : SweepFinds(s) \/ SweepChecks(s) \/ SweepRemoves(s)
  \/ \E j \in Callers \cup Sweepers : Publishes(j) \/ Crash(j)

Spec == Init /\ [][Next]_vars

------------------------------------------------------------------------------
\* Rows, directory and jobs keep their types, and a READY row names its
\* directory, which the tool gateway asks of every environment it uses.
EnvTypeOK ==
  /\ gitRepo \in BOOLEAN /\ branch \in BOOLEAN
  /\ envs \in Seq(Row)
  /\ dir \in [there: BOOLEAN, marker: 0..Len(envs)]
  /\ job \in [Callers \cup Sweepers -> [at: Steps, env: 0..Len(envs), row: Row]]
  /\ \A j \in Callers \cup Sweepers : ~Is(j, "idle") => job[j].env > 0
  /\ \A i \in DOMAIN envs : envs[i].status = "READY" => envs[i].path

\* In a git repository a READY environment has its directory, under its own
\* marker: no sweep, no cleanup of another environment and no failed creation
\* takes it away, whatever rows they have read before.
ReadyHasDirectory ==
  gitRepo => \A i \in DOMAIN envs :
    envs[i].status = "READY" => dir.there /\ dir.marker = i

\* execution_service.py:39, "Idempotent: reuse the latest READY environment":
\* callers that find none at the same time do not end up with two.
OneReady ==
  gitRepo => \A i, k \in DOMAIN envs :
    envs[i].status = "READY" /\ envs[k].status = "READY" => i = k

\* A command never runs in the directory of another environment, although it
\* checks the row only before it starts and the directory's name is shared.
CommandsStayHome ==
  gitRepo => \A c \in Callers :
    Is(c, "running") /\ dir.there => dir.marker \in {0, job[c].env}

\* An environment that has been given up is not brought back, by its creator
\* or by any other blind write of an old copy.
FinishedStaysFinished ==
  [][\A i \in DOMAIN envs :
       envs[i].status \in {"FAILED", "CLEANING_UP", "DESTROYED"}
         => envs'[i].status \notin {"CREATING", "READY"}]_vars
=============================================================================
