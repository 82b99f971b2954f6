---------------------------- MODULE TaskOwnership ----------------------------
(***************************************************************************)
(* What the worker pool promises about tasks: a task belongs to at most    *)
(* one worker at a time, only its owner changes it, taking it counts an    *)
(* attempt, and it goes back into the queue only from its owner's hands    *)
(* and only while attempts are left.  An owner may also vanish and leave   *)
(* the task as it is.                                                      *)
(***************************************************************************)
EXTENDS Naturals

CONSTANTS Tasks, Workers, MaxAttempts

VARIABLES
  task,    \* status and attempts of every task
  owners   \* owners[t]: the workers that believe t is theirs

vars == <<task, owners>>

Init ==
  /\ task \in [Tasks -> [status: {"PENDING", "QUEUED"}, attempts: {0}]]
  /\ owners = [t \in Tasks |-> {}]

Waiting == {"PENDING", "BLOCKED", "READY"}

\* The scheduler decides what the tasks that nobody has taken wait for; one
\* of its commits may move several of them.
Schedule ==
  /\ \E next \in [Tasks -> {"PENDING", "BLOCKED", "READY", "QUEUED"}] :
       /\ \A t \in Tasks : next[t] = "PENDING" => task[t].status = "PENDING"
       /\ task' = [t \in Tasks |->
                     IF owners[t] = {} /\ task[t].status \in Waiting
                     THEN [task[t] EXCEPT !.status = next[t]] ELSE task[t]]
  /\ UNCHANGED owners

Acquire(w, t) ==
  /\ owners[t] = {}
  /\ task[t].status = "QUEUED" /\ task[t].attempts < MaxAttempts
  /\ task' = [task EXCEPT ![t] = [status |-> "RUNNING", attempts |-> @.attempts + 1]]
  /\ owners' = [owners EXCEPT ![t] = {w}]

\* The owner publishes an outcome and keeps the task.
Report(w, t) ==
  /\ owners[t] = {w}
  /\ task[t].status = "RUNNING"
  /\ \E s \in {"SUCCEEDED", "FAILED"} : task' = [task EXCEPT ![t].status = s]
  /\ UNCHANGED owners

Outcomes(row) ==
  {row.status}
  \cup (IF row.status = "RUNNING" THEN {"SUCCEEDED", "FAILED"} ELSE {})
  \cup (IF row.status \in {"RUNNING", "FAILED"} /\ row.attempts < MaxAttempts
        THEN {"QUEUED"} ELSE {})

\* The owner lets go of the task, or is gone.
Release(w, t) ==
  /\ owners[t] = {w}
  /\ \E s \in Outcomes(task[t]) : task' = [task EXCEPT ![t].status = s]
  /\ owners' = [owners EXCEPT ![t] = {}]

Next ==
  \/ Schedule
  \/ \E t \in Tasks, w \in Workers : Acquire(w, t) \/ Report(w, t) \/ Release(w, t)

Spec == Init /\ [][Next]_vars
=============================================================================
