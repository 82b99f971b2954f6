---------------------------- MODULE GrowingMission ----------------------------
(***************************************************************************)
(* A mission whose task graph grows while it executes: clients add tasks   *)
(* and dependencies, scheduler passes fill the queue and workers empty it, *)
(* each on what it has read of the same tables.                            *)
(*                                                                         *)
(* The workers are the pool of TaskOwnership, the promise that             *)
(* WorkerCoordinator is proved to keep, with the reads of claim_next_task  *)
(* (core/application/worker_coordinator.py) in front of it: tasks and      *)
(* dependencies are read one after the other and are old by the time a     *)
(* task is claimed.                                                        *)
(***************************************************************************)
EXTENDS TaskGraph, Naturals

CONSTANTS Workers, Schedulers, MaxAttempts

VARIABLES
  task, owners,                      \* the promise's view of the tasks rows
  spc, ssnap, sdeps, stodo, squeued, \* scheduler passes
  look,                              \* what each worker's poll has read
  since                              \* history: the edges there when it began

Pool == INSTANCE TaskOwnership
Scheduler == INSTANCE TaskScheduler WITH executing <- TRUE

schedulerVars == <<spc, ssnap, sdeps, stodo, squeued>>
pollVars == <<look, since>>
growingVars == <<graphVars, task, owners, schedulerVars, pollVars>>

NoLook == [at |-> "idle", snap |-> [t \in Tasks |-> "ABSENT"], deps |-> {}]

GrowingInit ==
  /\ GraphInit
  /\ task = [t \in Tasks |-> [status |-> "PENDING", attempts |-> 0]]
  /\ owners = [t \in Tasks |-> {}]
  /\ Scheduler!ScheduleInit
  /\ look = [w \in Workers |-> NoLook]
  /\ since = [w \in Workers |-> {}]

------------------------------------------------------------------------------
(* Polls.                                                                  *)

Owns(w, t) == w \in owners[t]

PollReads(w) ==
  /\ look[w].at = "idle" /\ \A t \in Tasks : ~Owns(w, t)
  /\ \E t \in known : task[t].status = "QUEUED"
  /\ look' = [look EXCEPT ![w] =
                [at |-> "deps", deps |-> {},
                 snap |-> [t \in Tasks |-> IF t \in known THEN task[t].status ELSE "ABSENT"]]]
  /\ since' = [since EXCEPT ![w] = edges]
  /\ UNCHANGED <<graphVars, task, owners, schedulerVars>>

PollReadsDeps(w) ==
  /\ look[w].at = "deps"
  /\ look' = [look EXCEPT ![w].at = "claim", ![w].deps = edges]
  /\ UNCHANGED <<graphVars, task, owners, schedulerVars, since>>

\* The filter of claim_next_task over what it has read: a parent that it has
\* not read holds the task back, too.  The variant trusts the queue.
EligibleIfQueued(w, t) == look[w].snap[t] = "QUEUED"
Eligible(w, t) ==
  /\ look[w].snap[t] = "QUEUED"
  /\ \A p \in Tasks : <<t, p>> \in look[w].deps => look[w].snap[p] = "SUCCEEDED"

\* claim_task succeeds.
PollClaims(w, t) ==
  /\ look[w].at = "claim" /\ Eligible(w, t)
  /\ Pool!Acquire(w, t)
  /\ look' = [look EXCEPT ![w] = NoLook]
  /\ since' = [since EXCEPT ![w] = {}]
  /\ UNCHANGED <<graphVars, schedulerVars>>

\* No candidate is left in the queue.
PollFindsNothing(w) ==
  /\ look[w].at = "claim"
  /\ \A t \in Tasks : Eligible(w, t) => task[t].status # "QUEUED"
  /\ look' = [look EXCEPT ![w] = NoLook]
  /\ since' = [since EXCEPT ![w] = {}]
  /\ UNCHANGED <<graphVars, task, owners, schedulerVars>>

PollStep(w) ==
  \/ PollReads(w) \/ PollReadsDeps(w) \/ PollFindsNothing(w)
  \/ \E t \in Tasks : PollClaims(w, t)

\* The pool reports an outcome or gives the task up; this also stands for an
\* owner that vanishes.
Works(w, t) ==
  /\ Pool!Report(w, t) \/ Pool!Release(w, t)
  /\ UNCHANGED <<graphVars, schedulerVars, pollVars>>

WorkStep(w) == \E t \in Tasks : Works(w, t)

------------------------------------------------------------------------------
ScheduleStep(s) ==
  /\ Scheduler!SchedulePass(s)
  /\ UNCHANGED <<graphVars, owners, pollVars>>

GraphStep == GraphNext /\ UNCHANGED <<task, owners, schedulerVars, pollVars>>

GrowingNext ==
  \/ GraphStep
  \/ \E s \in Schedulers : ScheduleStep(s)
  \/ \E w \in Workers : PollStep(w) \/ WorkStep(w)

\* Passes are made one after the other and end, workers poll and let go of what
\* they have taken.  Clients need not do anything.
GrowingSpec ==
  /\ GrowingInit /\ [][GrowingNext]_growingVars
  /\ \A s \in Schedulers : WF_growingVars(ScheduleStep(s))
  /\ \A w \in Workers : WF_growingVars(PollStep(w)) /\ WF_growingVars(WorkStep(w))

------------------------------------------------------------------------------
\* A dependency that was added before a worker began to poll holds the task
\* back until the parent has SUCCEEDED, also when the task was in the queue by
\* then: the scheduler's decision may be old, the worker checks again.
TakenInOrder ==
  [][\A w \in Workers : \A t \in Tasks :
       owners[t] = {} /\ owners'[t] = {w} =>
         \A p \in Tasks : <<t, p>> \in since[w] => task[p].status = "SUCCEEDED"]_growingVars

\* A task nobody will finish: it was given up, or its owner left it RUNNING.
Lost(t) == owners[t] = {} /\ task[t].status \in {"RUNNING", "FAILED"}

\* The mission does not get stuck: however the graph grows, in the end every
\* task has SUCCEEDED or some task is lost.  Only overlapping requests can close
\* a cycle of tasks that wait for each other, and a task BLOCKED by an attempt
\* that failed, or because a pass had not read its parent, is queued later.
MissionDrains ==
  <>[](\/ overlapped
       \/ \A t \in known : task[t].status = "SUCCEEDED"
       \/ \E t \in known : Lost(t))
=============================================================================
