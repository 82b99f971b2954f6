---------------------------- MODULE TaskGraphProofs ----------------------------
(***************************************************************************)
(* Theorems about the growth of the task graph, for any tasks and any      *)
(* number of concurrent requests, about the order in which workers take    *)
(* tasks from it, for any number of workers and scheduler passes, and      *)
(* about the search for cycles, for any list of dependencies.              *)
(***************************************************************************)
EXTENDS GrowingMission, DagValidator, RecursionLemmas, FiniteSetTheorems, SequenceTheorems

\* What an open request has read passed the search, and its edges are still
\* there.
RequestsValidated ==
  \A c \in Clients : req[c].open => ~FindsCycle(req[c].seen \cup {req[c].edge})

GraphInv ==
  /\ req \in [Clients -> [open: BOOLEAN, edge: (Tasks \X Tasks) \cup {<<>>}, seen: SUBSET (Tasks \X Tasks)]]
  /\ GraphTypeOK /\ RequestsValidated /\ CycleFree

LEMMA GraphInitial == GraphInit => GraphInv
  <1> SUFFICES ASSUME GraphInit PROVE GraphInv
    OBVIOUS
  <1>1. Acyclic({})
    <2>1. \A S \in (SUBSET Tasks) \ {{}} : \E t \in S : TRUE
      OBVIOUS
    <2> QED
      BY <2>1 DEF Acyclic
  <1> QED
    BY <1>1 DEF GraphInit, GraphInv, GraphTypeOK, RequestsValidated, CycleFree, NoRequest

LEMMA GraphInductive == GraphInv /\ [GraphNext]_graphVars => GraphInv'
  <1> SUFFICES ASSUME GraphInv, [GraphNext]_graphVars PROVE GraphInv'
    OBVIOUS
  <1> USE DEF GraphInv, GraphTypeOK, RequestsValidated, CycleFree, NoRequest
  <1>1. CASE UNCHANGED graphVars
    BY <1>1 DEF graphVars
  <1>2. ASSUME NEW t \in Tasks, AddTask(t) PROVE GraphInv'
    BY <1>2 DEF AddTask
  <1>3. ASSUME NEW c \in Clients, NEW e \in Requests, RequestReads(c, e) PROVE GraphInv'
    <2>1. e \in known \X known /\ e \in Tasks \X Tasks
      BY <1>3, GraphAssumption DEF RequestReads, Exist
    <2>2. ~FindsCycle(edges \cup {e})
      BY <1>3 DEF RequestReads, Exist, Refused
    <2> QED
      BY <1>3, <2>1, <2>2 DEF RequestReads, Exist
  <1>4. ASSUME NEW c \in Clients, RequestInserts(c) PROVE GraphInv'
    <2> DEFINE e == req[c].edge
    <2>1. e \in known \X known /\ edges' = edges \cup {e} /\ known' = known
      BY <1>4 DEF RequestInserts
    <2>2. edges' \in SUBSET (Tasks \X Tasks) /\ edges' \in SUBSET (known' \X known')
      BY <2>1
    <2>3. ASSUME edges = req[c].seen PROVE Acyclic(edges')
      <3>1. ~FindsCycle(edges')
        BY <1>4, <2>1, <2>3 DEF RequestInserts
      <3> QED
        BY <2>2, <3>1, GraphAssumption
    <2>4. CycleFree'
      BY <1>4, <2>3 DEF RequestInserts
    <2>5. /\ req' = [req EXCEPT ![c] = NoRequest] /\ edges \subseteq edges'
          /\ overlapped' \in BOOLEAN
      BY <1>4, <2>1 DEF RequestInserts
    <2> QED
      BY <2>1, <2>2, <2>4, <2>5
  <1>5. ASSUME NEW c \in Clients, RequestFails(c) PROVE GraphInv'
    BY <1>5 DEF RequestFails
  <1> QED
    BY <1>1, <1>2, <1>3, <1>4, <1>5 DEF GraphNext, RequestStep

\* Every open request was validated against edges that are still there.
THEOREM GraphInvariance == GraphSpec => []GraphInv
  BY GraphInitial, GraphInductive, PTL DEF GraphSpec

\* Dependencies connect tasks that exist.
THEOREM GraphTypeCorrect == GraphSpec => []GraphTypeOK
  BY GraphInvariance, PTL DEF GraphInv

\* Requests that do not overlap keep the graph of any mission free of cycles.
THEOREM GraphStaysAcyclic == GraphSpec => []CycleFree
  BY GraphInvariance, PTL DEF GraphInv

------------------------------------------------------------------------------
(* The graph and the mission that executes it.                             *)

\* The statuses of tasks.
GrowingStatus == Scheduler!TaskStatus

\* Rows, passes and polls keep their types.
GrowingTypes ==
  /\ known \in SUBSET Tasks
  /\ task \in [Tasks -> [status: GrowingStatus, attempts: Nat]]
  /\ owners \in [Tasks -> SUBSET Workers]
  /\ Scheduler!ScheduleTypeOK
  /\ look \in [Workers -> [at: {"idle", "deps", "claim"},
                           snap: [Tasks -> GrowingStatus \cup {"ABSENT"}],
                           deps: SUBSET edges]]
  /\ since \in [Workers -> SUBSET edges]

\* A pass holds what it has queued, and that still waits: nobody else moves it.
PassesHold ==
  /\ \A s \in Schedulers : \A t \in stodo[s] : ssnap[s][t] \in {"PENDING", "BLOCKED"}
  /\ \A s \in Schedulers : \A t \in squeued[s] : task[t].status \in {"PENDING", "BLOCKED"}
  /\ \A s, q \in Schedulers : s # q => squeued[s] \cap squeued[q] = {}

\* The successes a poll has read are final, and its second read, which comes
\* after it began, has all the edges that were there then.
PollsKnow ==
  \A w \in Workers :
    /\ \A p \in Tasks : look[w].snap[p] = "SUCCEEDED" => task[p].status = "SUCCEEDED"
    /\ look[w].at = "claim" => since[w] \subseteq look[w].deps

\* What has an owner does not wait.
Taken == \A t \in Tasks : owners[t] # {} => task[t].status \notin {"PENDING", "BLOCKED"}

GrowingInv == GraphInv /\ GrowingTypes /\ PassesHold /\ PollsKnow /\ Taken

LEMMA GrowingInitial == GrowingInit => GrowingInv
  <1> SUFFICES ASSUME GrowingInit PROVE GrowingInv
    OBVIOUS
  <1> USE DEF GrowingInit, GraphInit, Scheduler!ScheduleInit, NoLook
  <1>1. GrowingTypes
    BY DEF GrowingTypes, GrowingStatus, Scheduler!TaskStatus, Scheduler!ScheduleTypeOK
  <1>2. PassesHold /\ PollsKnow /\ Taken
    BY DEF PassesHold, PollsKnow, Taken
  <1> QED
    BY <1>1, <1>2, GraphInitial DEF GrowingInv

\* The clients only add tasks and edges.
LEMMA GraphStepKeeps == ASSUME GrowingInv, GraphStep PROVE GrowingInv'
  <1>1. known \subseteq known' /\ known' \in SUBSET Tasks /\ edges \subseteq edges'
    BY DEF GraphStep, GraphNext, AddTask, RequestStep, RequestReads, RequestInserts,
       RequestFails, GrowingInv, GrowingTypes
  <1>2. UNCHANGED <<task, owners, spc, ssnap, sdeps, stodo, squeued, look, since>>
    BY DEF GraphStep, schedulerVars, pollVars
  <1>3. GrowingTypes'
    <2>1. look \in [Workers -> [at: {"idle", "deps", "claim"},
                                snap: [Tasks -> GrowingStatus \cup {"ABSENT"}],
                                deps: SUBSET edges']]
      <3>1. \A w \in Workers : look[w] \in [at: {"idle", "deps", "claim"},
                                snap: [Tasks -> GrowingStatus \cup {"ABSENT"}],
                                deps: SUBSET edges']
        BY <1>1 DEF GrowingInv, GrowingTypes
      <3> QED
        BY <3>1 DEF GrowingInv, GrowingTypes
    <2>2. since \in [Workers -> SUBSET edges']
      BY <1>1 DEF GrowingInv, GrowingTypes
    <2>3. Scheduler!ScheduleTypeOK'
      BY <1>2 DEF GrowingInv, GrowingTypes, Scheduler!ScheduleTypeOK
    <2> QED
      BY <1>1, <1>2, <2>1, <2>2, <2>3 DEF GrowingInv, GrowingTypes, GrowingStatus
  <1>4. PassesHold' /\ PollsKnow' /\ Taken'
    BY <1>2 DEF GrowingInv, PassesHold, PollsKnow, Taken
  <1>5. GraphInv'
    BY GraphInductive DEF GraphStep, GrowingInv
  <1> QED
    BY <1>3, <1>4, <1>5 DEF GrowingInv

\* A worker takes tasks from the queue and changes those it has taken; what a
\* pass holds is not in the queue.
LEMMA PoolMovesRows ==
  ASSUME GrowingInv, NEW w \in Workers, NEW t \in Tasks,
         Pool!Acquire(w, t) \/ Pool!Report(w, t) \/ Pool!Release(w, t)
  PROVE  /\ task' \in [Tasks -> [status: GrowingStatus, attempts: Nat]]
         /\ owners' \in [Tasks -> SUBSET Workers]
         /\ \A u \in Tasks : task[u].status = "SUCCEEDED" => task'[u].status = "SUCCEEDED"
         /\ \A u \in Tasks : task[u].status \in {"PENDING", "BLOCKED"} => task'[u] = task[u]
         /\ Taken'
  <1>0. /\ task \in [Tasks -> [status: GrowingStatus, attempts: Nat]]
        /\ owners \in [Tasks -> SUBSET Workers] /\ Taken
    BY DEF GrowingInv, GrowingTypes
  <1> USE DEF GrowingStatus, Scheduler!TaskStatus, Taken
  <1>1. CASE Pool!Acquire(w, t)
    BY <1>0, <1>1 DEF Pool!Acquire
  <1>2. CASE Pool!Report(w, t)
    BY <1>0, <1>2 DEF Pool!Report
  <1>3. CASE Pool!Release(w, t)
    <2>1. PICK s \in Pool!Outcomes(task[t]) : task' = [task EXCEPT ![t].status = s]
      BY <1>3 DEF Pool!Release
    <2>2. /\ s \in GrowingStatus
          /\ task[t].status = "SUCCEEDED" => s = "SUCCEEDED"
          /\ task[t].status \notin {"PENDING", "BLOCKED"}
      BY <1>0, <1>3, <2>1 DEF Pool!Outcomes, Pool!Release
    <2>3. owners' = [owners EXCEPT ![t] = {}]
      BY <1>3 DEF Pool!Release
    <2> QED
      BY <1>0, <2>1, <2>2, <2>3
  <1> QED
    BY <1>1, <1>2, <1>3

\* A step that moves task and owners as the pool may, and leaves the passes.
LEMMA WorkStepKeeps ==
  ASSUME GrowingInv, NEW w \in Workers, NEW t \in Tasks,
         Pool!Acquire(w, t) \/ Pool!Report(w, t) \/ Pool!Release(w, t),
         UNCHANGED <<graphVars, schedulerVars>>,
         \/ UNCHANGED pollVars
         \/ look' = [look EXCEPT ![w] = NoLook] /\ since' = [since EXCEPT ![w] = {}]
  PROVE  GrowingInv'
  <1>1. /\ task' \in [Tasks -> [status: GrowingStatus, attempts: Nat]]
        /\ owners' \in [Tasks -> SUBSET Workers]
        /\ \A u \in Tasks : task[u].status = "SUCCEEDED" => task'[u].status = "SUCCEEDED"
        /\ \A u \in Tasks : task[u].status \in {"PENDING", "BLOCKED"} => task'[u] = task[u]
        /\ Taken'
    BY PoolMovesRows
  <1>2. UNCHANGED <<known, edges, spc, ssnap, sdeps, stodo, squeued>>
    BY DEF graphVars, schedulerVars
  <1>3. /\ look' \in [Workers -> [at: {"idle", "deps", "claim"},
                                  snap: [Tasks -> GrowingStatus \cup {"ABSENT"}],
                                  deps: SUBSET edges]]
        /\ since' \in [Workers -> SUBSET edges]
        /\ \A v \in Workers : \/ look'[v] = look[v] /\ since'[v] = since[v]
                              \/ look'[v] = NoLook
    <2>1. NoLook \in [at: {"idle", "deps", "claim"},
                      snap: [Tasks -> GrowingStatus \cup {"ABSENT"}],
                      deps: SUBSET edges]
      BY DEF NoLook
    <2> QED
      BY <2>1 DEF GrowingInv, GrowingTypes, pollVars
  <1>4. GrowingTypes'
    BY <1>1, <1>2, <1>3 DEF GrowingInv, GrowingTypes, Scheduler!ScheduleTypeOK, GrowingStatus
  <1>5. PassesHold'
    <2>1. \A s \in Schedulers : squeued[s] \subseteq Tasks
      BY DEF GrowingInv, GrowingTypes, Scheduler!ScheduleTypeOK
    <2> QED
      BY <1>1, <1>2, <2>1 DEF GrowingInv, PassesHold
  <1>6. PollsKnow'
    BY <1>1, <1>3 DEF GrowingInv, PollsKnow, NoLook
  <1>7. GraphInv'
    BY GraphInductive DEF GrowingInv
  <1> QED
    BY <1>1, <1>4, <1>5, <1>6, <1>7 DEF GrowingInv

LEMMA PollStepKeeps == ASSUME GrowingInv, NEW w \in Workers, PollStep(w) PROVE GrowingInv'
  <1>0. /\ known \in SUBSET Tasks /\ task \in [Tasks -> [status: GrowingStatus, attempts: Nat]]
        /\ look \in [Workers -> [at: {"idle", "deps", "claim"},
                                 snap: [Tasks -> GrowingStatus \cup {"ABSENT"}],
                                 deps: SUBSET edges]]
        /\ since \in [Workers -> SUBSET edges]
    BY DEF GrowingInv, GrowingTypes
  <1>1. ASSUME NEW t \in Tasks, PollClaims(w, t) PROVE GrowingInv'
    BY <1>1, WorkStepKeeps DEF PollClaims
  <1>2. ASSUME NEW l \in [at: {"idle", "deps", "claim"},
                          snap: [Tasks -> GrowingStatus \cup {"ABSENT"}],
                          deps: SUBSET edges],
               NEW S \in SUBSET edges,
               look' = [look EXCEPT ![w] = l], since' = [since EXCEPT ![w] = S],
               \A p \in Tasks : l.snap[p] = "SUCCEEDED" => task[p].status = "SUCCEEDED",
               l.at = "claim" => S \subseteq l.deps,
               UNCHANGED <<graphVars, task, owners, schedulerVars>>
        PROVE  GrowingInv'
    <2>1. UNCHANGED <<known, edges, task, owners, spc, ssnap, sdeps, stodo, squeued>>
      BY <1>2 DEF graphVars, schedulerVars
    <2>2. /\ look' \in [Workers -> [at: {"idle", "deps", "claim"},
                                    snap: [Tasks -> GrowingStatus \cup {"ABSENT"}],
                                    deps: SUBSET edges]]
          /\ since' \in [Workers -> SUBSET edges]
          /\ look'[w] = l /\ since'[w] = S
          /\ \A v \in Workers \ {w} : look'[v] = look[v] /\ since'[v] = since[v]
      BY <1>0, <1>2
    <2>3. GrowingTypes'
      BY <2>1, <2>2 DEF GrowingInv, GrowingTypes, Scheduler!ScheduleTypeOK, GrowingStatus
    <2>4. PassesHold' /\ Taken'
      BY <2>1 DEF GrowingInv, PassesHold, Taken
    <2>5. PollsKnow'
      BY <1>2, <2>1, <2>2 DEF GrowingInv, PollsKnow
    <2>6. GraphInv'
      BY <1>2, GraphInductive DEF GrowingInv
    <2> QED
      BY <2>3, <2>4, <2>5, <2>6 DEF GrowingInv
  <1>3. CASE PollReads(w)
    <2> DEFINE snap == [t \in Tasks |-> IF t \in known THEN task[t].status ELSE "ABSENT"]
               l == [at |-> "deps", deps |-> {}, snap |-> snap]
    <2>1. snap \in [Tasks -> GrowingStatus \cup {"ABSENT"}]
          /\ \A p \in Tasks : snap[p] = "SUCCEEDED" => task[p].status = "SUCCEEDED"
      BY <1>0
    <2>2. look' = [look EXCEPT ![w] = l] /\ since' = [since EXCEPT ![w] = edges]
          /\ UNCHANGED <<graphVars, task, owners, schedulerVars>>
      BY <1>3 DEF PollReads
    <2> HIDE DEF snap
    <2>3. l \in [at: {"idle", "deps", "claim"}, snap: [Tasks -> GrowingStatus \cup {"ABSENT"}],
                 deps: SUBSET edges] /\ l.at = "deps" /\ l.snap = snap
      BY <2>1
    <2> HIDE DEF l
    <2> QED
      BY <1>2, <2>1, <2>2, <2>3
  <1>4. CASE PollReadsDeps(w)
    <2> DEFINE l == [look[w] EXCEPT !.at = "claim", !.deps = edges]
    <2>1. look' = [look EXCEPT ![w] = l] /\ since' = [since EXCEPT ![w] = since[w]]
          /\ UNCHANGED <<graphVars, task, owners, schedulerVars>>
      BY <1>0, <1>4 DEF PollReadsDeps
    <2>2. l \in [at: {"idle", "deps", "claim"}, snap: [Tasks -> GrowingStatus \cup {"ABSENT"}],
                 deps: SUBSET edges]
          /\ l.at = "claim" /\ l.snap = look[w].snap /\ l.deps = edges
      BY <1>0
    <2>3. \A p \in Tasks : look[w].snap[p] = "SUCCEEDED" => task[p].status = "SUCCEEDED"
      BY DEF GrowingInv, PollsKnow
    <2>4. since[w] \in SUBSET edges
      BY <1>0
    <2> HIDE DEF l
    <2> QED
      BY <1>2, <2>1, <2>2, <2>3, <2>4
  <1>5. CASE PollFindsNothing(w)
    <2>1. NoLook \in [at: {"idle", "deps", "claim"},
                      snap: [Tasks -> GrowingStatus \cup {"ABSENT"}], deps: SUBSET edges]
          /\ NoLook.at = "idle" /\ \A p \in Tasks : NoLook.snap[p] = "ABSENT"
      BY DEF NoLook
    <2>2. look' = [look EXCEPT ![w] = NoLook] /\ since' = [since EXCEPT ![w] = {}]
          /\ UNCHANGED <<graphVars, task, owners, schedulerVars>>
      BY <1>5 DEF PollFindsNothing
    <2>3. {} \in SUBSET edges /\ (NoLook.at = "claim" => {} \subseteq NoLook.deps)
          /\ \A p \in Tasks : NoLook.snap[p] = "SUCCEEDED" => task[p].status = "SUCCEEDED"
      BY <2>1
    <2> QED
      BY <1>2, <2>1, <2>2, <2>3
  <1> QED
    BY <1>1, <1>3, <1>4, <1>5 DEF PollStep

\* A pass moves only rows that wait, out of them only those it holds.
LEMMA PassMovesRows ==
  ASSUME GrowingInv, NEW s \in Schedulers, ScheduleStep(s)
  PROVE  /\ task' \in [Tasks -> [status: GrowingStatus, attempts: Nat]]
         /\ \A t \in Tasks :
              \/ task'[t] = task[t]
              \/ /\ task[t].status \in {"PENDING", "BLOCKED"}
                 /\ task'[t].status = "BLOCKED" \/ t \in squeued[s]
  <1> DEFINE P == Scheduler!Published(s)
  <1>0. /\ task \in [Tasks -> [status: GrowingStatus, attempts: Nat]]
        /\ \A t \in squeued[s] : task[t].status \in {"PENDING", "BLOCKED"}
        /\ squeued[s] \subseteq Tasks
    BY DEF GrowingInv, GrowingTypes, PassesHold, Scheduler!ScheduleTypeOK
  <1>1. \A t \in Tasks : [task[t] EXCEPT !.status = "QUEUED"] \in [status: GrowingStatus, attempts: Nat]
    BY <1>0 DEF GrowingStatus, Scheduler!TaskStatus
  <1>2. /\ P \in [Tasks -> [status: GrowingStatus, attempts: Nat]]
        /\ \A t \in Tasks \ squeued[s] : P[t] = task[t]
    BY <1>0, <1>1 DEF Scheduler!Published
  <1> HIDE DEF P
  <1>3. CASE task' = task
    BY <1>0, <1>3
  <1>4. CASE Scheduler!ScheduleEnds(s)
    BY <1>0, <1>2, <1>4 DEF Scheduler!ScheduleEnds, P
  <1>5. ASSUME NEW t \in Tasks, Scheduler!ScheduleBlocks(s, t)
        PROVE  /\ task' \in [Tasks -> [status: GrowingStatus, attempts: Nat]]
               /\ \A u \in Tasks :
                    \/ task'[u] = task[u]
                    \/ /\ task[u].status \in {"PENDING", "BLOCKED"}
                       /\ task'[u].status = "BLOCKED" \/ u \in squeued[s]
    <2>1. task' = [P EXCEPT ![t].status = "BLOCKED"] /\ task[t].status = "PENDING"
      BY <1>5 DEF Scheduler!ScheduleBlocks, Scheduler!Still, P
    <2>2. [P[t] EXCEPT !.status = "BLOCKED"] \in [status: GrowingStatus, attempts: Nat]
          /\ [P[t] EXCEPT !.status = "BLOCKED"].status = "BLOCKED"
      BY <1>2 DEF GrowingStatus, Scheduler!TaskStatus
    <2>3. /\ task' \in [Tasks -> [status: GrowingStatus, attempts: Nat]]
          /\ task'[t].status = "BLOCKED"
          /\ \A u \in Tasks \ {t} : task'[u] = P[u]
      BY <1>2, <2>1, <2>2
    <2> QED
      BY <1>0, <1>2, <2>1, <2>3
  <1>6. \/ task' = task \/ Scheduler!ScheduleEnds(s)
        \/ \E t \in Tasks : Scheduler!ScheduleBlocks(s, t)
    BY DEF ScheduleStep, Scheduler!SchedulePass, Scheduler!ScheduleReads,
       Scheduler!ScheduleReadsDeps, Scheduler!ScheduleQueues, Scheduler!ScheduleSkips
  <1> QED
    BY <1>3, <1>4, <1>5, <1>6

\* What a pass does to its own notes.
LEMMA PassNotes ==
  ASSUME GrowingInv, NEW s \in Schedulers, ScheduleStep(s)
  PROVE  /\ Scheduler!ScheduleTypeOK'
         /\ \A q \in Schedulers \ {s} :
              ssnap'[q] = ssnap[q] /\ stodo'[q] = stodo[q] /\ squeued'[q] = squeued[q]
         /\ \A t \in stodo'[s] : ssnap'[s][t] \in {"PENDING", "BLOCKED"}
         /\ \A t \in squeued'[s] : /\ task'[t].status \in {"PENDING", "BLOCKED"}
                                   /\ \A q \in Schedulers \ {s} : t \notin squeued[q]
  <1>0. /\ known \in SUBSET Tasks /\ edges \in SUBSET (Tasks \X Tasks)
        /\ task \in [Tasks -> [status: GrowingStatus, attempts: Nat]]
        /\ spc \in [Schedulers -> {"idle", "deps", "pass"}]
        /\ ssnap \in [Schedulers -> [Tasks -> GrowingStatus \cup {"ABSENT"}]]
        /\ sdeps \in [Schedulers -> SUBSET (Tasks \X Tasks)]
        /\ stodo \in [Schedulers -> SUBSET Tasks]
        /\ squeued \in [Schedulers -> SUBSET Tasks]
    BY DEF GrowingInv, GrowingTypes, Scheduler!ScheduleTypeOK, GrowingStatus, GraphInv,
       GraphTypeOK
  <1> DEFINE Goal ==
        /\ Scheduler!ScheduleTypeOK'
        /\ \A q \in Schedulers \ {s} :
             ssnap'[q] = ssnap[q] /\ stodo'[q] = stodo[q] /\ squeued'[q] = squeued[q]
        /\ \A t \in stodo'[s] : ssnap'[s][t] \in {"PENDING", "BLOCKED"}
        /\ \A t \in squeued'[s] : /\ task'[t].status \in {"PENDING", "BLOCKED"}
                                  /\ \A q \in Schedulers \ {s} : t \notin squeued[q]
  <1>h. /\ \A t \in stodo[s] : ssnap[s][t] \in {"PENDING", "BLOCKED"}
        /\ \A t \in squeued[s] : /\ task[t].status \in {"PENDING", "BLOCKED"}
                                 /\ \A q \in Schedulers \ {s} : t \notin squeued[q]
    BY DEF GrowingInv, PassesHold
  <1> USE DEF Scheduler!ScheduleTypeOK, GrowingStatus
  <1>1. CASE Scheduler!ScheduleReads(s)
    <2> DEFINE S == [t \in Tasks |-> IF t \in known THEN task[t].status ELSE "ABSENT"]
               W == {t \in known : task[t].status \in {"PENDING", "BLOCKED"}}
    <2>1. S \in [Tasks -> GrowingStatus \cup {"ABSENT"}] /\ W \in SUBSET Tasks
          /\ \A t \in W : S[t] \in {"PENDING", "BLOCKED"}
      BY <1>0
    <2>2. /\ task' = task /\ spc' = [spc EXCEPT ![s] = "deps"]
          /\ ssnap' = [ssnap EXCEPT ![s] = S] /\ stodo' = [stodo EXCEPT ![s] = W]
          /\ UNCHANGED <<sdeps, squeued>>
      BY <1>1 DEF Scheduler!ScheduleReads, Scheduler!Waiting
    <2> HIDE DEF S, W
    <2>3. Scheduler!ScheduleTypeOK'
      BY <1>0, <2>1, <2>2
    <2> QED
      BY <1>0, <1>h, <2>1, <2>2, <2>3
  <1>2. CASE Scheduler!ScheduleReadsDeps(s)
    <2>1. /\ task' = task /\ spc' = [spc EXCEPT ![s] = "pass"]
          /\ sdeps' = [sdeps EXCEPT ![s] = edges] /\ UNCHANGED <<ssnap, stodo, squeued>>
      BY <1>2 DEF Scheduler!ScheduleReadsDeps
    <2>2. Scheduler!ScheduleTypeOK'
      BY <1>0, <2>1
    <2> QED
      BY <1>h, <2>1, <2>2
  <1>3. ASSUME NEW t \in Tasks, Scheduler!ScheduleQueues(s, t) PROVE Goal
    <2>1. /\ task' = task /\ squeued' = [squeued EXCEPT ![s] = @ \cup {t}]
          /\ stodo' = [stodo EXCEPT ![s] = @ \ {t}] /\ UNCHANGED <<spc, ssnap, sdeps>>
          /\ t \in stodo[s] /\ task[t].status = ssnap[s][t]
          /\ \A q \in Schedulers \ {s} : t \notin squeued[q]
      BY <1>3 DEF Scheduler!ScheduleQueues, Scheduler!Visit, Scheduler!Still, Scheduler!RowFree
    <2>2. Scheduler!ScheduleTypeOK'
      BY <1>0, <2>1
    <2>3. squeued'[s] = squeued[s] \cup {t} /\ stodo'[s] \subseteq stodo[s]
          /\ \A q \in Schedulers \ {s} : stodo'[q] = stodo[q] /\ squeued'[q] = squeued[q]
      BY <1>0, <2>1
    <2> QED
      BY <1>h, <2>1, <2>2, <2>3
  <1>4. ASSUME NEW t \in Tasks, Scheduler!ScheduleBlocks(s, t) \/ Scheduler!ScheduleSkips(s, t)
        PROVE  Goal
    <2>1. /\ stodo' = [stodo EXCEPT ![s] = @ \ {t}] /\ UNCHANGED <<spc, ssnap, sdeps>>
          /\ \/ squeued' = [squeued EXCEPT ![s] = {}]
             \/ squeued' = squeued /\ task' = task
      BY <1>4 DEF Scheduler!ScheduleBlocks, Scheduler!ScheduleSkips, Scheduler!Visit
    <2>2. Scheduler!ScheduleTypeOK'
      BY <1>0, <2>1
    <2>3. squeued'[s] = {} \/ (squeued'[s] = squeued[s] /\ task' = task)
      BY <1>0, <2>1
    <2>4. stodo'[s] \subseteq stodo[s]
          /\ \A q \in Schedulers \ {s} : stodo'[q] = stodo[q] /\ squeued'[q] = squeued[q]
      BY <1>0, <2>1
    <2> QED
      BY <1>h, <2>1, <2>2, <2>3, <2>4
  <1>5. CASE Scheduler!ScheduleEnds(s)
    <2>1. /\ spc' = [spc EXCEPT ![s] = "idle"]
          /\ ssnap' = [ssnap EXCEPT ![s] = [t \in Tasks |-> "ABSENT"]]
          /\ sdeps' = [sdeps EXCEPT ![s] = {}] /\ squeued' = [squeued EXCEPT ![s] = {}]
          /\ stodo' = stodo /\ stodo[s] = {}
      BY <1>5 DEF Scheduler!ScheduleEnds, Scheduler!Leaves
    <2>2. Scheduler!ScheduleTypeOK'
      BY <1>0, <2>1
    <2>3. squeued'[s] = {}
          /\ \A q \in Schedulers \ {s} : ssnap'[q] = ssnap[q] /\ squeued'[q] = squeued[q]
      BY <1>0, <2>1
    <2> QED
      BY <2>1, <2>2, <2>3
  <1> QED
    BY <1>1, <1>2, <1>3, <1>4, <1>5 DEF ScheduleStep, Scheduler!SchedulePass

LEMMA ScheduleStepKeeps ==
  ASSUME GrowingInv, NEW s \in Schedulers, ScheduleStep(s)
  PROVE  GrowingInv'
  <1>1. UNCHANGED <<graphVars, known, edges, owners, look, since>>
    BY DEF ScheduleStep, graphVars, pollVars
  <1>2. /\ task' \in [Tasks -> [status: GrowingStatus, attempts: Nat]]
        /\ \A t \in Tasks :
             \/ task'[t] = task[t]
             \/ /\ task[t].status \in {"PENDING", "BLOCKED"}
                /\ task'[t].status = "BLOCKED" \/ t \in squeued[s]
    BY PassMovesRows
  <1>3. /\ Scheduler!ScheduleTypeOK'
        /\ \A q \in Schedulers \ {s} :
             ssnap'[q] = ssnap[q] /\ stodo'[q] = stodo[q] /\ squeued'[q] = squeued[q]
        /\ \A t \in stodo'[s] : ssnap'[s][t] \in {"PENDING", "BLOCKED"}
        /\ \A t \in squeued'[s] : /\ task'[t].status \in {"PENDING", "BLOCKED"}
                                  /\ \A q \in Schedulers \ {s} : t \notin squeued[q]
    BY PassNotes
  <1>4. GrowingTypes'
    BY <1>1, <1>2, <1>3 DEF GrowingInv, GrowingTypes, GrowingStatus
  <1>5. PassesHold'
    <2>1. ASSUME NEW q \in Schedulers \ {s}, NEW t \in squeued[q]
          PROVE  task'[t].status \in {"PENDING", "BLOCKED"}
      <3>1. t \in Tasks /\ t \notin squeued[s] /\ task[t].status \in {"PENDING", "BLOCKED"}
        BY DEF GrowingInv, GrowingTypes, PassesHold, Scheduler!ScheduleTypeOK
      <3> QED
        BY <1>2, <3>1
    <2>2. \A q \in Schedulers \ {s} : \A t \in stodo[q] : ssnap[q][t] \in {"PENDING", "BLOCKED"}
      BY DEF GrowingInv, PassesHold
    <2>3. \A q, r \in Schedulers \ {s} : q # r => squeued[q] \cap squeued[r] = {}
      BY DEF GrowingInv, PassesHold
    <2> QED
      BY <1>3, <2>1, <2>2, <2>3 DEF PassesHold
  <1>6. PollsKnow' /\ Taken'
    BY <1>1, <1>2 DEF GrowingInv, PollsKnow, Taken
  <1>7. GraphInv'
    BY <1>1, GraphInductive DEF GrowingInv
  <1> QED
    BY <1>4, <1>5, <1>6, <1>7 DEF GrowingInv

LEMMA GrowingInductive == GrowingInv /\ [GrowingNext]_growingVars => GrowingInv'
  <1> SUFFICES ASSUME GrowingInv, [GrowingNext]_growingVars PROVE GrowingInv'
    OBVIOUS
  <1>1. CASE UNCHANGED growingVars
    BY <1>1, GraphInductive
    DEF growingVars, graphVars, schedulerVars, pollVars, GrowingInv, GrowingTypes, PassesHold,
        PollsKnow, Taken, Scheduler!ScheduleTypeOK, GrowingStatus
  <1>2. ASSUME NEW w \in Workers, WorkStep(w) PROVE GrowingInv'
    BY <1>2, WorkStepKeeps DEF WorkStep, Works
  <1> QED
    BY <1>1, <1>2, GraphStepKeeps, PollStepKeeps, ScheduleStepKeeps DEF GrowingNext

\* What passes and polls have read stays true as far as they rely on it, while
\* the graph grows and workers move tasks.
THEOREM GrowingInvariance == GrowingSpec => []GrowingInv
  <1>1. GrowingSpec => GrowingInit /\ [][GrowingNext]_growingVars
    BY PTL DEF GrowingSpec
  <1> QED
    BY <1>1, GrowingInitial, GrowingInductive, PTL

\* Only clients touch the graph: of what a mission that is being executed does,
\* their requests are all that GraphSpec speaks of.
LEMMA GrowingProjects == GrowingSpec => GraphSpec
  <1>1. GrowingInit => GraphInit
    BY DEF GrowingInit
  <1>2. [GrowingNext]_growingVars => [GraphNext]_graphVars
    BY DEF GrowingNext, growingVars, GraphStep, ScheduleStep, PollStep, PollReads,
       PollReadsDeps, PollFindsNothing, PollClaims, WorkStep, Works
  <1>3. GrowingSpec => GrowingInit /\ [][GrowingNext]_growingVars
    BY PTL DEF GrowingSpec
  <1> QED
    BY <1>1, <1>2, <1>3, PTL DEF GraphSpec

\* Requests that do not overlap leave the graph acyclic also while passes and
\* workers read it, under the specification that the run task_graph checks.
THEOREM GrowingStaysAcyclic == GrowingSpec => []CycleFree
  BY GrowingProjects, GraphStaysAcyclic, PTL

\* However many workers and passes there are and however the graph grows, a
\* worker takes a task only when every dependency that was there when its poll
\* began has SUCCEEDED: claim_next_task reads the dependencies after the
\* statuses, and a success is final.
THEOREM WorkersKeepOrder == GrowingSpec => TakenInOrder
  <1> DEFINE Ordered ==
        \A w \in Workers : \A t \in Tasks :
          owners[t] = {} /\ owners'[t] = {w} =>
            \A p \in Tasks : <<t, p>> \in since[w] => task[p].status = "SUCCEEDED"
  <1>1. GrowingInv /\ [GrowingNext]_growingVars => [Ordered]_growingVars
    <2> SUFFICES ASSUME GrowingInv, GrowingNext, NEW w \in Workers, NEW t \in Tasks,
                        owners[t] = {}, owners'[t] = {w},
                        NEW p \in Tasks, <<t, p>> \in since[w]
                 PROVE  task[p].status = "SUCCEEDED"
      OBVIOUS
    <2>0. owners \in [Tasks -> SUBSET Workers]
      BY DEF GrowingInv, GrowingTypes
    <2>1. \E v \in Workers, u \in Tasks : PollClaims(v, u)
      <3>1. owners' # owners
        BY <2>0
      <3>2. ASSUME NEW v \in Workers, WorkStep(v) PROVE FALSE
        BY <2>0, <3>2 DEF WorkStep, Works, Pool!Report, Pool!Release
      <3> QED
        BY <3>1, <3>2 DEF GrowingNext, GraphStep, ScheduleStep, PollStep, PollReads,
           PollReadsDeps, PollFindsNothing
    <2>2. PollClaims(w, t)
      <3>1. PICK v \in Workers, u \in Tasks : PollClaims(v, u)
        BY <2>1
      <3>2. owners' = [owners EXCEPT ![u] = {v}]
        BY <3>1 DEF PollClaims, Pool!Acquire
      <3>3. u = t
        BY <2>0, <3>2
      <3>4. owners'[t] = {v}
        BY <2>0, <3>2, <3>3
      <3>5. v = w
        BY <3>4
      <3> QED
        BY <3>1, <3>3, <3>5
    <2>3. look[w].at = "claim" /\ <<t, p>> \in look[w].deps
      BY <2>2 DEF PollClaims, GrowingInv, PollsKnow
    <2>4. look[w].snap[p] = "SUCCEEDED"
      BY <2>2, <2>3 DEF PollClaims, Eligible
    <2> QED
      BY <2>4 DEF GrowingInv, PollsKnow
  <1>2. GrowingSpec => [][GrowingNext]_growingVars
    BY PTL DEF GrowingSpec
  <1> HIDE DEF Ordered
  <1>3. GrowingSpec => [][Ordered]_growingVars
    BY <1>1, <1>2, GrowingInvariance, PTL
  <1> QED
    BY <1>3 DEF TakenInOrder, Ordered

\* A pass writes BLOCKED or QUEUED, and only over a status that waits.
LEMMA PassWrites ==
  ASSUME GrowingInv, NEW s \in Schedulers, ScheduleStep(s)
  PROVE  \A t \in Tasks :
           \/ task'[t] = task[t]
           \/ /\ task[t].status \in {"PENDING", "BLOCKED"}
              /\ \E n \in {"BLOCKED", "QUEUED"} : task'[t] = [task[t] EXCEPT !.status = n]
  <1> DEFINE P == Scheduler!Published(s)
  <1>1. /\ task \in [Tasks -> [status: GrowingStatus, attempts: Nat]]
        /\ \A t \in squeued[s] : task[t].status \in {"PENDING", "BLOCKED"}
        /\ squeued[s] \subseteq Tasks
    BY DEF GrowingInv, GrowingTypes, PassesHold, Scheduler!ScheduleTypeOK
  <1>2. \A t \in Tasks : P[t] = IF t \in squeued[s] THEN [task[t] EXCEPT !.status = "QUEUED"] ELSE task[t]
    BY DEF Scheduler!Published
  <1>3. \A t : P = [P EXCEPT ![t] = P[t]] /\ DOMAIN P = Tasks
    BY DEF Scheduler!Published
  <1> HIDE DEF P
  <1>4. CASE task' = task
    BY <1>4
  <1>5. CASE Scheduler!ScheduleEnds(s)
    <2>1. task' = P
      BY <1>5 DEF Scheduler!ScheduleEnds, P
    <2> QED
      BY <1>1, <1>2, <2>1
  <1>6. ASSUME NEW u \in Tasks, Scheduler!ScheduleBlocks(s, u), NEW t \in Tasks
        PROVE  \/ task'[t] = task[t]
               \/ /\ task[t].status \in {"PENDING", "BLOCKED"}
                  /\ \E n \in {"BLOCKED", "QUEUED"} : task'[t] = [task[t] EXCEPT !.status = n]
    <2>1. task' = [P EXCEPT ![u].status = "BLOCKED"] /\ task[u].status = "PENDING"
      BY <1>6 DEF Scheduler!ScheduleBlocks, Scheduler!Still, P
    <2>2. CASE t = u
      <3>1. task'[t] = [P[t] EXCEPT !.status = "BLOCKED"]
        BY <1>3, <2>1, <2>2
      <3>2. [P[t] EXCEPT !.status = "BLOCKED"] = [task[t] EXCEPT !.status = "BLOCKED"]
        BY <1>1, <1>2
      <3> QED
        BY <2>1, <2>2, <3>1, <3>2
    <2>3. CASE t # u
      <3>1. task'[t] = P[t]
        BY <1>3, <2>1, <2>3
      <3> QED
        BY <1>1, <1>2, <3>1
    <2> QED
      BY <2>2, <2>3
  <1>7. \/ task' = task \/ Scheduler!ScheduleEnds(s)
        \/ \E u \in Tasks : Scheduler!ScheduleBlocks(s, u)
    BY DEF ScheduleStep, Scheduler!SchedulePass, Scheduler!ScheduleReads,
       Scheduler!ScheduleReadsDeps, Scheduler!ScheduleQueues, Scheduler!ScheduleSkips
  <1> QED
    BY <1>4, <1>5, <1>6, <1>7

\* A pass is a step of the abstract scheduler.
LEMMA PassSchedules ==
  ASSUME GrowingInv, NEW s \in Schedulers, ScheduleStep(s)
  PROVE  Pool!Schedule
  <1> DEFINE W == {"PENDING", "BLOCKED", "READY", "QUEUED"}
             next == [t \in Tasks |-> IF task'[t].status \in W THEN task'[t].status ELSE "BLOCKED"]
             new == [t \in Tasks |-> IF owners[t] = {} /\ task[t].status \in Pool!Waiting
                                     THEN [task[t] EXCEPT !.status = next[t]] ELSE task[t]]
  <1>1. /\ task \in [Tasks -> [status: GrowingStatus, attempts: Nat]]
        /\ task' \in [Tasks -> [status: GrowingStatus, attempts: Nat]]
        /\ \A t \in Tasks : owners[t] # {} => task[t].status \notin {"PENDING", "BLOCKED"}
    BY PassMovesRows DEF GrowingInv, GrowingTypes, Taken
  <1>2. next \in [Tasks -> W]
    OBVIOUS
  <1>3. ASSUME NEW t \in Tasks, next[t] = "PENDING" PROVE task[t].status = "PENDING"
    BY <1>1, <1>3, PassWrites
  <1>4. ASSUME NEW t \in Tasks PROVE new[t] = task'[t]
    <2>1. CASE task'[t] = task[t]
      BY <1>1, <2>1 DEF Pool!Waiting
    <2>2. CASE /\ task[t].status \in {"PENDING", "BLOCKED"}
               /\ \E n \in {"BLOCKED", "QUEUED"} : task'[t] = [task[t] EXCEPT !.status = n]
      <3>1. PICK n \in {"BLOCKED", "QUEUED"} : task'[t] = [task[t] EXCEPT !.status = n]
        BY <2>2
      <3>2. next[t] = n
        BY <1>1, <3>1
      <3>3. owners[t] = {} /\ task[t].status \in Pool!Waiting
        BY <1>1, <2>2 DEF Pool!Waiting
      <3> QED
        BY <3>1, <3>2, <3>3
    <2> QED
      BY <2>1, <2>2, PassWrites
  <1>5. task' = new
    BY <1>1, <1>4
  <1>6. UNCHANGED owners
    BY DEF ScheduleStep
  <1> HIDE DEF next
  <1> QED
    BY <1>2, <1>3, <1>5, <1>6 DEF Pool!Schedule

\* With passes that act on old reads, polls that do and a graph that grows
\* meanwhile, the tasks are still handed from the scheduler to one worker at a time
\* as TaskOwnership promises: no step takes a task back that somebody owns.
THEOREM GrowingKeepsPromise == GrowingSpec => Pool!Spec
  <1>1. GrowingInit => Pool!Init
    BY DEF GrowingInit, Pool!Init
  <1>2. GrowingInv /\ [GrowingNext]_growingVars => [Pool!Next]_Pool!vars
    <2> SUFFICES ASSUME GrowingInv, [GrowingNext]_growingVars
                 PROVE  Pool!Next \/ UNCHANGED <<task, owners>>
      BY DEF Pool!vars
    <2>1. ASSUME NEW s \in Schedulers, ScheduleStep(s) PROVE Pool!Next
      BY <2>1, PassSchedules DEF Pool!Next
    <2>2. ASSUME NEW w \in Workers, PollStep(w) PROVE Pool!Next \/ UNCHANGED <<task, owners>>
      BY <2>2 DEF PollStep, PollReads, PollReadsDeps, PollFindsNothing, PollClaims, Pool!Next
    <2>3. ASSUME NEW w \in Workers, WorkStep(w) PROVE Pool!Next
      BY <2>3 DEF WorkStep, Works, Pool!Next
    <2> QED
      BY <2>1, <2>2, <2>3 DEF GrowingNext, GraphStep, growingVars
  <1>3. GrowingSpec => GrowingInit /\ [][GrowingNext]_growingVars
    BY PTL DEF GrowingSpec
  <1> QED
    BY <1>1, <1>2, <1>3, GrowingInvariance, PTL DEF Pool!Spec


------------------------------------------------------------------------------
(* The search of the DAG validator, for any list of dependencies.          *)

Arrow(deps, p, t) == \E i \in DOMAIN deps : deps[i] = <<t, p>>

\* A set of tasks in which everybody depends on somebody.
Loop(deps) ==
  \E S \in SUBSET Ends(deps) : S # {} /\ \A t \in S : \E p \in S : Arrow(deps, p, t)

\* The nodes whose call has returned.
Left(s) == s.visited \ s.stack

\* Nothing leads out of B, and no set in B is a loop.
Settled(deps, B) ==
  /\ \A i \in DOMAIN deps : deps[i][2] \in B => deps[i][1] \in B
  /\ \A S \in SUBSET B : S # {} => \E t \in S : \A p \in S : ~Arrow(deps, p, t)

\* Between each node m of K and n: nodes of K, all but m with an arrow from one of
\* them.  A path is such a set.
PathsTo(deps, K, n) ==
  /\ n \in K
  /\ \A m \in K : \E S \in SUBSET K :
       /\ m \in S /\ n \in S
       /\ \A x \in S \ {m} : \E p \in S : Arrow(deps, p, x)

Sound(deps, s) ==
  /\ s \in SearchStates(deps) /\ ~s.cyclic /\ s.stack \subseteq s.visited
  /\ Settled(deps, Left(s))

\* What is_cyclic(n) is called with, and what it makes of it.
Before(deps, n, s) ==
  /\ Sound(deps, s) /\ n \in Ends(deps) \ s.visited
  /\ PathsTo(deps, s.stack \cup {n}, n)

After(deps, n, s, r) ==
  /\ r \in SearchStates(deps)
  /\ r.cyclic => Loop(deps)
  /\ ~r.cyclic => Sound(deps, r) /\ r.stack = s.stack /\ s.visited \cup {n} \subseteq r.visited

Calls(deps) == [Ends(deps) -> [SearchStates(deps) -> SearchStates(deps)]]

\* A call is correct where at most k nodes are unvisited.
Correct(deps, call, k) ==
  \A n \in Ends(deps), s \in SearchStates(deps) :
    Before(deps, n, s) /\ Cardinality(Ends(deps) \ s.visited) <= k => After(deps, n, s, call[n][s])

\* A list of dependencies has finitely many nodes, all of them tasks.
LEMMA EndsFinite ==
  ASSUME NEW deps \in Seq(Tasks \X Tasks)
  PROVE  /\ DOMAIN deps = 1..Len(deps) /\ Len(deps) \in Nat
         /\ \A i \in DOMAIN deps : /\ deps[i] = <<deps[i][1], deps[i][2]>>
                                   /\ deps[i][1] \in Ends(deps) /\ deps[i][2] \in Ends(deps)
         /\ Ends(deps) \in SUBSET Tasks
         /\ \A U \in SUBSET Ends(deps) : IsFiniteSet(U) /\ Cardinality(U) \in Nat
  <1>1. DOMAIN deps = 1..Len(deps) /\ Len(deps) \in Nat
    BY LenProperties
  <1>2. \A i \in DOMAIN deps : deps[i] \in Tasks \X Tasks
    BY <1>1, ElementOfSeq
  <1>3. \A i \in DOMAIN deps : deps[i] = <<deps[i][1], deps[i][2]>>
    BY <1>2
  <1>4. Ends(deps) \in SUBSET Tasks
    BY <1>2 DEF Ends
  <1>5. \A U \in SUBSET Ends(deps) : IsFiniteSet(U) /\ Cardinality(U) \in Nat
    <2> TAKE U \in SUBSET Ends(deps)
    <2>1. U \in SUBSET Tasks /\ IsFiniteSet(Tasks)
      BY <1>4, GraphAssumption
    <2> QED
      BY <2>1, FS_Subset, FS_CardinalityType
  <1> QED
    BY <1>1, <1>3, <1>4, <1>5 DEF Ends

\* A turn of the loop over the neighbors leaves a state of the search.
LEMMA LookAtTyped ==
  ASSUME NEW deps \in Seq(Tasks \X Tasks), NEW call \in Calls(deps),
         NEW n, NEW s \in SearchStates(deps), NEW i \in DOMAIN deps
  PROVE  LookAt(call, n, deps[i], s) \in SearchStates(deps)
  <1>1. deps[i][1] \in Ends(deps)
    BY EndsFinite
  <1>2. call[deps[i][1]][s] \in SearchStates(deps)
    BY <1>1 DEF Calls
  <1>3. [s EXCEPT !.cyclic = deps[i][1] \in s.stack] \in SearchStates(deps)
    <2>1. (deps[i][1] \in s.stack) \in BOOLEAN
      OBVIOUS
    <2> QED
      BY <2>1 DEF SearchStates
  <1> QED
    BY <1>2, <1>3 DEF LookAt

\* is_cyclic begins by visiting its node.
LEMMA EnteredTyped ==
  ASSUME NEW deps, NEW n \in Ends(deps), NEW s \in SearchStates(deps)
  PROVE  /\ Entered(n, s) \in SearchStates(deps)
         /\ Entered(n, s).visited = s.visited \cup {n}
         /\ Entered(n, s).stack = s.stack \cup {n}
         /\ Entered(n, s).cyclic = s.cyclic
  BY DEF Entered, SearchStates

\* The loop over the neighbors, turn by turn.
LEMMA LookedTurns ==
  ASSUME NEW deps \in Seq(Tasks \X Tasks), NEW call \in Calls(deps),
         NEW n \in Ends(deps), NEW s \in SearchStates(deps)
  PROVE  \E f \in [0..Len(deps) -> SearchStates(deps)] :
           /\ f[0] = Entered(n, s)
           /\ \A i \in DOMAIN deps : f[i] = LookAt(call, n, deps[i], f[i - 1])
           /\ Looked(deps, call, n, s) = f[Len(deps)]
  <1> DEFINE N == Len(deps)
             A == SearchStates(deps)
             a == Entered(n, s)
             Turns(f) == f = [i \in 0..N |-> IF i = 0 THEN a ELSE LookAt(call, n, deps[i], f[i - 1])]
             g == [i \in 1..N |-> [x \in A |-> LookAt(call, n, deps[i], x)]]
  <1>1. N \in Nat /\ DOMAIN deps = 1..N /\ a \in A
    BY EndsFinite, EnteredTyped
  <1>2. \A i \in 1..N : \A x \in A : LookAt(call, n, deps[i], x) \in A
    BY <1>1, LookAtTyped
  <1>3. g \in [1..N -> [A -> A]]
    <2>1. \A i \in 1..N : [x \in A |-> LookAt(call, n, deps[i], x)] \in [A -> A]
      BY <1>2
    <2> QED
      BY <2>1
  <1>4. \A i \in 1..N : \A x \in A : g[i][x] = LookAt(call, n, deps[i], x)
    OBVIOUS
  <1>5. Looked(deps, call, n, s) = (CHOOSE f : Turns(f))[N]
    BY DEF Looked
  <1> HIDE DEF g, a, A, N
  <1>6. PICK h \in [0..N -> A] : Recursion(h, N, a, g)
    BY <1>1, <1>3, RecursionExists
  <1>7. \A i \in 0..N : i # 0 => g[i][h[i - 1]] = LookAt(call, n, deps[i], h[i - 1])
    <2> SUFFICES ASSUME NEW i \in 0..N, i # 0
                 PROVE  g[i][h[i - 1]] = LookAt(call, n, deps[i], h[i - 1])
      OBVIOUS
    <2>1. i \in 1..N /\ i - 1 \in 0..N
      BY <1>1
    <2> QED
      BY <1>4, <2>1
  <1>8. Turns(h)
    BY <1>6, <1>7, Zenon DEF Recursion
  <1> DEFINE f == CHOOSE f : Turns(f)
  <1>9. Turns(f)
    BY <1>8
  <1> HIDE DEF f
  <1>10. f[0] = a /\ \A i \in 1..N : f[i] = LookAt(call, n, deps[i], f[i - 1])
    <2>1. 0 \in 0..N /\ \A i \in 1..N : i \in 0..N /\ i # 0
      BY <1>1
    <2> QED
      BY <1>9, <2>1
  <1> DEFINE S == {i \in Nat : i <= N => f[i] \in A}
  <1>11. 0 \in S
    BY <1>1, <1>10
  <1>12. ASSUME NEW i \in Nat, i \in S PROVE i + 1 \in S
    <2> SUFFICES ASSUME i + 1 <= N PROVE f[i + 1] \in A
      OBVIOUS
    <2>1. f[i] \in A /\ i + 1 \in 1..N /\ (i + 1) - 1 = i
      BY <1>1, <1>12
    <2> QED
      BY <1>2, <1>10, <2>1
  <1>13. Nat \subseteq S
    <2> HIDE DEF S
    <2> QED
      BY <1>11, <1>12, Numbers
  <1>14. f \in [0..N -> A]
    <2>1. \A i \in 0..N : f[i] \in A
      BY <1>1, <1>13
    <2>2. f = [i \in 0..N |-> f[i]]
      BY <1>9
    <2> QED
      BY <2>1, <2>2
  <1> QED
    BY <1>1, <1>5, <1>10, <1>14 DEF f, a, A, N

\* A call of is_cyclic leaves a state of the search.
LEMMA IsCyclicTyped ==
  ASSUME NEW deps \in Seq(Tasks \X Tasks), NEW call \in Calls(deps),
         NEW n \in Ends(deps), NEW s \in SearchStates(deps)
  PROVE  IsCyclic(deps, call, n, s) \in SearchStates(deps)
  <1>1. PICK f \in [0..Len(deps) -> SearchStates(deps)] : Looked(deps, call, n, s) = f[Len(deps)]
    BY LookedTurns
  <1>2. Looked(deps, call, n, s) \in SearchStates(deps)
    BY <1>1, EndsFinite
  <1> QED
    BY <1>2 DEF IsCyclic, SearchStates

\* A path to n that goes on along an arrow.
LEMMA PathsGrow ==
  ASSUME NEW deps, NEW K, NEW n, NEW m, PathsTo(deps, K, n), Arrow(deps, n, m)
  PROVE  PathsTo(deps, K \cup {m}, m)
  <1>1. ASSUME NEW k \in K \cup {m}
        PROVE  \E S \in SUBSET (K \cup {m}) :
                 /\ k \in S /\ m \in S
                 /\ \A x \in S \ {k} : \E p \in S : Arrow(deps, p, x)
    <2>1. CASE k = m
      <3>1. {m} \in SUBSET (K \cup {m}) /\ {m} \ {k} = {}
        BY <2>1
      <3> QED
        BY <2>1, <3>1
    <2>2. CASE k \in K
      <3>1. PICK S \in SUBSET K : /\ k \in S /\ n \in S
                                 /\ \A x \in S \ {k} : \E p \in S : Arrow(deps, p, x)
        BY <2>2 DEF PathsTo
      <3> DEFINE R == S \cup {m}
      <3>2. R \in SUBSET (K \cup {m}) /\ k \in R /\ m \in R /\ n \in R
        BY <3>1
      <3>3. \A x \in R \ {k} : \E p \in R : Arrow(deps, p, x)
        BY <3>1
      <3> QED
        BY <3>2, <3>3
    <2> QED
      BY <2>1, <2>2
  <1> QED
    BY <1>1 DEF PathsTo

\* An arrow from the end of the path back into it closes a loop.
LEMMA BackArrow ==
  ASSUME NEW deps, NEW K \in SUBSET Ends(deps), NEW n, NEW m \in K,
         PathsTo(deps, K, n), Arrow(deps, n, m)
  PROVE  Loop(deps)
  <1>1. PICK S \in SUBSET K : /\ m \in S /\ n \in S
                             /\ \A x \in S \ {m} : \E p \in S : Arrow(deps, p, x)
    BY DEF PathsTo
  <1>2. \A x \in S : \E p \in S : Arrow(deps, p, x)
    BY <1>1
  <1> QED
    BY <1>1, <1>2 DEF Loop

\* A node that leads to settled nodes only settles.
LEMMA NodeSettles ==
  ASSUME NEW deps, NEW B, NEW n, n \notin B, Settled(deps, B),
         \A i \in DOMAIN deps : deps[i][2] = n => deps[i][1] \in B
  PROVE  Settled(deps, B \cup {n})
  <1>1. \A i \in DOMAIN deps : deps[i][2] \in B \cup {n} => deps[i][1] \in B \cup {n}
    BY DEF Settled
  <1>2. ASSUME NEW S \in SUBSET (B \cup {n}), S # {}
        PROVE  \E t \in S : \A p \in S : ~Arrow(deps, p, t)
    <2>1. CASE n \in S
      <3>1. ASSUME NEW p \in S, Arrow(deps, p, n) PROVE FALSE
        <4>1. PICK i \in DOMAIN deps : deps[i] = <<n, p>>
          BY <3>1 DEF Arrow
        <4>2. deps[i][1] = n /\ deps[i][2] = p
          BY <4>1
        <4> QED
          BY <4>2 DEF Settled
      <3> QED
        BY <2>1, <3>1
    <2>2. CASE n \notin S
      <3>1. S \in SUBSET B
        BY <2>2
      <3> QED
        BY <1>2, <3>1 DEF Settled
    <2> QED
      BY <2>1, <2>2
  <1> QED
    BY <1>1, <1>2 DEF Settled

\* The loop over the neighbors of n, after i turns, where the call got the state s.
Turned(deps, n, s, i, r) ==
  /\ r \in SearchStates(deps)
  /\ r.cyclic => Loop(deps)
  /\ ~r.cyclic =>
       /\ Sound(deps, r) /\ r.stack = s.stack \cup {n} /\ s.visited \cup {n} \subseteq r.visited
       /\ \A j \in 1..i : deps[j][2] = n => deps[j][1] \in Left(r)

\* A turn finds a loop, or the neighbor settled once its call has returned.
LEMMA TurnKeeps ==
  ASSUME NEW deps \in Seq(Tasks \X Tasks), NEW call \in Calls(deps), NEW k \in Nat,
         Correct(deps, call, k),
         NEW n \in Ends(deps), NEW s \in SearchStates(deps), Before(deps, n, s),
         Cardinality(Ends(deps) \ s.visited) <= k + 1,
         NEW i \in DOMAIN deps, NEW r, Turned(deps, n, s, i - 1, r)
  PROVE  Turned(deps, n, s, i, LookAt(call, n, deps[i], r))
  <1> DEFINE V == Ends(deps)
             m == deps[i][1]
             q == LookAt(call, n, deps[i], r)
  <1>1. /\ i \in 1..Len(deps) /\ Len(deps) \in Nat /\ m \in V /\ deps[i] = <<m, deps[i][2]>>
        /\ \A U \in SUBSET V : IsFiniteSet(U) /\ Cardinality(U) \in Nat
    BY EndsFinite
  <1>2. \A j \in 1..i : j = i \/ j \in 1..(i - 1)
    BY <1>1
  <1>3. r \in SearchStates(deps) /\ q \in SearchStates(deps)
    BY LookAtTyped DEF Turned
  <1>4. CASE r.cyclic \/ deps[i][2] # n
    <2>1. q = r
      BY <1>4 DEF LookAt
    <2> QED
      BY <1>2, <1>4, <2>1 DEF Turned
  <1>5. CASE ~r.cyclic /\ deps[i][2] = n
    <2>1. /\ Sound(deps, r) /\ r.stack = s.stack \cup {n} /\ s.visited \cup {n} \subseteq r.visited
          /\ \A j \in 1..(i - 1) : deps[j][2] = n => deps[j][1] \in Left(r)
      BY <1>5 DEF Turned
    <2>2. Arrow(deps, n, m) /\ PathsTo(deps, r.stack, n)
      BY <1>1, <1>5, <2>1 DEF Arrow, Before
    <2>3. CASE m \notin r.visited
      <3>1. q = call[m][r]
        BY <1>5, <2>3 DEF LookAt
      <3>2. Before(deps, m, r)
        BY <1>1, <2>1, <2>2, <2>3, PathsGrow DEF Before
      <3>3. Cardinality(V \ r.visited) <= k
        <4>1. V \ r.visited \in SUBSET (V \ s.visited) /\ n \in V \ s.visited /\ n \notin V \ r.visited
              /\ V \ s.visited \in SUBSET V /\ V \ r.visited \in SUBSET V
          BY <2>1 DEF Before
        <4>2. /\ Cardinality(V \ r.visited) <= Cardinality(V \ s.visited)
              /\ Cardinality(V \ r.visited) # Cardinality(V \ s.visited)
          BY <1>1, <4>1, FS_Subset
        <4>3. Cardinality(V \ r.visited) \in Nat /\ Cardinality(V \ s.visited) \in Nat
          BY <1>1, <4>1
        <4> QED
          BY <4>2, <4>3
      <3>4. After(deps, m, r, q)
        BY <1>1, <1>3, <3>1, <3>2, <3>3 DEF Correct
      <3>5. CASE q.cyclic
        BY <1>3, <3>4, <3>5 DEF After, Turned
      <3>6. CASE ~q.cyclic
        <4>1. Sound(deps, q) /\ q.stack = r.stack /\ r.visited \cup {m} \subseteq q.visited
          BY <3>4, <3>6 DEF After
        <4>2. r.stack \subseteq r.visited
          BY <2>1 DEF Sound
        <4>3. Left(r) \subseteq Left(q) /\ m \in Left(q)
          BY <2>3, <4>1, <4>2 DEF Left
        <4> QED
          BY <1>2, <1>3, <2>1, <3>6, <4>1, <4>3 DEF Turned
      <3> QED
        BY <3>5, <3>6
    <2>4. CASE m \in r.visited /\ m \in r.stack
      <3>1. r.stack \in SUBSET V
        BY <1>3 DEF SearchStates
      <3>2. Loop(deps)
        BY <2>2, <2>4, <3>1, BackArrow
      <3>3. q = [r EXCEPT !.cyclic = m \in r.stack]
        BY <1>5, <2>4 DEF LookAt
      <3>4. q.cyclic
        BY <1>3, <2>4, <3>3 DEF SearchStates
      <3> QED
        BY <1>3, <3>2, <3>4 DEF Turned
    <2>5. CASE m \in r.visited /\ m \notin r.stack
      <3>1. q = [r EXCEPT !.cyclic = m \in r.stack] /\ r.cyclic = FALSE
        BY <1>3, <1>5, <2>5 DEF LookAt, SearchStates
      <3>2. q = r
        BY <1>3, <2>5, <3>1 DEF SearchStates
      <3>3. m \in Left(r)
        BY <2>5 DEF Left
      <3> QED
        BY <1>2, <1>3, <1>5, <2>1, <3>2, <3>3 DEF Turned
    <2> QED
      BY <2>3, <2>4, <2>5
  <1> QED
    BY <1>4, <1>5

\* is_cyclic is correct if the calls it makes are.
LEMMA CallCorrect ==
  ASSUME NEW deps \in Seq(Tasks \X Tasks), NEW call \in Calls(deps), NEW k \in Nat,
         Correct(deps, call, k),
         NEW n \in Ends(deps), NEW s \in SearchStates(deps), Before(deps, n, s),
         Cardinality(Ends(deps) \ s.visited) <= k + 1
  PROVE  After(deps, n, s, IsCyclic(deps, call, n, s))
  <1> DEFINE N == Len(deps)
             looked == Looked(deps, call, n, s)
             r == IsCyclic(deps, call, n, s)
  <1>1. N \in Nat /\ DOMAIN deps = 1..N
    BY EndsFinite
  <1>2. PICK f \in [0..N -> SearchStates(deps)] :
          /\ f[0] = Entered(n, s)
          /\ \A i \in DOMAIN deps : f[i] = LookAt(call, n, deps[i], f[i - 1])
          /\ looked = f[N]
    BY LookedTurns
  <1> DEFINE S == {i \in Nat : i <= N => Turned(deps, n, s, i, f[i])}
  <1>3. 0 \in S
    <2>1. /\ f[0] \in SearchStates(deps) /\ f[0].visited = s.visited \cup {n}
          /\ f[0].stack = s.stack \cup {n} /\ f[0].cyclic = s.cyclic
      BY <1>2, EnteredTyped
    <2>2. Sound(deps, s) /\ n \notin s.visited /\ s.cyclic = FALSE
      BY DEF Before, Sound, SearchStates
    <2>3. Left(f[0]) = Left(s)
      BY <2>1, <2>2 DEF Left
    <2>4. Sound(deps, f[0])
      BY <2>1, <2>2, <2>3 DEF Sound
    <2> QED
      BY <2>1, <2>2, <2>4 DEF Turned
  <1>4. ASSUME NEW i \in Nat, i \in S PROVE i + 1 \in S
    <2> SUFFICES ASSUME i + 1 <= N PROVE Turned(deps, n, s, i + 1, f[i + 1])
      OBVIOUS
    <2>1. i + 1 \in DOMAIN deps /\ (i + 1) - 1 = i /\ i <= N
      BY <1>1
    <2>2. Turned(deps, n, s, (i + 1) - 1, f[i])
      BY <1>4, <2>1
    <2>3. Turned(deps, n, s, i + 1, LookAt(call, n, deps[i + 1], f[i]))
      BY <2>1, <2>2, TurnKeeps
    <2> QED
      BY <1>2, <2>1, <2>3
  <1> HIDE DEF S
  <1>5. N \in S
    BY <1>1, <1>3, <1>4, Numbers
  <1>6. Turned(deps, n, s, N, looked)
    BY <1>1, <1>2, <1>5 DEF S
  <1> HIDE DEF looked
  <1>7. r = IF looked.cyclic THEN looked ELSE [looked EXCEPT !.stack = @ \ {n}]
    BY DEF IsCyclic, looked
  <1>8. CASE looked.cyclic
    BY <1>6, <1>7, <1>8 DEF After, Turned
  <1>9. CASE ~looked.cyclic
    <2>1. /\ looked \in SearchStates(deps)
          /\ Sound(deps, looked) /\ looked.stack = s.stack \cup {n}
          /\ s.visited \cup {n} \subseteq looked.visited
          /\ \A j \in 1..N : deps[j][2] = n => deps[j][1] \in Left(looked)
      BY <1>6, <1>9 DEF Turned
    <2>2. s.stack \subseteq s.visited /\ n \notin s.visited
      BY DEF Before, Sound
    <2>3. /\ r \in SearchStates(deps) /\ r.cyclic = FALSE /\ r.visited = looked.visited
          /\ r.stack = looked.stack \ {n}
      BY <1>7, <1>9, <2>1 DEF SearchStates
    <2>4. r.stack = s.stack
      BY <2>1, <2>2, <2>3
    <2>5. Left(r) = Left(looked) \cup {n} /\ n \notin Left(looked)
      BY <2>1, <2>2, <2>3 DEF Left
    <2>6. Settled(deps, Left(r))
      BY <1>1, <2>1, <2>5, NodeSettles DEF Sound
    <2>7. r.stack \subseteq r.visited
      BY <2>1, <2>2, <2>3, <2>4
    <2> QED
      BY <2>1, <2>3, <2>4, <2>6, <2>7 DEF After, Sound
  <1> QED
    BY <1>8, <1>9

\* The table of calls, depth by depth.
LEMMA SearchCalls ==
  ASSUME NEW deps \in Seq(Tasks \X Tasks)
  PROVE  \E f \in [0..Cardinality(Ends(deps)) -> Calls(deps)] :
           /\ \A d \in 1..Cardinality(Ends(deps)) : \A n \in Ends(deps), s \in SearchStates(deps) :
                f[d][n][s] = IsCyclic(deps, f[d - 1], n, s)
           /\ Search(deps) = f[Cardinality(Ends(deps))]
  <1> DEFINE D == Cardinality(Ends(deps))
             V == Ends(deps)
             Q == SearchStates(deps)
             A == Calls(deps)
             Table(f, d) == [n \in V |-> [s \in Q |-> IF d = 0 THEN s ELSE IsCyclic(deps, f[d - 1], n, s)]]
             Tables(f) == f = [d \in 0..D |-> Table(f, d)]
             Further(c) == [n \in V |-> [s \in Q |-> IsCyclic(deps, c, n, s)]]
             a == [n \in V |-> [s \in Q |-> s]]
             g == [d \in 1..D |-> [c \in A |-> Further(c)]]
  <1>1. D \in Nat
    BY EndsFinite
  <1>2. \A c \in A : Further(c) \in A
    <2> TAKE c \in A
    <2>1. \A n \in V, s \in Q : IsCyclic(deps, c, n, s) \in Q
      BY IsCyclicTyped
    <2> QED
      BY <2>1 DEF Calls
  <1>3. g \in [1..D -> [A -> A]] /\ a \in A
    <2>1. a \in A
      BY DEF Calls
    <2> HIDE DEF A, Further
    <2>2. [c \in A |-> Further(c)] \in [A -> A]
      BY <1>2
    <2> QED
      BY <2>1, <2>2
  <1>4. \A d \in 1..D : \A c \in A : g[d][c] = Further(c)
    OBVIOUS
  <1>5. Search(deps) = (CHOOSE f : Tables(f))[D]
    BY DEF Search
  <1>6. ASSUME NEW f PROVE Table(f, 0) = a /\ \A d \in 0..D : d # 0 => Table(f, d) = Further(f[d - 1])
    OBVIOUS
  <1> HIDE DEF g, a, A, D, Table, Further
  <1>7. PICK h \in [0..D -> A] : Recursion(h, D, a, g)
    BY <1>1, <1>3, RecursionExists
  <1>8. \A d \in 0..D : d # 0 => g[d][h[d - 1]] = Table(h, d)
    <2> SUFFICES ASSUME NEW d \in 0..D, d # 0 PROVE g[d][h[d - 1]] = Table(h, d)
      OBVIOUS
    <2>1. d \in 1..D /\ d - 1 \in 0..D
      BY <1>1
    <2>2. g[d][h[d - 1]] = Further(h[d - 1])
      BY <1>4, <2>1
    <2> QED
      BY <1>6, <2>2
  <1>9. Tables(h)
    <2>1. \A d \in 0..D : (IF d = 0 THEN a ELSE g[d][h[d - 1]]) = Table(h, d)
      BY <1>6, <1>8
    <2> QED
      BY <1>7, <2>1, Zenon DEF Recursion
  <1> DEFINE f == CHOOSE f : Tables(f)
  <1>10. Tables(f)
    BY <1>9
  <1> HIDE DEF f
  <1>11. f[0] = a /\ \A d \in 1..D : f[d] = Further(f[d - 1])
    <2>1. 0 \in 0..D /\ \A d \in 1..D : d \in 0..D /\ d # 0
      BY <1>1
    <2>2. \A d \in 0..D : f[d] = Table(f, d)
      BY <1>10
    <2> QED
      BY <1>6, <2>1, <2>2
  <1> DEFINE S == {d \in Nat : d <= D => f[d] \in A}
  <1>12. 0 \in S
    BY <1>3, <1>11
  <1>13. ASSUME NEW d \in Nat, d \in S PROVE d + 1 \in S
    <2> SUFFICES ASSUME d + 1 <= D PROVE f[d + 1] \in A
      OBVIOUS
    <2>1. f[d] \in A /\ d + 1 \in 1..D /\ (d + 1) - 1 = d
      BY <1>1, <1>13
    <2> QED
      BY <1>2, <1>11, <2>1
  <1>14. Nat \subseteq S
    <2> HIDE DEF S
    <2> QED
      BY <1>12, <1>13, Numbers
  <1>15. f \in [0..D -> A]
    <2>1. \A d \in 0..D : f[d] \in A
      BY <1>1, <1>14
    <2>2. f = [d \in 0..D |-> f[d]]
      BY <1>10
    <2> QED
      BY <2>1, <2>2
  <1>16. \A d \in 1..D : \A n \in V, s \in Q : f[d][n][s] = IsCyclic(deps, f[d - 1], n, s)
    <2>1. \A c : \A n \in V, s \in Q : Further(c)[n][s] = IsCyclic(deps, c, n, s)
      BY DEF Further
    <2> QED
      BY <1>11, <2>1
  <1> QED
    BY <1>5, <1>15, <1>16 DEF f, A, D

\* The search from a node, whatever has been searched before.
LEMMA SearchCorrect ==
  ASSUME NEW deps \in Seq(Tasks \X Tasks)
  PROVE  /\ Search(deps) \in Calls(deps)
         /\ \A n \in Ends(deps), s \in SearchStates(deps) :
              Before(deps, n, s) => After(deps, n, s, Search(deps)[n][s])
  <1> DEFINE D == Cardinality(Ends(deps))
  <1>1. PICK f \in [0..D -> Calls(deps)] :
          /\ \A d \in 1..D : \A n \in Ends(deps), s \in SearchStates(deps) :
               f[d][n][s] = IsCyclic(deps, f[d - 1], n, s)
          /\ Search(deps) = f[D]
    BY SearchCalls
  <1>2. D \in Nat
    BY EndsFinite
  <1> DEFINE S == {d \in Nat : d <= D => Correct(deps, f[d], d)}
  <1>3. 0 \in S
    <2> SUFFICES ASSUME NEW n \in Ends(deps), NEW s \in SearchStates(deps),
                        Before(deps, n, s), Cardinality(Ends(deps) \ s.visited) <= 0
                 PROVE  FALSE
      BY DEF Correct
    <2> DEFINE U == Ends(deps) \ s.visited
    <2>1. n \in U /\ IsFiniteSet(U) /\ Cardinality(U) \in Nat
      BY EndsFinite DEF Before
    <2>2. Cardinality(U) # 0
      BY <2>1, FS_EmptySet
    <2> QED
      BY <2>1, <2>2
  <1>4. ASSUME NEW d \in Nat, d \in S PROVE d + 1 \in S
    <2> SUFFICES ASSUME d + 1 <= D PROVE Correct(deps, f[d + 1], d + 1)
      OBVIOUS
    <2>1. d + 1 \in 1..D /\ (d + 1) - 1 = d /\ d \in 0..D
      BY <1>2
    <2>2. Correct(deps, f[d], d) /\ f[d] \in Calls(deps)
      BY <1>4, <2>1
    <2>3. ASSUME NEW n \in Ends(deps), NEW s \in SearchStates(deps), Before(deps, n, s),
                 Cardinality(Ends(deps) \ s.visited) <= d + 1
          PROVE  After(deps, n, s, f[d + 1][n][s])
      <3>1. After(deps, n, s, IsCyclic(deps, f[d], n, s))
        BY <2>2, <2>3, CallCorrect
      <3>2. f[d + 1][n][s] = IsCyclic(deps, f[d], n, s)
        BY <1>1, <2>1
      <3> QED
        BY <3>1, <3>2
    <2> QED
      BY <2>3 DEF Correct
  <1> HIDE DEF S
  <1>5. D \in S
    BY <1>2, <1>3, <1>4, Numbers
  <1>6. Correct(deps, Search(deps), D) /\ Search(deps) \in Calls(deps)
    <2>1. D \in 0..D
      BY <1>2
    <2> QED
      BY <1>1, <1>5, <2>1 DEF S
  <1>7. \A s \in SearchStates(deps) : Cardinality(Ends(deps) \ s.visited) <= D
    <2> TAKE s \in SearchStates(deps)
    <2>1. Ends(deps) \ s.visited \in SUBSET Ends(deps) /\ IsFiniteSet(Ends(deps))
      BY EndsFinite
    <2> QED
      BY <2>1, FS_Subset
  <1> QED
    BY <1>6, <1>7 DEF Correct

\* The outer loop after i turns.
Started(deps, i, r) ==
  /\ r \in SearchStates(deps)
  /\ r.cyclic => Loop(deps)
  /\ ~r.cyclic => Sound(deps, r) /\ r.stack = {} /\ \A j \in 1..i : deps[j][2] \in r.visited

\* A turn of the loop over the graph leaves its node visited, or finds a loop.
LEMMA StartKeeps ==
  ASSUME NEW deps \in Seq(Tasks \X Tasks), NEW i \in DOMAIN deps, NEW r, Started(deps, i - 1, r)
  PROVE  Started(deps, i, StartAt(deps, deps[i], r))
  <1> DEFINE n == deps[i][2]
             q == StartAt(deps, deps[i], r)
  <1>1. i \in 1..Len(deps) /\ Len(deps) \in Nat /\ n \in Ends(deps) /\ r \in SearchStates(deps)
    BY EndsFinite DEF Started
  <1>2. \A j \in 1..i : j = i \/ j \in 1..(i - 1)
    BY <1>1
  <1>3. CASE r.cyclic \/ n \in r.visited
    <2>1. q = r
      BY <1>3 DEF StartAt
    <2> QED
      BY <1>2, <1>3, <2>1 DEF Started
  <1>4. CASE ~r.cyclic /\ n \notin r.visited
    <2>1. q = Search(deps)[n][r]
      BY <1>4 DEF StartAt
    <2>2. Sound(deps, r) /\ r.stack = {} /\ \A j \in 1..(i - 1) : deps[j][2] \in r.visited
      BY <1>4 DEF Started
    <2>3. PathsTo(deps, {n}, n)
      <3>1. {n} \in SUBSET {n} /\ {n} \ {n} = {}
        OBVIOUS
      <3> QED
        BY <3>1 DEF PathsTo
    <2>4. r.stack \cup {n} = {n}
      BY <2>2
    <2>5. Before(deps, n, r)
      BY <1>1, <1>4, <2>2, <2>3, <2>4 DEF Before
    <2>6. After(deps, n, r, q)
      BY <1>1, <2>1, <2>5, SearchCorrect
    <2> QED
      BY <1>2, <2>2, <2>6 DEF After, Started
  <1> QED
    BY <1>3, <1>4

\* The whole loop over the graph.
LEMMA AllStarted ==
  ASSUME NEW deps \in Seq(Tasks \X Tasks)
  PROVE  \E r : Started(deps, Len(deps), r) /\ Cyclic(deps) = r.cyclic
  <1> DEFINE N == Len(deps)
             A == SearchStates(deps)
             Turns(f) == f = [i \in 0..N |-> IF i = 0 THEN Unsearched ELSE StartAt(deps, deps[i], f[i - 1])]
             g == [i \in 1..N |-> [x \in A |-> StartAt(deps, deps[i], x)]]
  <1>1. N \in Nat /\ DOMAIN deps = 1..N
    BY EndsFinite
  <1>2. Unsearched \in A
    BY DEF Unsearched, SearchStates
  <1>3. g \in [1..N -> [A -> A]]
    <2>1. \A i \in 1..N : \A x \in A : StartAt(deps, deps[i], x) \in A
      BY <1>1, EndsFinite, SearchCorrect DEF StartAt, Calls
    <2>2. \A i \in 1..N : [x \in A |-> StartAt(deps, deps[i], x)] \in [A -> A]
      BY <2>1
    <2> QED
      BY <2>2
  <1>4. \A i \in 1..N : \A x \in A : g[i][x] = StartAt(deps, deps[i], x)
    OBVIOUS
  <1>5. Cyclic(deps) = (CHOOSE f : Turns(f))[N].cyclic
    BY DEF Cyclic
  <1> HIDE DEF g, A, N
  <1>6. PICK h \in [0..N -> A] : Recursion(h, N, Unsearched, g)
    BY <1>1, <1>2, <1>3, RecursionExists
  <1>7. \A i \in 0..N : i # 0 => g[i][h[i - 1]] = StartAt(deps, deps[i], h[i - 1])
    <2> SUFFICES ASSUME NEW i \in 0..N, i # 0
                 PROVE  g[i][h[i - 1]] = StartAt(deps, deps[i], h[i - 1])
      OBVIOUS
    <2>1. i \in 1..N /\ i - 1 \in 0..N
      BY <1>1
    <2> QED
      BY <1>4, <2>1
  <1>8. Turns(h)
    BY <1>6, <1>7, Zenon DEF Recursion
  <1> DEFINE f == CHOOSE f : Turns(f)
  <1>9. Turns(f)
    BY <1>8
  <1> HIDE DEF f
  <1>10. f[0] = Unsearched /\ \A i \in 1..N : f[i] = StartAt(deps, deps[i], f[i - 1])
    <2>1. 0 \in 0..N /\ \A i \in 1..N : i \in 0..N /\ i # 0
      BY <1>1
    <2> QED
      BY <1>9, <2>1
  <1> DEFINE S == {i \in Nat : i <= N => Started(deps, i, f[i])}
  <1>11. 0 \in S
    <2>1. Left(Unsearched) = {} /\ 1..0 = {}
      BY DEF Left, Unsearched
    <2>2. Settled(deps, {})
      BY DEF Settled
    <2>3. Started(deps, 0, Unsearched)
      BY <1>2, <2>1, <2>2 DEF Started, Sound, Unsearched, A
    <2> QED
      BY <1>10, <2>3
  <1>12. ASSUME NEW i \in Nat, i \in S PROVE i + 1 \in S
    <2> SUFFICES ASSUME i + 1 <= N PROVE Started(deps, i + 1, f[i + 1])
      OBVIOUS
    <2>1. Started(deps, i, f[i]) /\ i + 1 \in 1..N /\ (i + 1) - 1 = i
      BY <1>1, <1>12
    <2> QED
      BY <1>1, <1>10, <2>1, StartKeeps
  <1> HIDE DEF S
  <1>13. N \in S
    BY <1>1, <1>11, <1>12, Numbers
  <1>14. Started(deps, N, f[N])
    BY <1>1, <1>13 DEF S
  <1>15. Cyclic(deps) = f[N].cyclic
    BY <1>5 DEF f
  <1> HIDE DEF Turns
  <1> QED
    BY <1>14, <1>15 DEF N

\* What GraphAssumption asks of the search, and DAGValidator does: for any list of
\* dependencies, in whatever order the rows were read, it raises
\* DAGCycleError exactly when some of the tasks all depend on one of them.
THEOREM SearchFindsCycles ==
  ASSUME NEW deps \in Seq(Tasks \X Tasks)
  PROVE  Cyclic(deps) <=> ~Acyclic({deps[i] : i \in DOMAIN deps})
  <1> DEFINE E == {deps[i] : i \in DOMAIN deps}
  <1>1. \A t, p : Arrow(deps, p, t) <=> <<t, p>> \in E
    BY DEF Arrow
  <1>2. PICK r : Started(deps, Len(deps), r) /\ Cyclic(deps) = r.cyclic
    BY AllStarted
  <1>3. CASE Cyclic(deps)
    <2>1. Loop(deps)
      BY <1>2, <1>3 DEF Started
    <2>2. PICK S \in SUBSET Ends(deps) : S # {} /\ \A t \in S : \E p \in S : Arrow(deps, p, t)
      BY <2>1 DEF Loop
    <2>3. S \in (SUBSET Tasks) \ {{}}
      BY <2>2, EndsFinite
    <2>4. \A t \in S : \E p \in S : <<t, p>> \in E
      BY <1>1, <2>2
    <2> QED
      BY <1>3, <2>3, <2>4 DEF Acyclic
  <1>4. CASE ~Cyclic(deps)
    <2>1. Sound(deps, r) /\ r.stack = {} /\ \A j \in 1..Len(deps) : deps[j][2] \in r.visited
      BY <1>2, <1>4 DEF Started
    <2>2. Left(r) = r.visited /\ Settled(deps, r.visited)
      BY <2>1 DEF Left, Sound
    <2>3. ASSUME NEW t, NEW p, <<t, p>> \in E PROVE t \in r.visited
      <3>1. PICK i \in DOMAIN deps : deps[i] = <<t, p>>
        BY <2>3
      <3>2. deps[i][1] = t /\ deps[i][2] \in r.visited
        BY <2>1, <3>1, EndsFinite
      <3> QED
        BY <2>2, <3>1, <3>2 DEF Settled
    <2>4. ASSUME NEW S \in (SUBSET Tasks) \ {{}}
          PROVE  \E t \in S : \A p \in S : <<t, p>> \notin E
      <3>1. CASE S \subseteq r.visited
        <4>1. PICK t \in S : \A p \in S : ~Arrow(deps, p, t)
          BY <2>2, <3>1 DEF Settled
        <4> QED
          BY <1>1, <4>1
      <3>2. CASE ~(S \subseteq r.visited)
        BY <2>3, <3>2
      <3> QED
        BY <3>1, <3>2
    <2> QED
      BY <1>4, <2>4 DEF Acyclic
  <1> QED
    BY <1>3, <1>4

\* Whether a dependency is refused is a matter of the set of rows: lists with the
\* same dependencies get the same answer, the one that add_dependency acts on.
COROLLARY SearchAgrees ==
  ASSUME NEW deps \in Seq(Tasks \X Tasks), NEW E \in SUBSET (Tasks \X Tasks),
         E = {deps[i] : i \in DOMAIN deps}
  PROVE  FindsCycle(E) <=> Cyclic(deps)
  BY SearchFindsCycles, GraphAssumption
=============================================================================
