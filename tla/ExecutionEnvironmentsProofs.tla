-------------------- MODULE ExecutionEnvironmentsProofs --------------------
(***************************************************************************)
(* What holds of the environments of a task execution for any number of    *)
(* callers and sweepers.                                                   *)
(*                                                                         *)
(* Every operation ends with a blind write of a copy made earlier, so that *)
(* the properties rest on who may hold a copy at all.  Lifecycle says that *)
(* a row is CREATING exactly as long as its creator may still publish it   *)
(* and that the creator is alone with it.  Ownership says that in a git    *)
(* repository at most one environment has ever had the directory, because  *)
(* the branch is never deleted.                                            *)
(***************************************************************************)
EXTENDS ExecutionEnvironments, TLAPS

Jobs == Callers \cup Sweepers

Finished == {"FAILED", "CLEANING_UP", "DESTROYED"}

\* j may change the row it works on, or the directory.
Active(j) == job[j].at \in {"adding", "marking", "removing", "sweeping", "publishing"}

\* j may yet make its environment READY.
MayProvision(j) ==
  \/ job[j].at \in {"adding", "marking"}
  \/ job[j].at = "publishing" /\ job[j].row.status = "READY"

Lifecycle ==
  /\ \A j \in Jobs : MayProvision(j) => envs[job[j].env].status = "CREATING"
  /\ \A j \in Jobs :
       job[j].at \in {"removing", "sweeping"} => envs[job[j].env].status \in Finished
  /\ \A j \in Jobs : job[j].at = "publishing" => job[j].row.status # "CREATING"
  /\ \A j, k \in Jobs :
       /\ Active(j) /\ Active(k) /\ job[j].env = job[k].env
       /\ envs[job[j].env].status = "CREATING"
       => j = k
  /\ \A j \in Jobs : job[j].row.status = "READY" => job[j].row.path
  /\ \A j \in Jobs : job[j].at = "running" => job[j].row.status = "READY"

\* j works on environment i and takes the directory for its own.
Claims(j, i) ==
  /\ job[j].env = i
  /\ job[j].at \in {"marking", "found", "sweeping"} \/ job[j].row.path

Owns(i) == envs[i].path \/ dir.marker = i \/ \E j \in Jobs : Claims(j, i)

\* Environment i is READY, or about to be.
Live(i) ==
  \/ envs[i].status = "READY"
  \/ \E j \in Jobs : /\ job[j].at = "publishing" /\ job[j].env = i
                     /\ job[j].row.status = "READY"

Ownership ==
  gitRepo =>
    /\ \A i, k \in DOMAIN envs : Owns(i) /\ Owns(k) => i = k
    /\ \A i \in DOMAIN envs : Owns(i) => branch
    /\ dir.there => branch
    /\ \A i \in DOMAIN envs : Live(i) => dir.there /\ dir.marker = i

EnvInv == EnvTypeOK /\ Lifecycle /\ Ownership

------------------------------------------------------------------------------
\* A behaviour starts without rows, directory and jobs.
LEMMA InitInv == Init => EnvInv
<1> SUFFICES ASSUME Init PROVE EnvInv
  OBVIOUS
<1> USE DEF Init, Idle, Created, NoDir
<1>1. EnvTypeOK
  <2>1. envs \in Seq(Row) /\ Len(envs) = 0 /\ DOMAIN envs = {}
    OBVIOUS
  <2>2. dir \in [there: BOOLEAN, marker: 0..Len(envs)]
    BY <2>1
  <2>3. Idle \in [at: Steps, env: 0..Len(envs), row: Row]
    BY <2>1 DEF Row, EnvironmentStatus, Steps
  <2> QED
    BY <2>1, <2>2, <2>3 DEF EnvTypeOK, Is
<1>2. Lifecycle
  BY DEF Lifecycle, MayProvision, Active, Jobs
<1>3. Ownership
  BY DEF Ownership, Owns, Claims, Live, Jobs
<1> QED
  BY <1>1, <1>2, <1>3 DEF EnvInv

\* The ways a coroutine moves on: to another step with a new copy, to another
\* row, or to rest.  Whatever it does, the others stay where they are.
LEMMA Moves ==
  ASSUME EnvTypeOK, NEW j \in Jobs
  PROVE  /\ \A step, row : Goes(j, step, row) =>
              /\ job' = [k \in Jobs |-> IF k = j THEN [at |-> step, env |-> job[j].env, row |-> row]
                                                ELSE job[k]]
         /\ \A new : job' = [job EXCEPT ![j] = new] =>
              job' = [k \in Jobs |-> IF k = j THEN new ELSE job[k]]
BY DEF EnvTypeOK, Goes, Jobs

\* Whatever is done to the directory leaves a directory.
LEMMA DirTyped ==
  ASSUME EnvTypeOK
  PROVE  /\ NoDir \in [there: BOOLEAN, marker: 0..Len(envs)]
         /\ \A d \in Remains : d \in [there: BOOLEAN, marker: 0..Len(envs)]
         /\ [dir EXCEPT !.there = TRUE] \in [there: BOOLEAN, marker: 0..Len(envs)]
         /\ \A i \in 0..Len(envs) :
              [dir EXCEPT !.marker = i] \in [there: BOOLEAN, marker: 0..Len(envs)]
<1>1. Len(envs) \in Nat
  BY DEF EnvTypeOK
<1>2. dir \in [there: BOOLEAN, marker: 0..Len(envs)]
  BY DEF EnvTypeOK
<1>3. \A i \in 0..Len(envs) :
        [dir EXCEPT !.marker = i] \in [there: BOOLEAN, marker: 0..Len(envs)]
  BY <1>2
<1>4. 0 \in 0..Len(envs)
  BY <1>1
<1>5. [dir EXCEPT !.there = TRUE] \in [there: BOOLEAN, marker: 0..Len(envs)]
  BY <1>2
<1> QED
  BY <1>2, <1>3, <1>4, <1>5 DEF NoDir, Remains

\* Whatever step is taken, every variable keeps its type.
LEMMA Typed ==
  ASSUME EnvTypeOK, Lifecycle, [Next]_vars
  PROVE  EnvTypeOK'
<1> USE DEF EnvTypeOK, Is, Jobs
<1>1. CASE UNCHANGED vars
  BY <1>1 DEF vars
<1>2. ASSUME NEW c \in Callers, CreateBegins(c) PROVE EnvTypeOK'
  <2>1. /\ envs' \in Seq(Row) /\ Len(envs') = Len(envs) + 1
        /\ \A i \in DOMAIN envs' : envs'[i] = IF i \in DOMAIN envs THEN envs[i] ELSE Created
    BY <1>2 DEF CreateBegins, Created, Row, EnvironmentStatus
  <2>2. job' \in [Callers \cup Sweepers -> [at: Steps, env: 0..Len(envs'), row: Row]]
    BY <1>2, <2>1 DEF CreateBegins, Created, Row, EnvironmentStatus, Steps
  <2> QED
    BY <1>2, <2>1, <2>2 DEF CreateBegins, Created
<1>3. ASSUME NEW c \in Callers,
             \/ WorktreeAdds(c) \/ DirectoryMade(c) \/ WorktreeFails(c) \/ Marks(c)
             \/ MarkFails(c) \/ CleanupRemoves(c) \/ CleanupFails(c)
      PROVE  EnvTypeOK'
  <2>1. envs' = envs
    BY <1>3 DEF WorktreeAdds, DirectoryMade, WorktreeFails, Marks, MarkFails, CleanupRemoves,
                CleanupFails
  <2>2. PICK step \in Steps, row \in Row : Goes(c, step, row) /\ ~Is(c, "idle")
    BY <1>3 DEF WorktreeAdds, DirectoryMade, WorktreeFails, Marks, MarkFails, CleanupRemoves,
                CleanupFails, Steps, Row, EnvironmentStatus, Failed, Provisioned
  <2>3. /\ dir' \in [there: BOOLEAN, marker: 0..Len(envs)]
        /\ gitRepo' \in BOOLEAN /\ branch' \in BOOLEAN
    <3>1. Len(envs) \in Nat
      OBVIOUS
    <3>2. CASE WorktreeAdds(c)
      BY <3>1, <3>2 DEF WorktreeAdds
    <3>3. CASE DirectoryMade(c) \/ WorktreeFails(c) \/ MarkFails(c)
      BY <3>3, DirTyped DEF DirectoryMade, WorktreeFails, MarkFails
    <3>4. CASE Marks(c)
      BY <3>4, DirTyped DEF Marks
    <3>5. CASE CleanupRemoves(c) \/ CleanupFails(c)
      BY <3>5, DirTyped DEF CleanupRemoves, CleanupFails
    <3> QED
      BY <1>3, <3>2, <3>3, <3>4, <3>5
  <2> QED
    BY <2>1, <2>2, <2>3, Moves
<1>4. ASSUME NEW s \in Sweepers, SweepChecks(s) \/ SweepRemoves(s) PROVE EnvTypeOK'
  <2>1. envs' = envs /\ gitRepo' = gitRepo /\ branch' = branch
    BY <1>4 DEF SweepChecks, SweepRemoves
  <2>2. dir' \in [there: BOOLEAN, marker: 0..Len(envs)]
    BY <1>4, DirTyped DEF SweepChecks, SweepRemoves
  <2>3. CASE \E row \in Row : Goes(s, "sweeping", row) \/ Goes(s, "publishing", row)
    BY <1>4, <2>1, <2>2, <2>3, Moves DEF Steps, SweepChecks, SweepRemoves
  <2>4. CASE job' = [job EXCEPT ![s] = Idle]
    BY <2>1, <2>2, <2>4 DEF Steps, Idle, Created, Row, EnvironmentStatus
  <2>5. ~Is(s, "idle")
    BY <1>4 DEF SweepChecks, SweepRemoves
  <2>6. envs[job[s].env] \in Row
    BY <2>5
  <2> QED
    BY <1>4, <2>3, <2>4, <2>6 DEF SweepChecks, SweepRemoves, Row, EnvironmentStatus
<1>5. ASSUME NEW j \in Jobs, job' = [job EXCEPT ![j] = Idle],
             UNCHANGED <<gitRepo, envs, dir, branch>>
      PROVE  EnvTypeOK'
  BY <1>5 DEF Steps, Idle, Created, Row, EnvironmentStatus
<1>6. ASSUME NEW s \in Sweepers, SweepFinds(s) PROVE EnvTypeOK'
  BY <1>6 DEF SweepFinds, Steps, Created, Row, EnvironmentStatus
<1>7. ASSUME NEW c \in Callers, NEW i \in DOMAIN envs, CommandBegins(c, i) PROVE EnvTypeOK'
  BY <1>7 DEF CommandBegins, Steps
<1>8. ASSUME NEW c \in Callers, NEW i \in DOMAIN envs, CleanupBegins(c, i) PROVE EnvTypeOK'
  <2> DEFINE row == [envs[i] EXCEPT !.status = "CLEANING_UP"]
  <2>1. row \in Row /\ row.status = "CLEANING_UP"
    <3>1. envs[i] \in Row
      OBVIOUS
    <3> QED
      BY <3>1 DEF Row, EnvironmentStatus
  <2>2. envs' = [envs EXCEPT ![i] = row]
    BY <1>8 DEF CleanupBegins
  <2>3. envs' \in Seq(Row) /\ Len(envs') = Len(envs)
    BY <2>1, <2>2
  <2>4. job' = [job EXCEPT ![c] = [at |-> "removing", env |-> i, row |-> row]]
    BY <1>8 DEF CleanupBegins
  <2> HIDE DEF row
  <2> QED
    BY <1>8, <2>1, <2>2, <2>3, <2>4 DEF CleanupBegins, Steps
<1>9. ASSUME NEW j \in Jobs, Publishes(j) PROVE EnvTypeOK'
  <2>1. job[j].env \in DOMAIN envs /\ job[j].row \in Row
    BY <1>9 DEF Publishes
  <2>2. envs' \in Seq(Row) /\ Len(envs') = Len(envs)
    BY <1>9, <2>1 DEF Publishes
  <2>3. job[j].row.status = "READY" => job[j].row.path
    BY DEF Lifecycle
  <2> QED
    BY <1>9, <2>1, <2>2, <2>3 DEF Publishes, Steps, Idle, Created, Row, EnvironmentStatus
<1> QED
  BY <1>1, <1>2, <1>3, <1>4, <1>5, <1>6, <1>7, <1>8, <1>9 DEF Next, CommandEnds, Crash

------------------------------------------------------------------------------
\* A creator stays alone with its CREATING row until it has published it.
LEMMA LifecycleKept ==
  ASSUME EnvTypeOK, Lifecycle, [Next]_vars
  PROVE  Lifecycle'
<1> USE DEF Lifecycle, MayProvision, Active
<1>t. /\ job \in [Jobs -> [at: Steps, env: 0..Len(envs), row: Row]]
      /\ \A j \in Jobs : ~Is(j, "idle") => job[j].env \in DOMAIN envs
      /\ \A i \in DOMAIN envs : envs[i].status = "READY" => envs[i].path
  BY DEF EnvTypeOK, Jobs, Is
<1>1. CASE UNCHANGED vars
  BY <1>1 DEF vars
<1>2. ASSUME NEW c \in Callers, CreateBegins(c) PROVE Lifecycle'
  <2>1. \A i \in DOMAIN envs : envs'[i] = envs[i]
    BY <1>2 DEF CreateBegins, EnvTypeOK
  <2>2. envs'[Len(envs) + 1] = Created
    BY <1>2 DEF CreateBegins, EnvTypeOK
  <2>3. \A j \in Jobs : job'[j] = IF j = c THEN [at |-> "adding", env |-> Len(envs) + 1, row |-> Created]
                                          ELSE job[j]
    BY <1>2, <1>t DEF CreateBegins, Jobs
  <2>4. \A j \in Jobs : ~Is(j, "idle") => job[j].env \in 1..Len(envs) /\ job[j].env # Len(envs) + 1
    BY <1>t DEF EnvTypeOK
  <2> QED
    BY <2>1, <2>2, <2>3, <2>4 DEF Is, Created, Jobs
<1>3. ASSUME NEW c \in Callers,
             \/ WorktreeAdds(c) \/ DirectoryMade(c) \/ WorktreeFails(c) \/ Marks(c)
             \/ MarkFails(c) \/ CleanupRemoves(c) \/ CleanupFails(c)
      PROVE  Lifecycle'
  <2>1. envs' = envs
    BY <1>3 DEF WorktreeAdds, DirectoryMade, WorktreeFails, Marks, MarkFails, CleanupRemoves,
                CleanupFails
  <2>2. PICK step, row : /\ Goes(c, step, row)
                         /\ \/ job[c].at = "adding" /\ step = "marking" /\ row = job[c].row
                            \/ job[c].at = "marking" /\ step = "publishing" /\ row = Provisioned
                            \/ /\ job[c].at \in {"adding", "marking", "removing"}
                               /\ step = "publishing" /\ row.status \in {"FAILED", "DESTROYED"}
    BY <1>3, <1>t DEF WorktreeAdds, DirectoryMade, WorktreeFails, Marks, MarkFails, CleanupRemoves,
                CleanupFails, Is, Failed, Row, Jobs
  <2>3. job' = [k \in Jobs |-> IF k = c THEN [at |-> step, env |-> job[c].env, row |-> row]
                                       ELSE job[k]]
    <3>1. c \in Jobs
      BY DEF Jobs
    <3> QED
      BY <2>2, <3>1, Moves
  <2> QED
    BY <2>1, <2>2, <2>3 DEF Provisioned, Jobs
<1>4. ASSUME NEW s \in Sweepers, SweepChecks(s) \/ SweepRemoves(s) PROVE Lifecycle'
  <2>1. envs' = envs
    BY <1>4 DEF SweepChecks, SweepRemoves
  <2>2. CASE job' = [job EXCEPT ![s] = Idle]
    BY <1>t, <2>1, <2>2 DEF Idle, Created
  <2>3. CASE /\ job[s].at = "found" /\ envs[job[s].env].status \in OrphanStatuses
             /\ Goes(s, "sweeping", envs[job[s].env])
    BY <2>1, <2>3, Moves DEF OrphanStatuses, Finished, Jobs
  <2>4. CASE /\ job[s].at = "sweeping"
             /\ Goes(s, "publishing", [job[s].row EXCEPT !.status = "DESTROYED"])
    <3>1. [job[s].row EXCEPT !.status = "DESTROYED"].status = "DESTROYED"
      BY <1>t DEF Row, Jobs
    <3> DEFINE row == [job[s].row EXCEPT !.status = "DESTROYED"]
    <3>2. s \in Jobs
      BY DEF Jobs
    <3>3. job' = [k \in Jobs |-> IF k = s THEN [at |-> "publishing", env |-> job[s].env, row |-> row]
                                         ELSE job[k]]
      BY <2>4, <3>2, Moves
    <3> HIDE DEF row
    <3>4. row.status = "DESTROYED"
      BY <3>1 DEF row
    <3> QED
      BY <2>1, <2>4, <3>2, <3>3, <3>4 DEF Finished
  <2> QED
    BY <1>4, <2>2, <2>3, <2>4 DEF SweepChecks, SweepRemoves, Is
<1>5. ASSUME NEW j \in Jobs, job' = [job EXCEPT ![j] = Idle], envs' = envs
      PROVE  Lifecycle'
  BY <1>5, <1>t DEF Idle, Created
<1>6. ASSUME NEW s \in Sweepers, SweepFinds(s) PROVE Lifecycle'
  BY <1>6, <1>t DEF SweepFinds, Created, Jobs
<1>7. ASSUME NEW c \in Callers, NEW i \in DOMAIN envs, CommandBegins(c, i) PROVE Lifecycle'
  BY <1>7, <1>t DEF CommandBegins, Jobs
<1>8. ASSUME NEW c \in Callers, NEW i \in DOMAIN envs, CleanupBegins(c, i) PROVE Lifecycle'
  <2> DEFINE row == [envs[i] EXCEPT !.status = "CLEANING_UP"]
  <2>1. row.status = "CLEANING_UP" /\ envs[i].status # "CREATING"
    BY <1>8 DEF CleanupBegins, Known, EnvTypeOK, Row
  <2>2. envs' = [envs EXCEPT ![i] = row]
    BY <1>8 DEF CleanupBegins
  <2>3. job' = [job EXCEPT ![c] = [at |-> "removing", env |-> i, row |-> row]]
    BY <1>8 DEF CleanupBegins
  <2>4. \A k \in DOMAIN envs : envs'[k] = IF k = i THEN row ELSE envs[k]
    BY <2>2 DEF EnvTypeOK
  <2>5. \A k \in Jobs : job'[k] = IF k = c THEN [at |-> "removing", env |-> i, row |-> row] ELSE job[k]
    BY <2>3, <1>t
  <2> HIDE DEF row
  <2>6. \A k \in Jobs \ {c} : MayProvision(k) => job[k].env \in DOMAIN envs /\ job[k].env # i
    BY <1>t, <2>1 DEF Is
  <2>7. \A k \in Jobs : MayProvision(k)' => envs'[job'[k].env].status = "CREATING"
    BY <2>1, <2>4, <2>5, <2>6
  <2>8. \A k \in Jobs :
          job'[k].at \in {"removing", "sweeping"} => envs'[job'[k].env].status \in Finished
    BY <1>t, <2>1, <2>4, <2>5 DEF Finished, Is
  <2>9. \A k, l \in Jobs :
          /\ Active(k)' /\ Active(l)' /\ job'[k].env = job'[l].env
          /\ envs'[job'[k].env].status = "CREATING"
          => k = l
    <3>1. \A k \in Jobs : Active(k) => job[k].env \in DOMAIN envs
      BY <1>t DEF Is
    <3> QED
      BY <2>1, <2>4, <2>5, <3>1
  <2> QED
    BY <2>1, <2>5, <2>7, <2>8, <2>9
<1>9. ASSUME NEW j \in Jobs, Publishes(j) PROVE Lifecycle'
  <2>1. /\ job[j].env \in DOMAIN envs
        /\ \A k \in DOMAIN envs : envs'[k] = IF k = job[j].env THEN job[j].row ELSE envs[k]
    BY <1>9, <1>t DEF Publishes, EnvTypeOK, Is
  <2>2. \A k \in Jobs : job'[k] = IF k = j THEN Idle ELSE job[k]
    BY <1>9, <1>t DEF Publishes
  <2>3. job[j].row.status \in Finished \cup {"READY"} /\ job[j].at = "publishing"
    BY <1>9, <1>t DEF Publishes, Is, Finished, Row, EnvironmentStatus
  <2>4. \A k \in Jobs : k # j /\ Active(k) => job[k].env # job[j].env \/ envs[job[j].env].status # "CREATING"
    BY <2>3
  <2>5. \A k \in Jobs : Active(k) => job[k].env \in DOMAIN envs
    BY <1>t DEF Is
  <2>6. \A k \in Jobs : Active(k)' \/ MayProvision(k)' => k # j /\ Active(k)
    BY <2>2 DEF Idle
  <2>7. \A k \in Jobs : MayProvision(k)' => envs'[job'[k].env].status = "CREATING"
    <3>1. \A k \in Jobs : MayProvision(k)' => MayProvision(k) /\ job[k].env # job[j].env
      BY <2>2, <2>4, <2>6
    <3> QED
      BY <2>1, <2>2, <2>5, <2>6, <3>1
  <2>8. \A k \in Jobs :
          job'[k].at \in {"removing", "sweeping"} => envs'[job'[k].env].status \in Finished
    <3>1. SUFFICES ASSUME NEW k \in Jobs, job'[k].at \in {"removing", "sweeping"}
                   PROVE  envs'[job'[k].env].status \in Finished
      OBVIOUS
    <3>2. k # j /\ job'[k] = job[k]
      BY <2>2, <2>6, <3>1
    <3>3. envs[job[k].env].status \in Finished /\ job[k].env \in DOMAIN envs
      BY <2>5, <3>1, <3>2
    <3>4. CASE job[k].env = job[j].env
      BY <2>1, <2>3, <3>2, <3>3, <3>4 DEF Finished
    <3>5. CASE job[k].env # job[j].env
      BY <2>1, <3>2, <3>3, <3>5
    <3> QED
      BY <3>4, <3>5
  <2>9. \A k, l \in Jobs :
          /\ Active(k)' /\ Active(l)' /\ job'[k].env = job'[l].env
          /\ envs'[job'[k].env].status = "CREATING"
          => k = l
    BY <2>1, <2>2, <2>3, <2>5, <2>6 DEF Finished
  <2> QED
    BY <2>2, <2>7, <2>8, <2>9 DEF Idle, Created
<1> QED
  BY <1>1, <1>2, <1>3, <1>4, <1>5, <1>6, <1>7, <1>8, <1>9 DEF Next, CommandEnds, Crash, Jobs

------------------------------------------------------------------------------
\* The directory has one owner for ever: git refuses the second branch.
LEMMA OwnershipKept ==
  ASSUME EnvInv, [Next]_vars, gitRepo
  PROVE  Ownership'
<1> USE DEF Owns, Claims, Live
<1>t. /\ job \in [Jobs -> [at: Steps, env: 0..Len(envs), row: Row]]
      /\ \A j \in Jobs : ~Is(j, "idle") => job[j].env \in DOMAIN envs
      /\ \A i \in DOMAIN envs : envs[i].status = "READY" => envs[i].path
      /\ dir.marker \in 0..Len(envs) /\ branch \in BOOLEAN
  BY DEF EnvInv, EnvTypeOK, Jobs, Is
<1>o. /\ \A i, k \in DOMAIN envs : Owns(i) /\ Owns(k) => i = k
      /\ \A i \in DOMAIN envs : Owns(i) => branch
      /\ dir.there => branch
      /\ \A i \in DOMAIN envs : Live(i) => dir.there /\ dir.marker = i
  BY DEF EnvInv, Ownership
\* Most steps make nobody an owner who was none, and leave the directory alone.
<1>s. ASSUME DOMAIN envs' = DOMAIN envs, branch => branch', dir' = dir,
             \A i \in DOMAIN envs : Owns(i)' => Owns(i),
             \A i \in DOMAIN envs : Live(i)' => Live(i)
      PROVE  Ownership'
  BY <1>o, <1>s DEF Ownership
<1>1. CASE UNCHANGED vars
  BY <1>1, <1>s DEF vars
<1>2. ASSUME NEW c \in Callers, CreateBegins(c) PROVE Ownership'
  <2>1. \A i \in DOMAIN envs' :
          \/ i \in DOMAIN envs /\ envs'[i] = envs[i]
          \/ i = Len(envs) + 1 /\ envs'[i] = Created
    BY <1>2 DEF CreateBegins, EnvInv, EnvTypeOK
  <2>2. \A j \in Jobs : job'[j] = IF j = c THEN [at |-> "adding", env |-> Len(envs) + 1, row |-> Created]
                                          ELSE job[j]
    BY <1>2, <1>t DEF CreateBegins, Jobs
  <2>3. Len(envs) + 1 \notin 0..Len(envs)
    BY DEF EnvInv, EnvTypeOK
  <2>4. dir' = dir /\ branch' = branch
    BY <1>2 DEF CreateBegins
  <2>5. \A i \in DOMAIN envs' : Owns(i)' => i \in DOMAIN envs /\ Owns(i)
    BY <1>t, <2>1, <2>2, <2>3, <2>4 DEF Created
  <2>6. \A i \in DOMAIN envs' : Live(i)' => i \in DOMAIN envs /\ Live(i)
    BY <1>t, <2>1, <2>2, <2>3 DEF Created
  <2> QED
    BY <1>o, <2>4, <2>5, <2>6 DEF Ownership
<1>3. ASSUME NEW c \in Callers, WorktreeAdds(c) PROVE Ownership'
  <2>1. /\ envs' = envs /\ dir' = [there |-> TRUE, marker |-> 0] /\ branch'
        /\ ~dir.there /\ ~branch /\ job[c].at = "adding"
    BY <1>3 DEF WorktreeAdds, CanAdd, Is
  <2>2. job' = [k \in Jobs |-> IF k = c THEN [at |-> "marking", env |-> job[c].env, row |-> job[c].row]
                                       ELSE job[k]]
    BY <1>3, Moves DEF EnvInv, WorktreeAdds, Jobs
  <2>3. \A i \in DOMAIN envs : ~Owns(i) /\ ~Live(i)
    BY <1>o, <2>1
  <2>4. \A i \in DOMAIN envs : Owns(i)' => i = job[c].env
    BY <2>1, <2>2, <2>3 DEF EnvInv, EnvTypeOK
  <2>5. \A i \in DOMAIN envs : ~Live(i)'
    BY <2>1, <2>2, <2>3
  <2> QED
    BY <2>1, <2>4, <2>5 DEF Ownership
<1>4. ASSUME NEW c \in Callers, WorktreeFails(c) \/ MarkFails(c) PROVE Ownership'
  <2>1. envs' = envs /\ dir' = dir /\ Goes(c, "publishing", Failed(job[c].row))
    BY <1>4 DEF WorktreeFails, MarkFails
  <2>4. branch => branch'
    <3>1. CASE branch' \in {branch, gitRepo \/ branch}
      BY <3>1, Zenon
    <3>2. CASE branch' = branch
      BY <3>2
    <3> QED
      BY <1>4, <3>1, <3>2 DEF WorktreeFails, MarkFails
  <2>2. Failed(job[c].row) = [status |-> "FAILED", path |-> job[c].row.path]
    BY <1>t DEF Failed, Row, Jobs
  <2>3. job' = [k \in Jobs |-> IF k = c
                               THEN [at |-> "publishing", env |-> job[c].env,
                                     row |-> [status |-> "FAILED", path |-> job[c].row.path]]
                               ELSE job[k]]
    BY <2>1, <2>2, Moves DEF EnvInv, Jobs
  <2>5. \A i \in DOMAIN envs : Owns(i)' => Owns(i)
    BY <2>1, <2>3
  <2>6. \A i \in DOMAIN envs : Live(i)' => Live(i)
    BY <2>1, <2>3
  <2> QED
    BY <1>s, <2>1, <2>4, <2>5, <2>6
<1>5. ASSUME NEW c \in Callers, Marks(c) PROVE Ownership'
  <2>1. /\ envs' = envs /\ branch' = branch
        /\ dir.there /\ dir' = [dir EXCEPT !.marker = job[c].env] /\ job[c].at = "marking"
    BY <1>5 DEF Marks, Is
  <2>2. dir'.there /\ dir'.marker = job[c].env
    BY <2>1 DEF EnvInv, EnvTypeOK
  <2>3. job' = [k \in Jobs |-> IF k = c THEN [at |-> "publishing", env |-> job[c].env, row |-> Provisioned]
                                       ELSE job[k]]
    BY <1>5, Moves DEF EnvInv, Marks, Jobs
  <2>4. c \in Jobs /\ job[c].env \in DOMAIN envs /\ Owns(job[c].env)
    BY <1>t, <2>1 DEF Is, Jobs
  <2>5. \A i \in DOMAIN envs : Owns(i)' => Owns(i)
    BY <2>1, <2>2, <2>3, <2>4
  <2>6. \A i \in DOMAIN envs : Live(i)' => i = job[c].env
    BY <1>o, <2>1, <2>3, <2>4
  <2> QED
    BY <1>o, <2>1, <2>2, <2>5, <2>6 DEF Ownership
\* A coroutine that removes the directory works on its owner, which is not live.
<1>r. ASSUME NEW j \in Jobs, job[j].at \in {"removing", "sweeping"}, Owns(job[j].env)
      PROVE  \A i \in DOMAIN envs : ~Live(i)
  <2>1. job[j].env \in DOMAIN envs /\ envs[job[j].env].status \in Finished
    BY <1>t, <1>r DEF EnvInv, Lifecycle, Is
  <2>2. ~Live(job[j].env)
    BY <1>t, <2>1 DEF EnvInv, Lifecycle, MayProvision, Finished
  <2>3. \A i \in DOMAIN envs : Live(i) => Owns(i)
    BY <1>o
  <2> QED
    BY <1>o, <1>r, <2>1, <2>2, <2>3
<1>6. ASSUME NEW j \in Jobs, job[j].at \in {"removing", "sweeping"},
             NEW row, Goes(j, "publishing", row),
             row.status # "READY", row.path = job[j].row.path,
             \/ dir' = dir
             \/ Owns(job[j].env) /\ dir' \in {NoDir} \cup Remains,
             UNCHANGED <<envs, branch>>
      PROVE  Ownership'
  <2>1. job' = [k \in Jobs |-> IF k = j THEN [at |-> "publishing", env |-> job[j].env, row |-> row]
                                       ELSE job[k]]
    BY <1>6, Moves DEF EnvInv
  <2>2. \A i \in DOMAIN envs : Live(i)' => Live(i)
    BY <1>6, <2>1
  <2>3. dir' = dir \/ (dir'.marker = 0 /\ (dir'.there => dir.there))
    BY <1>6 DEF NoDir, Remains, EnvInv, EnvTypeOK
  <2>4. \A i \in DOMAIN envs : Owns(i)' => Owns(i)
    BY <1>6, <2>1, <2>3 DEF EnvInv, EnvTypeOK
  <2>5. dir' = dir \/ \A i \in DOMAIN envs : ~Live(i)
    BY <1>6, <1>r
  <2> QED
    BY <1>o, <1>6, <2>2, <2>3, <2>4, <2>5 DEF Ownership
<1>7. ASSUME NEW c \in Callers, CleanupRemoves(c) \/ CleanupFails(c) PROVE Ownership'
  <2>1. c \in Jobs /\ job[c].at = "removing" /\ envs' = envs /\ branch' = branch
    BY <1>7 DEF CleanupRemoves, CleanupFails, Is, Jobs
  <2>2. PICK status \in {"FAILED", "DESTROYED"} :
          Goes(c, "publishing", [job[c].row EXCEPT !.status = status])
    BY <1>7 DEF CleanupRemoves, CleanupFails, Failed
  <2>3. dir' = dir \/ (job[c].row.path /\ dir' \in {NoDir} \cup Remains)
    BY <1>7 DEF CleanupRemoves, CleanupFails
  <2>4. job[c].row.path => Owns(job[c].env)
    BY <2>1
  <2> DEFINE row == [job[c].row EXCEPT !.status = status]
  <2>5. row.status = status /\ row.path = job[c].row.path
    BY <1>t, <2>1 DEF Row
  <2> HIDE DEF row
  <2>6. Goes(c, "publishing", row)
    BY <2>2 DEF row
  <2> QED
    BY <1>6, <2>1, <2>2, <2>3, <2>4, <2>5, <2>6
<1>8. ASSUME NEW s \in Sweepers, SweepRemoves(s) PROVE Ownership'
  <2>1. s \in Jobs /\ job[s].at = "sweeping" /\ envs' = envs /\ branch' = branch
    BY <1>8 DEF SweepRemoves, Is, Jobs
  <2> DEFINE row == [job[s].row EXCEPT !.status = "DESTROYED"]
  <2>2. row.status = "DESTROYED" /\ row.path = job[s].row.path
    BY <1>t, <2>1 DEF Row
  <2>3. Goes(s, "publishing", row) /\ dir' \in {NoDir} \cup Remains
    BY <1>8 DEF SweepRemoves
  <2>4. Owns(job[s].env)
    BY <2>1
  <2> HIDE DEF row
  <2> QED
    BY <1>6, <2>1, <2>2, <2>3, <2>4
\* A coroutine turns to a row it may know, or to none.
<1>9. ASSUME NEW j \in Jobs, NEW new,
             job' = [k \in Jobs |-> IF k = j THEN new ELSE job[k]],
             new.at # "publishing",
             \/ new.env = 0
             \/ /\ new.env \in DOMAIN envs
                /\ new.at \in {"found", "sweeping"} \/ new.row.path => Owns(new.env),
             new.at # "marking",
             DOMAIN envs' = DOMAIN envs,
             \A i \in DOMAIN envs : envs'[i].path = envs[i].path,
             \A i \in DOMAIN envs : envs'[i].status = "READY" => envs[i].status = "READY",
             UNCHANGED <<dir, branch>>
      PROVE  Ownership'
  <2>1. 0 \notin DOMAIN envs
    BY DEF EnvInv, EnvTypeOK
  <2>2. \A i \in DOMAIN envs : Owns(i)' => Owns(i)
    BY <1>9, <2>1
  <2>3. \A i \in DOMAIN envs : Live(i)' => Live(i)
    BY <1>9
  <2> QED
    BY <1>s, <1>9, <2>2, <2>3
<1>10. ASSUME NEW s \in Sweepers, SweepChecks(s) PROVE Ownership'
  <2>1. /\ s \in Jobs /\ job[s].at = "found" /\ job[s].env \in DOMAIN envs
        /\ UNCHANGED <<envs, dir, branch>>
    BY <1>10, <1>t DEF SweepChecks, Is, Jobs
  <2>2. Owns(job[s].env)
    BY <2>1
  <2>3. CASE Goes(s, "sweeping", envs[job[s].env])
    <3> DEFINE new == [at |-> "sweeping", env |-> job[s].env, row |-> envs[job[s].env]]
    <3>1. job' = [k \in Jobs |-> IF k = s THEN new ELSE job[k]]
      BY <2>1, <2>3, Moves DEF EnvInv
    <3>2. new.at = "sweeping" /\ new.env = job[s].env
      OBVIOUS
    <3> HIDE DEF new
    <3> QED
      BY <1>9, <2>1, <2>2, <3>1, <3>2
  <2>4. CASE job' = [job EXCEPT ![s] = Idle]
    <3>1. job' = [k \in Jobs |-> IF k = s THEN Idle ELSE job[k]]
      BY <2>1, <2>4, <1>t
    <3> QED
      BY <1>9, <2>1, <3>1 DEF Idle
  <2> QED
    BY <1>10, <2>3, <2>4 DEF SweepChecks
<1>11. ASSUME NEW j \in Jobs, job' = [job EXCEPT ![j] = Idle], UNCHANGED <<envs, dir, branch>>
       PROVE  Ownership'
  <2>1. job' = [k \in Jobs |-> IF k = j THEN Idle ELSE job[k]]
    BY <1>11, <1>t
  <2> QED
    BY <1>9, <1>11, <2>1 DEF Idle
<1>12. ASSUME NEW s \in Sweepers, SweepFinds(s) PROVE Ownership'
  <2> DEFINE new == [at |-> "found", env |-> dir.marker, row |-> Created]
  <2>1. s \in Jobs /\ UNCHANGED <<envs, dir, branch>> /\ dir.marker # 0
    BY <1>12 DEF SweepFinds, Jobs
  <2>2. job' = [k \in Jobs |-> IF k = s THEN new ELSE job[k]]
    BY <1>12, <2>1, <1>t DEF SweepFinds
  <2>3. dir.marker \in DOMAIN envs /\ Owns(dir.marker)
    BY <1>t, <2>1 DEF EnvInv, EnvTypeOK
  <2>4. new.at = "found" /\ new.env = dir.marker
    OBVIOUS
  <2> HIDE DEF new
  <2> QED
    BY <1>9, <2>1, <2>2, <2>3, <2>4
<1>13. ASSUME NEW c \in Callers, NEW i \in DOMAIN envs, CommandBegins(c, i) PROVE Ownership'
  <2> DEFINE new == [at |-> "running", env |-> i, row |-> envs[i]]
  <2>1. c \in Jobs /\ UNCHANGED <<envs, dir, branch>>
    BY <1>13 DEF CommandBegins, Jobs
  <2>2. job' = [k \in Jobs |-> IF k = c THEN new ELSE job[k]]
    BY <1>13, <2>1, <1>t DEF CommandBegins
  <2>3. new.at = "running" /\ new.env = i /\ (new.row.path => Owns(i))
    OBVIOUS
  <2> HIDE DEF new
  <2> QED
    BY <1>9, <2>1, <2>2, <2>3
<1>14. ASSUME NEW c \in Callers, NEW i \in DOMAIN envs, CleanupBegins(c, i) PROVE Ownership'
  <2> DEFINE row == [envs[i] EXCEPT !.status = "CLEANING_UP"]
             new == [at |-> "removing", env |-> i, row |-> row]
  <2>1. c \in Jobs /\ UNCHANGED <<dir, branch>> /\ envs' = [envs EXCEPT ![i] = row]
    BY <1>14 DEF CleanupBegins, Jobs
  <2>2. job' = [k \in Jobs |-> IF k = c THEN new ELSE job[k]]
    BY <1>14, <2>1, <1>t DEF CleanupBegins
  <2>3. row.path = envs[i].path /\ row.status = "CLEANING_UP"
    BY DEF EnvInv, EnvTypeOK, Row
  <2>4. new.at = "removing" /\ new.env = i /\ (new.row.path => Owns(i))
    BY <2>3
  <2>5. DOMAIN envs' = DOMAIN envs /\ \A k \in DOMAIN envs : envs'[k] = IF k = i THEN row ELSE envs[k]
    BY <2>1 DEF EnvInv, EnvTypeOK
  <2> HIDE DEF row, new
  <2> QED
    BY <1>9, <2>1, <2>2, <2>3, <2>4, <2>5
<1>15. ASSUME NEW j \in Jobs, Publishes(j) PROVE Ownership'
  <2>1. /\ job[j].at = "publishing" /\ UNCHANGED <<dir, branch>>
        /\ job[j].env \in DOMAIN envs
    BY <1>15, <1>t DEF Publishes, Is
  <2>2. /\ DOMAIN envs' = DOMAIN envs
        /\ \A k \in DOMAIN envs : envs'[k] = IF k = job[j].env THEN job[j].row ELSE envs[k]
    BY <1>15, <2>1 DEF Publishes, EnvInv, EnvTypeOK
  <2>3. job' = [k \in Jobs |-> IF k = j THEN Idle ELSE job[k]]
    BY <1>15, <1>t DEF Publishes
  <2>4. ~Idle.row.path /\ Idle.at = "idle" /\ Idle.env = 0
    BY DEF Idle, Created
  <2>5. \A i \in DOMAIN envs : Owns(i)' => Owns(i)
    BY <2>1, <2>2, <2>3, <2>4
  <2>6. \A i \in DOMAIN envs : Live(i)' => Live(i)
    BY <2>1, <2>2, <2>3, <2>4
  <2> QED
    BY <1>s, <2>1, <2>2, <2>5, <2>6
<1>16. ASSUME NEW c \in Callers, DirectoryMade(c) PROVE FALSE
  BY <1>16 DEF DirectoryMade
<1> QED
  BY <1>1, <1>2, <1>3, <1>4, <1>5, <1>7, <1>8, <1>10, <1>11, <1>12, <1>13, <1>14, <1>15, <1>16
     DEF Next, CommandEnds, Crash, Jobs

\* Every step keeps the invariant.
LEMMA NextInv == EnvInv /\ [Next]_vars => EnvInv'
<1> SUFFICES ASSUME EnvInv, [Next]_vars PROVE EnvInv'
  OBVIOUS
<1>1. EnvTypeOK' /\ Lifecycle'
  BY Typed, LifecycleKept DEF EnvInv
<1>2. gitRepo' = gitRepo
  BY DEF Next, vars, CreateBegins, WorktreeAdds, DirectoryMade, WorktreeFails, Marks, MarkFails,
         CleanupBegins, CleanupRemoves, CleanupFails, CommandBegins, CommandEnds,
         SweepFinds, SweepChecks, SweepRemoves, Publishes, Crash
<1>3. Ownership'
  BY <1>2, OwnershipKept DEF Ownership
<1> QED
  BY <1>1, <1>3 DEF EnvInv

\* EnvInv holds in every state of every behaviour.
THEOREM EnvInvariance == Spec => []EnvInv
<1>1. Init => EnvInv
  BY InitInv
<1>2. EnvInv /\ [Next]_vars => EnvInv'
  BY NextInv
<1> QED
  BY <1>1, <1>2, PTL DEF Spec

------------------------------------------------------------------------------
\* The rows, the directory and the jobs keep their types.
THEOREM EnvironmentsTyped == Spec => []EnvTypeOK
<1>1. EnvInv => EnvTypeOK
  BY DEF EnvInv
<1> QED
  BY <1>1, EnvInvariance, PTL

\* No coroutine takes the directory of a READY environment away.
THEOREM ReadyKeepsDirectory == Spec => []ReadyHasDirectory
<1>1. EnvInv => ReadyHasDirectory
  BY DEF EnvInv, Ownership, Live, ReadyHasDirectory
<1> QED
  BY <1>1, EnvInvariance, PTL

\* However many callers create at once, one environment at most is READY.
THEOREM AtMostOneReady == Spec => []OneReady
<1>1. EnvInv => OneReady
  BY DEF EnvInv, Ownership, Live, OneReady
<1> QED
  BY <1>1, EnvInvariance, PTL

\* A command runs in the directory of its own environment, or in none.
THEOREM CommandsAtHome == Spec => []CommandsStayHome
<1>1. EnvInv => CommandsStayHome
  <2>1. SUFFICES ASSUME EnvInv, gitRepo, NEW c \in Callers, Is(c, "running"), dir.there,
                        dir.marker # 0
                 PROVE  dir.marker = job[c].env
    BY DEF CommandsStayHome
  <2>2. dir.marker \in DOMAIN envs /\ job[c].env \in DOMAIN envs
    BY <2>1 DEF EnvInv, EnvTypeOK, Is
  <2>3. c \in Jobs /\ job[c].row.path
    BY <2>1 DEF EnvInv, Lifecycle, Is, Jobs
  <2>4. Owns(dir.marker) /\ Owns(job[c].env)
    BY <2>3 DEF Owns, Claims
  <2> QED
    BY <2>1, <2>2, <2>4 DEF EnvInv, Ownership
<1> QED
  BY <1>1, EnvInvariance, PTL

\* No blind write brings an environment back that has been given up: what a
\* creator publishes goes over a CREATING row, and nobody else holds a READY
\* copy to write.
THEOREM FinishedForGood == Spec => FinishedStaysFinished
<1> DEFINE Stays == \A i \in DOMAIN envs :
                      envs[i].status \in {"FAILED", "CLEANING_UP", "DESTROYED"}
                        => envs'[i].status \notin {"CREATING", "READY"}
<1>1. EnvInv /\ [Next]_vars => [Stays]_vars
  <2> SUFFICES ASSUME EnvInv, Next, NEW i \in DOMAIN envs,
                      envs[i].status \in {"FAILED", "CLEANING_UP", "DESTROYED"}
               PROVE  envs'[i].status \notin {"CREATING", "READY"}
    OBVIOUS
  <2>1. CASE envs' = envs
    BY <2>1
  <2>2. ASSUME NEW c \in Callers, CreateBegins(c) PROVE envs'[i] = envs[i]
    BY <2>2 DEF CreateBegins, EnvInv, EnvTypeOK
  <2>3. ASSUME NEW c \in Callers, NEW k \in DOMAIN envs, CleanupBegins(c, k)
        PROVE  envs'[i].status \in {envs[i].status, "CLEANING_UP"}
    BY <2>3 DEF CleanupBegins, EnvInv, EnvTypeOK, Row
  <2>4. ASSUME NEW j \in Jobs, Publishes(j)
        PROVE  envs'[i].status \notin {"CREATING", "READY"}
    <3>1. job[j].row.status # "CREATING"
      BY <2>4 DEF Publishes, Is, EnvInv, Lifecycle
    <3>2. job[j].env = i => job[j].row.status # "READY"
      BY <2>4 DEF Publishes, Is, EnvInv, Lifecycle, MayProvision
    <3>3. envs'[i] = IF i = job[j].env THEN job[j].row ELSE envs[i]
      BY <2>4 DEF Publishes, EnvInv, EnvTypeOK
    <3> QED
      BY <3>1, <3>2, <3>3
  <2> QED
    BY <2>1, <2>2, <2>3, <2>4
       DEF Next, WorktreeAdds, DirectoryMade, WorktreeFails, Marks, MarkFails, CleanupRemoves,
           CleanupFails, CommandBegins, CommandEnds, SweepFinds, SweepChecks, SweepRemoves,
           Crash, Jobs
<1> QED
  BY <1>1, EnvInvariance, PTL DEF FinishedStaysFinished, Spec
=============================================================================
