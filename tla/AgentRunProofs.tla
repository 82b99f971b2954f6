---------------------------- MODULE AgentRunProofs ----------------------------
(***************************************************************************)
(* Theorems about a run of the coding agent, alone (AgentRun) and with its *)
(* commands in the local sandbox (SandboxedRun), for any policy and any    *)
(* number of environments, and about the sandbox itself (LocalSandbox).    *)
(***************************************************************************)
EXTENDS SandboxedRun, TLAPS

\* Places where a tool call is on record that the loop has not counted yet.
Calling == {"gate", "tool", "command", "account"}

\* How far memory, row and the calls on record may be apart: the run counts a
\* call when it is accounted for, and only a run that has failed too often has
\* counted one that its row has not.
Counted ==
  /\ run.iterations = run.calls
  /\ run.calls <= Len(calls) /\ Len(calls) <= run.calls + 1
  /\ pc \in Calling => Len(calls) = run.calls + 1
  /\ pc \notin Calling \cup {"raised"} => Len(calls) = run.calls
  /\ pc \notin {"fail", "raised"} => row.calls = run.calls
  /\ pc = "decide" => ~LimitsReached(run)

\* The status of the run at each place; only a run that is VERIFYING already
\* comes back to the loop from a verification.
StatusAt ==
  /\ pc \in {"start", "created", "top", "decide"} \cup Calling \cup Verification
            \cup Closing \cup {"verify"} => execution = "RUNNING"
  /\ pc = "start" => run.status = "CREATED"
  /\ pc = "created" => run.status = "READY"
  /\ pc = "top" => run.status \in {"READY", "RUNNING", "VERIFYING"}
  /\ pc \in {"decide"} \cup Calling => run.status \in {"RUNNING", "VERIFYING"}
  /\ pc \in {"top", "decide", "verify"} \cup Calling \cup Verification
       => row.status = run.status
  /\ pc \in {"verify"} \cup Verification => engine /\ run.status = "VERIFYING"
  /\ pc = "complete" => run.status \in {"RUNNING", "VERIFYING"}
  /\ pc = "fail" => run.status \in {"READY", "RUNNING", "VERIFYING"}
  /\ pc = "raised" => execution = "RUNNING"

Clean == \A k \in DOMAIN commands : commands[k].ok

\* While the execution has one environment, every command ran in it, and a
\* verification that has found nothing bad has looked at all of them.
CommandsSeen ==
  /\ Len(envs) \in 1..MaxEnvs
  /\ \A k \in DOMAIN commands : commands[k].env \in 1..Len(envs)
  /\ engine /\ Len(envs) = 1 =>
       /\ pc = "conclude" /\ ~bad => Clean
       /\ pc = "judge" /\ verdict.success => Clean
       /\ pc = "complete" => Clean

RunInv ==
  /\ RunTypeOK /\ Counted /\ StatusAt /\ CommandsSeen
  /\ VerifyingRecorded /\ ToolBudget /\ EndsAgree /\ FailuresStick

------------------------------------------------------------------------------
(* Lists of rows.                                                          *)

\* A row that is added or rewritten leaves the others where they were.
LEMMA RowAdded ==
  ASSUME NEW S, NEW s \in Seq(S), NEW v \in S
  PROVE  /\ Append(s, v) \in Seq(S) /\ Len(Append(s, v)) = Len(s) + 1
         /\ \A k \in DOMAIN s : Append(s, v)[k] = s[k]
         /\ Append(s, v)[Len(s) + 1] = v
         /\ DOMAIN Append(s, v) = DOMAIN s \cup {Len(s) + 1}
  BY SMT

LEMMA RowRewritten ==
  ASSUME NEW S, NEW s \in Seq(S), NEW i \in DOMAIN s, NEW v \in S
  PROVE  [s EXCEPT ![i] = v] \in Seq(S) /\ Len([s EXCEPT ![i] = v]) = Len(s)
  BY SMT

\* A transition changes the status of a run and nothing else.
LEMMA MovedType ==
  ASSUME NEW r \in Run, NEW status \in RunStatus
  PROVE  /\ Moved(r, status) \in Run
         /\ Moved(r, status).iterations = r.iterations
         /\ Moved(r, status).calls = r.calls
         /\ Moved(r, status).status =
              IF RunCanMove(r.status, status) THEN status ELSE r.status
  BY DEF Moved, Run

\* The loop counts an iteration and a call together.
LEMMA CountedType ==
  ASSUME NEW r \in Run
  PROVE  LET counted == [r EXCEPT !.iterations = @ + 1, !.calls = @ + 1]
         IN /\ counted \in Run /\ counted.status = r.status
            /\ counted.iterations = r.iterations + 1 /\ counted.calls = r.calls + 1
  <1> DEFINE once == [r EXCEPT !.iterations = @ + 1]
             twice == [once EXCEPT !.calls = @ + 1]
  <1>1. /\ once \in Run /\ once.status = r.status
        /\ once.iterations = r.iterations + 1 /\ once.calls = r.calls
    BY DEF Run
  <1>2. /\ twice \in Run /\ twice.status = once.status
        /\ twice.iterations = once.iterations /\ twice.calls = once.calls + 1
    <2> HIDE DEF once
    <2> QED
      BY <1>1 DEF Run
  <1>3. [r EXCEPT !.iterations = @ + 1, !.calls = @ + 1] = twice
    OBVIOUS
  <1> QED
    BY <1>1, <1>2, <1>3

\* Completing a run that is RUNNING or VERIFYING makes it COMPLETED.
LEMMA CompletedType ==
  ASSUME NEW r \in Run
  PROVE  /\ Completed(r) \in Run
         /\ Completed(r).iterations = r.iterations /\ Completed(r).calls = r.calls
         /\ r.status \in {"RUNNING", "VERIFYING"} => Completed(r).status = "COMPLETED"
  <1> DEFINE v == Moved(r, "VERIFYING")
  <1>1. {"VERIFYING", "COMPLETED"} \subseteq RunStatus
    BY DEF RunStatus
  <1>2. v \in Run /\ v.iterations = r.iterations /\ v.calls = r.calls
    BY <1>1, MovedType
  <1>3. /\ \A s \in {"RUNNING", "VERIFYING"} : RunCanMove(s, "COMPLETED")
    BY DEF RunCanMove, RunTransitions
  <1>4. /\ Moved(r, "COMPLETED") \in Run /\ Moved(v, "COMPLETED") \in Run
        /\ Moved(r, "COMPLETED").iterations = r.iterations
        /\ Moved(v, "COMPLETED").iterations = r.iterations
        /\ Moved(r, "COMPLETED").calls = r.calls /\ Moved(v, "COMPLETED").calls = r.calls
        /\ r.status \in {"RUNNING", "VERIFYING"} => Moved(r, "COMPLETED").status = "COMPLETED"
    <2> HIDE DEF v
    <2> QED
      BY <1>1, <1>2, <1>3, MovedType
  <1> QED
    BY <1>3, <1>4 DEF Completed

------------------------------------------------------------------------------
(* The steps of a run, one by one, keep each part of the invariant.        *)

LEMMA RunInitial == Init => RunInv
  <1> SUFFICES ASSUME Init PROVE RunInv
    OBVIOUS
  <1> USE RunAssumption DEF Init
  <1>1. RunTypeOK /\ Len(envs) \in 1..MaxEnvs
    <2>1. run \in Run /\ row \in Run
      BY DEF Run, RunStatus
    <2>2. calls \in Seq(CallStatus) /\ commands \in Seq([env: 1..MaxEnvs, ok: BOOLEAN])
      OBVIOUS
    <2>3. envs \in Seq(BOOLEAN) /\ Len(envs) = 1
      OBVIOUS
    <2>4. /\ verdict \in [status: Verdicts, success: BOOLEAN]
          /\ execution \in ExecutionStatus /\ pc \in Places
      BY DEF Verdicts, ExecutionStatus, Places
    <2>5. failures \in Nat /\ recoveries \in 0..MaxRecoveries /\ env \in 0..Len(envs)
      BY <2>3
    <2>6. engine \in BOOLEAN /\ bad \in BOOLEAN /\ pc = "start"
      BY Zenon
    <2> QED
      BY <2>1, <2>2, <2>3, <2>4, <2>5, <2>6 DEF RunTypeOK
  <1>2. Counted /\ StatusAt /\ VerifyingRecorded /\ ToolBudget /\ EndsAgree
    BY DEF Counted, StatusAt, VerifyingRecorded, ToolBudget, EndsAgree, Calling, Verification,
       Closing
  <1>3. CommandsSeen /\ FailuresStick
    BY <1>1 DEF CommandsSeen, FailuresStick
  <1> QED
    BY <1>1, <1>2, <1>3 DEF RunInv

\* The rows of the environments are never more than the bound.
Bounded == RunTypeOK /\ Len(envs) \in 1..MaxEnvs

LEMMA TypeStep == Bounded /\ Next => Bounded'
  <1> SUFFICES ASSUME Bounded, Next PROVE Bounded'
    OBVIOUS
  <1> USE RunAssumption
      DEF Bounded, RunTypeOK, Places, Loop, Verification, Closing, Save
  <1>s. \A status \in {"READY", "RUNNING", "VERIFYING", "COMPLETED", "FAILED"} :
          Moved(run, status) \in Run
    BY MovedType DEF RunStatus
  <1>c. /\ \A status \in {"ALLOWED", "REJECTED"} :
             /\ Append(calls, status) \in Seq(CallStatus)
             /\ Len(Append(calls, status)) = Len(calls) + 1
        /\ \A status \in {"RUNNING", "COMPLETED", "FAILED"} : Len(calls) > 0 =>
             /\ [calls EXCEPT ![Len(calls)] = status] \in Seq(CallStatus)
             /\ Len([calls EXCEPT ![Len(calls)] = status]) = Len(calls)
    <2>1. {"ALLOWED", "REJECTED", "RUNNING", "COMPLETED", "FAILED"} \subseteq CallStatus
      BY DEF CallStatus
    <2>2. Len(calls) > 0 => Len(calls) \in DOMAIN calls
      OBVIOUS
    <2> QED
      BY <2>1, <2>2, RowAdded, RowRewritten
  <1>v. {"INCONCLUSIVE", "PASSED", "FAILED", "BLOCKED"} \subseteq Verdicts
    BY DEF Verdicts
  <1>1. CASE Create
    BY <1>1, <1>s DEF Create, checkVars
  <1>2. CASE MakeReady
    BY <1>2, <1>s DEF MakeReady, checkVars
  <1>3. CASE StopsAtTop \/ NoDecision \/ Passes \/ GivesUp \/ RunRaises
    BY <1>3 DEF StopsAtTop, NoDecision, Passes, GivesUp, RunRaises, loopVars, checkVars
  <1>4. CASE Proceed
    BY <1>4, <1>s DEF Proceed, checkVars
  <1>5. CASE InvalidDecision
    BY <1>5 DEF InvalidDecision, checkVars, TooManyFailures
  <1>6. CASE Finish
    <2>1. CASE engine
      BY <1>6, <2>1, <1>s DEF Finish, checkVars, VerifyingRow
    <2>2. CASE ~engine
      BY <1>6, <2>2 DEF Finish, checkVars
    <2> QED
      BY <2>1, <2>2
  <1>7. CASE ToolRejected \/ ToolAllowed
    <2>1. /\ calls' \in Seq(CallStatus) /\ Len(calls') > 0
      <3>1. calls' = Append(calls, "REJECTED") \/ calls' = Append(calls, "ALLOWED")
        BY <1>7 DEF ToolRejected, ToolAllowed
      <3>2. CASE calls' = Append(calls, "REJECTED")
        BY <3>2, <1>c
      <3>3. CASE calls' = Append(calls, "ALLOWED")
        BY <3>3, <1>c
      <3> QED
        BY <3>1, <3>2, <3>3
    <2> QED
      BY <1>7, <2>1 DEF ToolRejected, ToolAllowed, loopVars, checkVars
  <1>8. CASE ToolStarts
    BY <1>8, <1>c DEF ToolStarts, loopVars, checkVars
  <1>9. ASSUME NEW ok \in BOOLEAN, ToolReturns(ok) PROVE Bounded'
    BY <1>9, <1>c DEF ToolReturns, Returned, loopVars, checkVars
  <1>10. ASSUME NEW ok \in BOOLEAN, NEW noted \in BOOLEAN, CommandEnds(ok, noted)
         PROVE  Bounded'
    <2>1. commands' \in Seq([env: 1..MaxEnvs, ok: BOOLEAN])
      BY <1>10, RowAdded DEF CommandEnds
    <2> QED
      BY <1>10, <2>1, <1>c DEF CommandEnds, Returned, loopVars, checkVars
  <1>11. CASE CommandUnrecorded
    BY <1>11, <1>c DEF CommandUnrecorded, loopVars, checkVars
  <1>12. CASE Account
    <2> DEFINE counted == [run EXCEPT !.iterations = @ + 1, !.calls = @ + 1]
    <2>1. counted \in Run
      BY CountedType
    <2>2. failures' \in Nat /\ run' \in Run /\ row' \in Run /\ pc' \in {"fail", "top"}
      BY <1>12, <2>1 DEF Account
    <2> QED
      BY <1>12, <2>2 DEF Account, checkVars
  <1>13. CASE VerificationStarts \/ VerificationErrs
    <2>1. verdict' \in [status: Verdicts, success: BOOLEAN] /\ bad' \in BOOLEAN
      <3>1. CASE VerificationStarts
        BY <3>1 DEF VerificationStarts, Verdicts
      <3>2. CASE VerificationErrs
        BY <3>2 DEF VerificationErrs, Verdicts
      <3> QED
        BY <1>13, <3>1, <3>2
    <2> QED
      BY <1>13, <2>1 DEF VerificationStarts, VerificationErrs, loopVars
  <1>14. CASE Recovers
    BY <1>14 DEF Recovers, MayRecover, RecoveriesAfter, checkVars
  <1>15. ASSUME NEW i \in DOMAIN envs, CommandStarts(i) PROVE Bounded'
    BY <1>15 DEF CommandStarts, loopVars, checkVars
  <1>16. ASSUME NEW i \in DOMAIN envs, CheckFailures(i) PROVE Bounded'
    BY <1>16 DEF CheckFailures, FailuresFound, FailedIn, loopVars
  <1>17. ASSUME NEW i \in DOMAIN envs, NEW mentioned \in BOOLEAN, CheckTests(i, mentioned)
         PROVE  Bounded'
    BY <1>17 DEF CheckTests, FailedIn, loopVars
  <1>18. ASSUME NEW others \in WorktreeChecks, Conclude(others) PROVE Bounded'
    BY <1>18, <1>v DEF Conclude, loopVars
  <1>19. CASE CompleteRun \/ FailRun
    <2>1. run' \in Run /\ row' \in Run
      BY <1>19, <1>s, CompletedType DEF CompleteRun, FailRun
    <2> QED
      BY <1>19, <2>1 DEF CompleteRun, FailRun, checkVars, ExecutionStatus
  <1>20. ASSUME NEW ready \in BOOLEAN, EnvironmentCreated(ready) PROVE Bounded'
    <2>1. envs' \in Seq(BOOLEAN) /\ Len(envs') = Len(envs) + 1
      BY <1>20, RowAdded DEF EnvironmentCreated
    <2> QED
      BY <1>20, <2>1 DEF EnvironmentCreated, loopVars, checkVars
  <1>21. ASSUME NEW i \in DOMAIN envs, EnvironmentCleaned(i) PROVE Bounded'
    <2>1. envs' \in Seq(BOOLEAN) /\ Len(envs') = Len(envs)
      BY <1>21, RowRewritten DEF EnvironmentCleaned
    <2> QED
      BY <1>21, <2>1 DEF EnvironmentCleaned, loopVars, checkVars
  <1> QED
    BY <1>1, <1>2, <1>3, <1>4, <1>5, <1>6, <1>7, <1>8, <1>9, <1>10, <1>11, <1>12, <1>13,
       <1>14, <1>15, <1>16, <1>17, <1>18, <1>19, <1>20, <1>21 DEF Next, AgentStep

\* What the loop has counted and what is on record.
Counts == Counted /\ ToolBudget

LEMMA CountStep == Bounded /\ Counts /\ Next => Counts'
  <1> SUFFICES ASSUME Bounded, Counts, Next PROVE Counts'
    OBVIOUS
  <1> USE RunAssumption DEF Counts, Counted, ToolBudget, Calling
  <1>t. /\ run \in Run /\ calls \in Seq(CallStatus) /\ Len(calls) \in Nat
        /\ run.calls \in Nat /\ run.iterations \in Nat /\ row.calls \in Nat
    BY DEF Bounded, RunTypeOK, Run
  <1>m. \A status \in RunStatus :
          /\ Moved(run, status).iterations = run.iterations
          /\ Moved(run, status).calls = run.calls
    BY <1>t, MovedType
  <1>s. {"READY", "RUNNING", "VERIFYING", "FAILED"} \subseteq RunStatus
    BY DEF RunStatus
  <1>a. \A status \in CallStatus : Len(Append(calls, status)) = Len(calls) + 1
    BY <1>t, RowAdded
  <1>w. Len(calls) > 0 =>
          \A status \in CallStatus : Len([calls EXCEPT ![Len(calls)] = status]) = Len(calls)
    BY <1>t, RowRewritten
  <1>c. {"ALLOWED", "REJECTED", "RUNNING", "COMPLETED", "FAILED"} \subseteq CallStatus
    BY DEF CallStatus
  <1>1. CASE Create
    BY <1>1, <1>t, <1>m, <1>s DEF Create
  <1>2. CASE MakeReady
    BY <1>2, <1>t DEF MakeReady, Save
  <1>3. CASE StopsAtTop \/ NoDecision \/ Passes \/ GivesUp \/ RunRaises
    BY <1>3, <1>t DEF StopsAtTop, NoDecision, Passes, GivesUp, RunRaises, loopVars
  <1>4. CASE Proceed
    <2>1. run'.iterations = run.iterations /\ run'.calls = run.calls /\ row'.calls = row.calls
      BY <1>4, <1>t, <1>m, <1>s DEF Proceed, Save
    <2> QED
      BY <1>4, <1>t, <2>1 DEF Proceed, LimitsReached
  <1>5. CASE InvalidDecision \/ Recovers
    BY <1>5, <1>t DEF InvalidDecision, Recovers, Save
  <1>6. CASE Finish
    <2>1. run'.iterations = run.iterations /\ run'.calls = run.calls /\ row'.calls = row.calls
      BY <1>6, <1>t, <1>m, <1>s DEF Finish, VerifyingRow
    <2> QED
      BY <1>6, <1>t, <2>1 DEF Finish
  <1>7. CASE ToolRejected \/ ToolAllowed
    <2>1. Len(calls') = Len(calls) + 1
      BY <1>7, <1>a, <1>c DEF ToolRejected, ToolAllowed
    <2> QED
      BY <1>7, <1>t, <2>1 DEF ToolRejected, ToolAllowed, loopVars, LimitsReached
  <1>8. CASE ToolStarts \/ CommandUnrecorded
    <2>1. Len(calls') = Len(calls)
      BY <1>8, <1>t, <1>w, <1>c DEF ToolStarts, CommandUnrecorded
    <2> QED
      BY <1>8, <1>t, <2>1 DEF ToolStarts, CommandUnrecorded, loopVars
  <1>9. ASSUME NEW ok \in BOOLEAN, NEW noted \in BOOLEAN, ToolReturns(ok) \/ CommandEnds(ok, noted)
        PROVE  Counts'
    <2>1. Len(calls') = Len(calls)
      BY <1>9, <1>t, <1>w, <1>c DEF ToolReturns, CommandEnds, Returned
    <2> QED
      BY <1>9, <1>t, <2>1 DEF ToolReturns, CommandEnds, loopVars
  <1>10. CASE Account
    <2> DEFINE counted == [run EXCEPT !.iterations = @ + 1, !.calls = @ + 1]
    <2>1. counted.iterations = run.iterations + 1 /\ counted.calls = run.calls + 1
      BY <1>t, CountedType
    <2>2. /\ run' = counted /\ UNCHANGED calls /\ pc = "account"
          /\ \/ pc' = "fail" /\ UNCHANGED row
             \/ pc' = "top" /\ row' = counted
      BY <1>10 DEF Account, Save
    <2> HIDE DEF counted
    <2> QED
      BY <1>t, <2>1, <2>2
  <1>11. CASE VerificationStarts \/ VerificationErrs
    BY <1>11, <1>t DEF VerificationStarts, VerificationErrs, loopVars, Verification
  <1>12. ASSUME NEW i \in DOMAIN envs, CommandStarts(i) \/ CheckFailures(i) PROVE Counts'
    BY <1>12, <1>t DEF CommandStarts, CheckFailures, loopVars
  <1>13. ASSUME NEW i \in DOMAIN envs, NEW mentioned \in BOOLEAN, CheckTests(i, mentioned)
         PROVE  Counts'
    BY <1>13, <1>t DEF CheckTests, loopVars
  <1>14. ASSUME NEW others \in WorktreeChecks, Conclude(others) PROVE Counts'
    BY <1>14, <1>t DEF Conclude, loopVars
  <1>15. CASE CompleteRun \/ FailRun
    <2>1. /\ run'.iterations = run.iterations /\ run'.calls = run.calls /\ row' = run'
          /\ pc' = "ended" /\ pc \in {"complete", "fail"} /\ UNCHANGED calls
      BY <1>15, <1>t, <1>m, <1>s, CompletedType DEF CompleteRun, FailRun, Save
    <2> QED
      BY <1>t, <2>1
  <1>16. ASSUME NEW ready \in BOOLEAN, EnvironmentCreated(ready) PROVE Counts'
    BY <1>16, <1>t DEF EnvironmentCreated, loopVars, LimitsReached
  <1>17. ASSUME NEW i \in DOMAIN envs, EnvironmentCleaned(i) PROVE Counts'
    BY <1>17, <1>t DEF EnvironmentCleaned, loopVars, LimitsReached
  <1> QED
    BY <1>1, <1>2, <1>3, <1>4, <1>5, <1>6, <1>7, <1>8, <1>9, <1>10, <1>11, <1>12, <1>13,
       <1>14, <1>15, <1>16, <1>17 DEF Next, AgentStep

\* The status of the run, its row and the execution.
Statuses == StatusAt /\ VerifyingRecorded /\ EndsAgree

LEMMA StatusStep == Bounded /\ Statuses /\ Next => Statuses'
  <1> SUFFICES ASSUME Bounded, Statuses, Next PROVE Statuses'
    OBVIOUS
  <1> USE DEF Statuses, StatusAt, VerifyingRecorded, EndsAgree, Calling, Verification, Closing
  <1>t. run \in Run
    BY DEF Bounded, RunTypeOK
  <1>m. /\ \A status \in {"READY", "RUNNING", "VERIFYING", "FAILED"} :
             Moved(run, status).status =
               IF RunCanMove(run.status, status) THEN status ELSE run.status
        /\ run.status \in {"RUNNING", "VERIFYING"} => Completed(run).status = "COMPLETED"
    BY <1>t, MovedType, CompletedType DEF RunStatus
  <1>p. /\ RunCanMove("CREATED", "READY") /\ RunCanMove("READY", "RUNNING")
        /\ RunCanMove("RUNNING", "VERIFYING") /\ ~RunCanMove("READY", "FAILED")
        /\ RunCanMove("RUNNING", "FAILED") /\ RunCanMove("VERIFYING", "FAILED")
        /\ ~RunCanMove("VERIFYING", "VERIFYING")
    BY DEF RunCanMove, RunTransitions
  <1>1. CASE Create \/ MakeReady
    BY <1>1, <1>m, <1>p DEF Create, MakeReady, Save
  <1>2. CASE StopsAtTop \/ NoDecision \/ Passes \/ GivesUp \/ RunRaises
    BY <1>2 DEF StopsAtTop, NoDecision, Passes, GivesUp, RunRaises, loopVars, Places, Loop,
       Bounded, RunTypeOK
  <1>3. CASE Proceed
    BY <1>3, <1>m, <1>p DEF Proceed, Save
  <1>4. CASE InvalidDecision \/ Recovers
    BY <1>4 DEF InvalidDecision, Recovers, Save
  <1>5. CASE Finish
    BY <1>5, <1>m, <1>p DEF Finish, VerifyingRow
  <1>6. CASE ToolRejected \/ ToolAllowed \/ ToolStarts \/ CommandUnrecorded
    BY <1>6 DEF ToolRejected, ToolAllowed, ToolStarts, CommandUnrecorded, loopVars
  <1>7. ASSUME NEW ok \in BOOLEAN, NEW noted \in BOOLEAN, ToolReturns(ok) \/ CommandEnds(ok, noted)
        PROVE  Statuses'
    BY <1>7 DEF ToolReturns, CommandEnds, loopVars
  <1>8. CASE Account
    <2> DEFINE counted == [run EXCEPT !.iterations = @ + 1, !.calls = @ + 1]
    <2>1. counted.status = run.status
      BY <1>t, CountedType
    <2>2. /\ run' = counted /\ UNCHANGED <<execution, engine>> /\ pc = "account"
          /\ \/ pc' = "fail" /\ UNCHANGED row
             \/ pc' = "top" /\ row' = counted
      BY <1>8 DEF Account, Save
    <2> HIDE DEF counted
    <2> QED
      BY <2>1, <2>2
  <1>9. CASE VerificationStarts \/ VerificationErrs
    BY <1>9 DEF VerificationStarts, VerificationErrs, loopVars
  <1>10. ASSUME NEW i \in DOMAIN envs, CommandStarts(i) \/ CheckFailures(i) PROVE Statuses'
    BY <1>10 DEF CommandStarts, CheckFailures, loopVars
  <1>11. ASSUME NEW i \in DOMAIN envs, NEW mentioned \in BOOLEAN, CheckTests(i, mentioned)
         PROVE  Statuses'
    BY <1>11 DEF CheckTests, loopVars
  <1>12. ASSUME NEW others \in WorktreeChecks, Conclude(others) PROVE Statuses'
    BY <1>12 DEF Conclude, loopVars
  <1>13. CASE CompleteRun
    BY <1>13, <1>m DEF CompleteRun, Save
  <1>14. CASE FailRun
    BY <1>14, <1>m, <1>p DEF FailRun, Save
  <1>15. ASSUME NEW ready \in BOOLEAN, EnvironmentCreated(ready) PROVE Statuses'
    BY <1>15 DEF EnvironmentCreated, loopVars
  <1>16. ASSUME NEW i \in DOMAIN envs, EnvironmentCleaned(i) PROVE Statuses'
    BY <1>16 DEF EnvironmentCleaned, loopVars
  <1> QED
    BY <1>1, <1>2, <1>3, <1>4, <1>5, <1>6, <1>7, <1>8, <1>9, <1>10, <1>11, <1>12, <1>13,
       <1>14, <1>15, <1>16 DEF Next, AgentStep

\* What the verification has seen of the commands.
Seen == CommandsSeen /\ FailuresStick

LEMMA SeenStep == Bounded /\ Statuses /\ Seen /\ Next => Seen'
  <1> SUFFICES ASSUME Bounded, Statuses, Seen, Next PROVE Seen'
    OBVIOUS
  <1> USE DEF Seen, CommandsSeen, FailuresStick, Clean
  <1>t. /\ commands \in Seq([env: 1..MaxEnvs, ok: BOOLEAN]) /\ envs \in Seq(BOOLEAN)
        /\ env \in 0..Len(envs) /\ (pc = "command" => env > 0) /\ MaxEnvs \in Nat \ {0}
    BY RunAssumption DEF Bounded, RunTypeOK
  <1>r. pc \notin {"ended", "raised"} => execution = "RUNNING"
    BY DEF Bounded, RunTypeOK, Places, Loop, Statuses, StatusAt, Calling
  <1>1. CASE Create \/ MakeReady \/ Proceed
    BY <1>1 DEF Create, MakeReady, Proceed, checkVars
  <1>2. CASE StopsAtTop \/ NoDecision \/ GivesUp \/ RunRaises
    BY <1>2 DEF StopsAtTop, NoDecision, GivesUp, RunRaises, loopVars, checkVars
  <1>3. CASE InvalidDecision \/ Recovers
    BY <1>3 DEF InvalidDecision, Recovers, checkVars
  <1>4. CASE Finish
    BY <1>4, <1>r DEF Finish, checkVars
  <1>5. CASE ToolRejected \/ ToolAllowed \/ ToolStarts \/ CommandUnrecorded
    BY <1>5 DEF ToolRejected, ToolAllowed, ToolStarts, CommandUnrecorded, loopVars, checkVars
  <1>6. ASSUME NEW ok \in BOOLEAN, ToolReturns(ok) PROVE Seen'
    BY <1>6 DEF ToolReturns, loopVars, checkVars
  <1>7. ASSUME NEW ok \in BOOLEAN, NEW noted \in BOOLEAN, CommandEnds(ok, noted)
         PROVE  Seen'
    <2> DEFINE c == [env |-> env, ok |-> ok]
    <2>1. /\ commands' = Append(commands, c) /\ UNCHANGED <<envs, engine, execution>>
          /\ pc = "command" /\ pc' = "account"
      BY <1>7 DEF CommandEnds, loopVars
    <2>2. c \in [env: 1..MaxEnvs, ok: BOOLEAN] /\ c.env \in 1..Len(envs)
      BY <1>t, <2>1
    <2>3. \A k \in DOMAIN commands' : k \in DOMAIN commands \/ commands'[k] = c
      BY <1>t, <2>1, <2>2, RowAdded
    <2>4. \A k \in DOMAIN commands : commands'[k] = commands[k]
      BY <1>t, <2>1, <2>2, RowAdded
    <2>5. \A k \in DOMAIN commands' : commands'[k].env \in 1..Len(envs)
      BY <2>2, <2>3, <2>4
    <2> QED
      BY <2>1, <2>5, <1>r
  <1>8. CASE Account
    BY <1>8 DEF Account, checkVars
  <1>9. CASE Passes
    BY <1>9, <1>r DEF Passes, loopVars, checkVars
  <1>10. CASE VerificationStarts \/ VerificationErrs
    BY <1>10, <1>r DEF VerificationStarts, VerificationErrs, loopVars
  <1>11. ASSUME NEW i \in DOMAIN envs, CommandStarts(i) PROVE Seen'
    BY <1>11 DEF CommandStarts, loopVars, checkVars
  <1>12. ASSUME NEW i \in DOMAIN envs, CheckFailures(i) PROVE Seen'
    <2>1. /\ pc = "checkFailures" /\ pc' = "conclude" /\ bad' = (bad \/ FailedIn(i))
          /\ UNCHANGED <<commands, envs, engine, execution, verdict>>
      BY <1>12 DEF CheckFailures, FailuresFound, loopVars
    <2>2. ASSUME Len(envs) = 1, ~bad' PROVE Clean
      <3>1. i = 1
        BY <1>t, <2>2
      <3>2. ~FailedIn(i)
        BY <2>1, <2>2, Zenon
      <3>3. \A k \in DOMAIN commands : commands[k].env = 1
        BY <1>t, <2>2
      <3> QED
        BY <3>1, <3>2, <3>3 DEF FailedIn
    <2> QED
      BY <2>1, <2>2, <1>r
  <1>13. ASSUME NEW i \in DOMAIN envs, NEW mentioned \in BOOLEAN, CheckTests(i, mentioned)
         PROVE  Seen'
    BY <1>13 DEF CheckTests, loopVars
  <1>14. ASSUME NEW others \in WorktreeChecks, Conclude(others) PROVE Seen'
    <2>1. /\ pc = "conclude" /\ pc' = "judge" /\ (verdict'.success => ~bad)
          /\ UNCHANGED <<commands, envs, engine, execution>>
      BY <1>14 DEF Conclude, loopVars
    <2> QED
      BY <2>1, <1>r
  <1>15. CASE CompleteRun \/ FailRun
    BY <1>15 DEF CompleteRun, FailRun, checkVars
  <1>16. ASSUME NEW ready \in BOOLEAN, EnvironmentCreated(ready) PROVE Seen'
    <2>1. /\ Len(envs') = Len(envs) + 1 /\ Len(envs) < MaxEnvs
          /\ UNCHANGED <<commands, pc, engine, execution, bad, verdict>>
      BY <1>16, <1>t, RowAdded DEF EnvironmentCreated, checkVars
    <2> QED
      BY <1>t, <2>1
  <1>17. ASSUME NEW i \in DOMAIN envs, EnvironmentCleaned(i) PROVE Seen'
    <2>1. Len(envs') = Len(envs) /\ UNCHANGED <<commands, pc, engine, execution, bad, verdict>>
      BY <1>17, <1>t, RowRewritten DEF EnvironmentCleaned, checkVars
    <2> QED
      BY <2>1
  <1> QED
    BY <1>1, <1>2, <1>3, <1>4, <1>5, <1>6, <1>7, <1>8, <1>9, <1>10, <1>11, <1>12, <1>13,
       <1>14, <1>15, <1>16, <1>17 DEF Next, AgentStep

------------------------------------------------------------------------------
(* The run alone.                                                          *)

LEMMA RunInductive == RunInv /\ [Next]_runVars => RunInv'
  <1> SUFFICES ASSUME RunInv, [Next]_runVars PROVE RunInv'
    OBVIOUS
  <1>1. CASE Next
    <2>1. Bounded /\ Counts /\ Statuses /\ Seen
      BY DEF RunInv, Bounded, Counts, Statuses, Seen, CommandsSeen
    <2>2. Bounded' /\ Counts' /\ Statuses' /\ Seen'
      BY <1>1, <2>1, TypeStep, CountStep, StatusStep, SeenStep
    <2> QED
      BY <2>2 DEF RunInv, Bounded, Counts, Statuses, Seen
  <1>2. CASE UNCHANGED runVars
    BY <1>2 DEF runVars, loopVars, checkVars, RunInv, RunTypeOK, Counted, StatusAt,
       CommandsSeen, Clean, VerifyingRecorded, ToolBudget, EndsAgree, FailuresStick,
       LimitsReached
  <1> QED
    BY <1>1, <1>2

\* What a run holds in memory, what it has saved and what is on record stay as
\* close to each other as RunInv says, wherever run() is.
THEOREM RunInvariance == Spec => []RunInv
  BY RunInitial, RunInductive, PTL DEF Spec

\* A run, its row and what hangs on them keep their types, for any policy.
THEOREM RunTypeCorrect == Spec => []RunTypeOK
  BY RunInvariance, PTL DEF RunInv

\* coding_agent.py never verifies a run whose row says RUNNING, however many
\* verifications have failed before.
THEOREM VerificationIsRecorded == Spec => []VerifyingRecorded
  BY RunInvariance, PTL DEF RunInv

\* The tool gateway never records more calls than the policy allows.
THEOREM ToolCallsBounded == Spec => []ToolBudget
  BY RunInvariance, PTL DEF RunInv

\* _complete_run and _fail_run leave the run and the execution in agreement.
THEOREM RunAndExecutionAgree == Spec => []EndsAgree
  BY RunInvariance, PTL DEF RunInv

\* The verification engine never lets a run succeed in whose only environment
\* a command has failed.
THEOREM FailedCommandsStick == Spec => []FailuresStick
  BY RunInvariance, PTL DEF RunInv

------------------------------------------------------------------------------
(* One call of the local sandbox, for any number of processes the command  *)
(* may start.                                                              *)

\* The exit code of Main is known once Main has gone.
CodeKnown ==
  /\ at \in {"waiting", "killed"} /\ Main \notin alive => code # "none"
  /\ at = "idle" => outcome = "NONE" /\ alive = {} /\ code = "none"
  /\ at \in {"waiting", "killed"} => outcome = "NONE"
  /\ at = "done" => outcome # "NONE"

SandboxInv == SandboxTypeOK /\ OutputEnded /\ GroupKilled /\ CodeKnown

LEMMA SandboxInitial == SandboxInit => SandboxInv
  BY DEF SandboxInit, SandboxInv, SandboxTypeOK, OutputEnded, GroupKilled, CodeKnown,
     CommandStatus

LEMMA SandboxInductive == SandboxInv /\ [SandboxNext]_sandboxVars => SandboxInv'
  <1> SUFFICES ASSUME SandboxInv, [SandboxNext]_sandboxVars PROVE SandboxInv'
    OBVIOUS
  <1> USE SandboxAssumption
      DEF SandboxInv, SandboxTypeOK, OutputEnded, GroupKilled, CodeKnown, CommandStatus,
          Processes, processVars
  <1>1. CASE UNCHANGED sandboxVars
    BY <1>1 DEF sandboxVars
  <1>2. ASSUME NEW status \in {"REJECTED", "FAILED"}, Refuses(status) PROVE SandboxInv'
    BY <1>2 DEF Refuses
  <1>3. CASE Starts
    BY <1>3 DEF Starts
  <1>4. CASE Returns
    BY <1>4 DEF Returns, Drained
  <1>5. CASE TimesOut
    BY <1>5 DEF TimesOut, Killed
  <1>6. CASE Collects
    BY <1>6 DEF Collects, Drained
  <1>7. CASE Delivers
    BY <1>7 DEF Delivers
  <1>8. ASSUME NEW p \in Processes, NEW q \in Descendants, Forks(p, q) PROVE SandboxInv'
    BY <1>8 DEF Forks
  <1>9. ASSUME NEW p \in Processes, Detaches(p) PROVE SandboxInv'
    BY <1>9 DEF Detaches
  <1>10. ASSUME NEW p \in Processes, ClosesOutput(p) PROVE SandboxInv'
    BY <1>10 DEF ClosesOutput
  <1>11. ASSUME NEW p \in Processes, NEW c \in {"zero", "nonzero"}, Exits(p, c)
         PROVE  SandboxInv'
    BY <1>11 DEF Exits
  <1> QED
    BY <1>1, <1>2, <1>3, <1>4, <1>5, <1>6, <1>7, <1>8, <1>9, <1>10, <1>11
    DEF SandboxNext, Waits, ProcessStep

\* What execute knows of the command's processes is true wherever it waits.
THEOREM SandboxInvariance == SandboxSpec => []SandboxInv
  BY SandboxInitial, SandboxInductive, PTL DEF SandboxSpec

\* Processes, groups, pipes and results keep their types.
THEOREM SandboxTypeCorrect == SandboxSpec => []SandboxTypeOK
  BY SandboxInvariance, PTL DEF SandboxInv

\* No result is handed over while a process can still write to the output.
THEOREM OutputComplete == SandboxSpec => []OutputEnded
  BY SandboxInvariance, PTL DEF SandboxInv

\* After a timeout no process of the command's group is left, however many
\* it had started and whatever they do meanwhile.
THEOREM TimeoutKillsGroup == SandboxSpec => []GroupKilled
  BY SandboxInvariance, PTL DEF SandboxInv

------------------------------------------------------------------------------
(* The run with the local sandbox.                                         *)

LEMMA SandboxedSteps ==
  SandboxedNext => [Next]_runVars /\ [SandboxNext]_sandboxVars
  <1> SUFFICES ASSUME SandboxedNext PROVE [Next]_runVars /\ [SandboxNext]_sandboxVars
    OBVIOUS
  <1>1. CASE CommandCalls
    BY <1>1 DEF CommandCalls, SandboxNext
  <1>2. CASE CommandReturns
    <2>1. (outcome = "SUCCEEDED") \in BOOLEAN
      OBVIOUS
    <2> QED
      BY <1>2, <2>1 DEF CommandReturns, Next, AgentStep, SandboxNext
  <1>3. CASE RunStep /\ UNCHANGED sandboxVars
    BY <1>3 DEF RunStep, Next, AgentStep
  <1>4. CASE SandboxWaits
    BY <1>4 DEF SandboxWaits, SandboxNext
  <1>5. CASE ProcessStep /\ UNCHANGED runVars
    BY <1>5 DEF SandboxNext
  <1>6. CASE /\ \/ RunRaises
                \/ \E ready \in BOOLEAN : EnvironmentCreated(ready)
                \/ \E i \in DOMAIN envs : EnvironmentCleaned(i)
             /\ UNCHANGED sandboxVars
    BY <1>6 DEF Next
  <1> QED
    BY <1>1, <1>2, <1>3, <1>4, <1>5, <1>6 DEF SandboxedNext, RunGoesOn

\* execution_service.py puts agent and sandbox together without giving either
\* a step it does not have alone: what is proved of each holds of the two.
LEMMA SandboxedProjects == SandboxedSpec => Spec /\ SandboxSpec
  <1>1. SandboxedInit => Init /\ SandboxInit
    BY DEF SandboxedInit
  <1>2. [SandboxedNext]_sandboxedVars => [Next]_runVars /\ [SandboxNext]_sandboxVars
    BY SandboxedSteps DEF sandboxedVars
  <1> QED
    BY <1>1, <1>2, PTL DEF SandboxedSpec, Spec, SandboxSpec

\* Whatever processes a command starts and wherever they go, a command that the
\* agent and its verification see as SUCCEEDED has run to its end and its output
\* is complete: nobody else records commands, and execute's result is true by
\* the time it is handed over.
THEOREM SuccessesReal == SandboxedSpec => RecordedSuccessReal
  <1> DEFINE Real ==
        \A k \in DOMAIN commands' \ DOMAIN commands :
          commands'[k].ok => Main \notin alive /\ code = "zero" /\ holders = {}
  <1>1. Bounded /\ SandboxInv /\ [SandboxedNext]_sandboxedVars => [Real]_sandboxedVars
    <2> SUFFICES ASSUME Bounded, SandboxInv, SandboxedNext PROVE Real
      OBVIOUS
    <2> DEFINE Recorded == \E noted \in BOOLEAN :
                             Delivers /\ CommandEnds(outcome = "SUCCEEDED", noted)
    <2>1. commands' = commands \/ Recorded
      <3>1. CASE CommandReturns
        BY <3>1 DEF CommandReturns, CommandUnrecorded
      <3>2. CASE CommandCalls \/ SandboxWaits \/ (ProcessStep /\ UNCHANGED runVars)
        BY <3>2 DEF CommandCalls, SandboxWaits, runVars
      <3>3. CASE RunStep
        BY <3>3 DEF RunStep, AgentStep, CommandUnrecorded, CommandEnds, Create, MakeReady,
           StopsAtTop, Proceed, NoDecision, InvalidDecision, Finish, ToolRejected, ToolAllowed,
           ToolStarts, Account, ToolReturns, VerificationStarts, VerificationErrs, Passes,
           Recovers, GivesUp, CommandStarts, CheckFailures, CheckTests, Conclude, CompleteRun,
           FailRun
      <3>4. CASE RunRaises \/ (\E ready \in BOOLEAN : EnvironmentCreated(ready))
                 \/ \E i \in DOMAIN envs : EnvironmentCleaned(i)
        BY <3>4 DEF RunRaises, EnvironmentCreated, EnvironmentCleaned
      <3> HIDE DEF Recorded
      <3> QED
        BY <3>1, <3>2, <3>3, <3>4 DEF SandboxedNext, RunGoesOn
    <2>2. ASSUME NEW noted \in BOOLEAN, Delivers, CommandEnds(outcome = "SUCCEEDED", noted)
          PROVE  Real
      <3> DEFINE c == [env |-> env, ok |-> outcome = "SUCCEEDED"]
      <3>1. commands' = Append(commands, c) /\ pc = "command" /\ at = "done"
        BY <2>2 DEF CommandEnds, Delivers
      <3>2. c \in [env: 1..MaxEnvs, ok: BOOLEAN]
        <4>1. env \in 1..MaxEnvs
          BY <3>1, RunAssumption DEF Bounded, RunTypeOK
        <4>2. (outcome = "SUCCEEDED") \in BOOLEAN
          OBVIOUS
        <4> QED
          BY <4>1, <4>2
      <3>3. \A k \in DOMAIN commands' \ DOMAIN commands : commands'[k] = c
        <4>1. commands \in Seq([env: 1..MaxEnvs, ok: BOOLEAN])
          BY DEF Bounded, RunTypeOK
        <4> HIDE DEF c
        <4>2. /\ DOMAIN commands' = DOMAIN commands \cup {Len(commands) + 1}
              /\ commands'[Len(commands) + 1] = c
          BY <3>1, <3>2, <4>1, RowAdded
        <4> QED
          BY <4>2
      <3>4. c.ok => Main \notin alive /\ code = "zero" /\ holders = {}
        BY <3>1 DEF SandboxInv, OutputEnded
      <3> QED
        BY <3>3, <3>4
    <2> QED
      BY <2>1, <2>2
  <1>2. RunInv => Bounded
    BY DEF RunInv, Bounded, CommandsSeen
  <1>3. SandboxedSpec => [][SandboxedNext]_sandboxedVars
    BY PTL DEF SandboxedSpec
  <1> HIDE DEF Real
  <1>4. SandboxedSpec => [][Real]_sandboxedVars
    BY <1>1, <1>2, <1>3, SandboxedProjects, RunInvariance, SandboxInvariance, PTL
  <1> QED
    BY <1>4 DEF RecordedSuccessReal, Real
===============================================================================
