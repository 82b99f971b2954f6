----------------------- MODULE MissionLifecycleProofs -----------------------
(***************************************************************************)
(* What holds of a mission for any number of clients that call any of the  *)
(* endpoints, with their requests overlapping in every way.                *)
(*                                                                         *)
(* GatesInOrder and PRsAfterVerification are not inductive: a handler acts *)
(* on a status it has read before.  RoadInv adds what is known of a        *)
(* handler in between: the status it is about to write follows one that    *)
(* the mission has had.                                                    *)
(***************************************************************************)
EXTENDS MissionLifecycle, SequenceTheorems, FiniteSetTheorems, TLAPS

\* The gates behind a mission whose status is s.
Reached(s) ==
  /\ s \in Gates => s \in seen
  /\ s \in {"RECOVERING", "BLOCKED"} => "EXECUTING" \in seen

\* The gates behind a mission about to be given the status s.
Ahead(s) ==
  /\ \A leg \in Road : leg[2] = s => leg[1] \in seen
  /\ s \in {"RECOVERING", "BLOCKED"} => "EXECUTING" \in seen

RoadInv ==
  /\ GatesInOrder
  /\ Reached(mission)
  /\ \A c \in Clients : Ahead(job[c].goal)
  /\ \A c \in Clients : job[c].at = "pr" => "VERIFIED" \in seen
  /\ PRsAfterVerification

------------------------------------------------------------------------------
(* Types.                                                                  *)

\* A handler that moves on keeps the type of every handler's state.
LEMMA ThenTyped ==
  ASSUME job \in [Clients -> Job], NEW c \in Clients, NEW j \in Job, Then(c, j)
  PROVE  job' \in [Clients -> Job] /\ job'[c] = j /\ \A d \in Clients \ {c} : job'[d] = job[d]
BY DEF Then

\* What the fields of a handler's state may be set to.
LEMMA JobFields ==
  /\ Idle \in Job
  /\ \A g \in MissionStatus : [Idle EXCEPT !.at = "write", !.goal = g] \in Job
  /\ \A i \in Nat, v \in {"APPROVED", "REJECTED"} :
       /\ [Idle EXCEPT !.at = "resolve", !.row = i, !.verdict = v] \in Job
       /\ [Idle EXCEPT !.at = "pick", !.verdict = v] \in Job
  /\ \A a \in {"request", "draft", "planned", "pr"} : [Idle EXCEPT !.at = a] \in Job
  /\ \A S \in SUBSET Nat : [Idle EXCEPT !.at = "supersede", !.todo = S] \in Job
  /\ \A j \in Job : /\ [j EXCEPT !.at = "commit"] \in Job
                    /\ \A g \in MissionStatus : [j EXCEPT !.at = "commit", !.goal = g] \in Job
                    /\ \A i \in Nat : [j EXCEPT !.at = "resolve", !.row = i] \in Job
<1>1. Idle \in Job
  BY DEF Idle, Job
<1>2. \A g \in MissionStatus : [Idle EXCEPT !.at = "write", !.goal = g] \in Job
  BY DEF Idle, Job
<1>3. \A i \in Nat, v \in {"APPROVED", "REJECTED"} :
        /\ [Idle EXCEPT !.at = "resolve", !.row = i, !.verdict = v] \in Job
        /\ [Idle EXCEPT !.at = "pick", !.verdict = v] \in Job
  BY DEF Idle, Job
<1>4. \A a \in {"request", "draft", "planned", "pr"} : [Idle EXCEPT !.at = a] \in Job
  BY DEF Idle, Job
<1>5. \A S \in SUBSET Nat : [Idle EXCEPT !.at = "supersede", !.todo = S] \in Job
  BY DEF Idle, Job
<1>6. \A j \in Job : [j EXCEPT !.at = "commit"] \in Job
  BY DEF Job
<1>7. \A j \in Job, g \in MissionStatus : [j EXCEPT !.at = "commit", !.goal = g] \in Job
  BY DEF Job
<1>8. \A j \in Job, i \in Nat : [j EXCEPT !.at = "resolve", !.row = i] \in Job
  BY DEF Job
<1> QED
  BY <1>1, <1>2, <1>3, <1>4, <1>5, <1>6, <1>7, <1>8

\* The moves of resolve_approval are pairs of statuses.
LEMMA ResolutionTyped ==
  \A type, verdict : \A m \in Resolution(type, verdict) : m[1] \in MissionStatus /\ m[2] \in MissionStatus
BY DEF Resolution, MissionStatus

\* Asking for an approval adds a row and leaves the others alone.
LEMMA ApprovalAdded ==
  ASSUME LifecycleTypeOK, NEW type \in ApprovalTypes,
         approvals' = Append(approvals, Pending(type))
  PROVE  /\ approvals' \in Seq(Approval)
         /\ Len(approvals') = Len(approvals) + 1 /\ Len(approvals) \in Nat
         /\ DOMAIN approvals \subseteq DOMAIN approvals'
         /\ Len(approvals) + 1 \in DOMAIN approvals'
<1>1. approvals \in Seq(Approval) /\ Pending(type) \in Approval
  BY DEF LifecycleTypeOK, Pending, Approval
<1>2. approvals' \in Seq(Approval) /\ Len(approvals') = Len(approvals) + 1
  BY <1>1, AppendProperties
<1>3. /\ Len(approvals) \in Nat
      /\ DOMAIN approvals = 1..Len(approvals) /\ DOMAIN approvals' = 1..Len(approvals')
  BY <1>1, <1>2, LenProperties
<1> QED
  BY <1>2, <1>3

\* A handler that only moves on keeps the types.
LEMMA MovesOnTyped ==
  ASSUME LifecycleTypeOK, NEW c \in Clients, NEW j \in Job, Then(c, j),
         j.at \in {"resolve", "commit"} => j.row \in DOMAIN approvals,
         j.at = "write" => j.goal # "NONE",
         UNCHANGED <<mission, approvals, plans, prs, seen, granted>>
  PROVE  LifecycleTypeOK'
<1>1. job \in [Clients -> Job]
  BY DEF LifecycleTypeOK
<1>2. job' \in [Clients -> Job] /\ job'[c] = j /\ \A d \in Clients \ {c} : job'[d] = job[d]
  BY <1>1, ThenTyped
<1> QED
  BY <1>2 DEF LifecycleTypeOK

LEMMA InitTyped == Init => LifecycleTypeOK
<1> SUFFICES ASSUME Init PROVE LifecycleTypeOK
  OBVIOUS
<1>1. Idle \in Job
  BY JobFields
<1>2. job \in [Clients -> Job] /\ \A c \in Clients : job[c].at = "idle"
  BY <1>1 DEF Init, Idle
<1>3. << >> \in Seq(Approval) /\ << >> \in Seq(PlanStatus) /\ Len(<< >>) = 0
  OBVIOUS
<1> QED
  BY <1>2, <1>3 DEF Init, LifecycleTypeOK, MissionStatus

\* Steps that write no row at all.
LEMMA ReadingStepsTyped ==
  ASSUME LifecycleTypeOK, NEW c \in Clients,
         \/ \E status \in MissionStatus : TransitionReads(c, status)
         \/ \E verdict \in {"APPROVED", "REJECTED"} : MergeChecks(c, verdict)
         \/ \E i \in DOMAIN approvals : MergePicks(c, i)
         \/ MergeAskChecks(c) \/ MergeFindsNone(c) \/ ResolveReads(c) \/ ResolveRaises(c)
         \/ PlanReads(c) \/ PlanReturns(c) \/ PRChecks(c) \/ RequestDies(c)
  PROVE  LifecycleTypeOK'
<1>0. job[c] \in Job /\ Idle \in Job /\ Idle.at = "idle"
  BY JobFields DEF LifecycleTypeOK, Idle
<1>1. ASSUME NEW status \in MissionStatus, TransitionReads(c, status) PROVE LifecycleTypeOK'
  <2> DEFINE j == [Idle EXCEPT !.at = "write", !.goal = status]
  <2>1. j \in Job /\ j.at = "write" /\ j.goal # "NONE"
    BY JobFields DEF Idle, MissionStatus
  <2> QED
    BY <1>1, <2>1, MovesOnTyped DEF TransitionReads
<1>2. ASSUME NEW verdict \in {"APPROVED", "REJECTED"}, MergeChecks(c, verdict)
      PROVE  LifecycleTypeOK'
  <2> DEFINE j == [Idle EXCEPT !.at = "pick", !.verdict = verdict]
  <2>1. j \in Job /\ j.at = "pick"
    BY JobFields DEF Idle
  <2> QED
    BY <1>2, <2>1, MovesOnTyped DEF MergeChecks
<1>3. ASSUME NEW i \in DOMAIN approvals, MergePicks(c, i) PROVE LifecycleTypeOK'
  <2> DEFINE j == [job[c] EXCEPT !.at = "resolve", !.row = i]
  <2>1. i \in Nat
    BY DEF LifecycleTypeOK
  <2>2. j \in Job
    BY <1>0, <2>1, JobFields
  <2>3. j.at = "resolve" /\ j.row = i
    BY <1>0 DEF Job
  <2> QED
    BY <1>3, <2>2, <2>3, MovesOnTyped DEF MergePicks
<1>4. CASE MergeAskChecks(c)
  <2>1. [Idle EXCEPT !.at = "request"] \in Job /\ [Idle EXCEPT !.at = "request"].at = "request"
    BY JobFields DEF Idle
  <2> QED
    BY <1>4, <2>1, MovesOnTyped DEF MergeAskChecks
<1>5. CASE MergeFindsNone(c)
  BY <1>0, <1>5, MovesOnTyped DEF MergeFindsNone
<1>6. CASE ResolveReads(c)
  <2>1. job[c].row \in DOMAIN approvals
    BY <1>6 DEF ResolveReads, At, LifecycleTypeOK
  <2>2. CASE Then(c, [job[c] EXCEPT !.at = "commit"])
    <3>1. [job[c] EXCEPT !.at = "commit"] \in Job
      BY <1>0, JobFields
    <3>2. [job[c] EXCEPT !.at = "commit"].at = "commit"
          /\ [job[c] EXCEPT !.at = "commit"].row = job[c].row
      BY <1>0 DEF Job
    <3> QED
      BY <1>6, <2>1, <2>2, <3>1, <3>2, MovesOnTyped DEF ResolveReads
  <2>3. ASSUME NEW m \in Moves(c), Then(c, [job[c] EXCEPT !.at = "commit", !.goal = m[2]])
        PROVE  LifecycleTypeOK'
    <3> DEFINE j == [job[c] EXCEPT !.at = "commit", !.goal = m[2]]
    <3>1. m[2] \in MissionStatus
      BY ResolutionTyped DEF Moves
    <3>2. j \in Job
      BY <1>0, <3>1, JobFields
    <3>3. j.at = "commit" /\ j.row = job[c].row
      BY <1>0 DEF Job
    <3> QED
      BY <1>6, <2>1, <2>3, <3>2, <3>3, MovesOnTyped DEF ResolveReads
  <2> QED
    BY <1>6, <2>2, <2>3 DEF ResolveReads
<1>7. CASE ResolveRaises(c)
  BY <1>0, <1>7, MovesOnTyped DEF ResolveRaises
<1>8. CASE PlanReads(c)
  <2> DEFINE S == {i \in DOMAIN plans : Replaced(plans[i])}
             j == [Idle EXCEPT !.at = "supersede", !.todo = S]
  <2>1. S \in SUBSET Nat
    BY DEF LifecycleTypeOK
  <2>2. j \in Job /\ j.at = "supersede"
    BY <2>1, JobFields DEF Idle
  <2> QED
    BY <1>8, <2>2, MovesOnTyped DEF PlanReads
<1>9. CASE PlanReturns(c)
  <2> DEFINE j == [Idle EXCEPT !.at = "write", !.goal = "PLANNED"]
  <2>1. "PLANNED" \in MissionStatus
    BY DEF MissionStatus
  <2>2. j \in Job /\ j.at = "write" /\ j.goal = "PLANNED"
    BY <2>1, JobFields DEF Idle
  <2> QED
    BY <1>0, <1>9, <2>2, MovesOnTyped DEF PlanReturns
<1>10. CASE PRChecks(c)
  <2>1. [Idle EXCEPT !.at = "pr"] \in Job /\ [Idle EXCEPT !.at = "pr"].at = "pr"
    BY JobFields DEF Idle
  <2> QED
    BY <1>10, <2>1, MovesOnTyped DEF PRChecks
<1>11. CASE RequestDies(c)
  BY <1>0, <1>11, MovesOnTyped DEF RequestDies
<1> QED
  BY <1>1, <1>2, <1>3, <1>4, <1>5, <1>6, <1>7, <1>8, <1>9, <1>10, <1>11

\* Steps that insert or change rows.
LEMMA WritingStepsTyped ==
  ASSUME LifecycleTypeOK, NEW c \in Clients,
         \/ MissionWrites(c)
         \/ \E type \in ApprovalTypes :
              \/ \E verdict \in {"APPROVED", "REJECTED"} : AskAndResolve(c, type, verdict)
              \/ MergeAsks(c, type)
         \/ \E verdict \in {"APPROVED", "REJECTED"} : \E i \in DOMAIN plans :
              ReviewPlan(c, i, verdict)
         \/ ResolveCommits(c) \/ PlanSupersedes(c) \/ PRCreates(c)
         \/ \E ok \in BOOLEAN : PlanDrafts(c, ok)
  PROVE  LifecycleTypeOK'
<1>0. job[c] \in Job /\ Idle \in Job /\ Idle.at = "idle" /\ job \in [Clients -> Job]
  BY JobFields DEF LifecycleTypeOK, Idle
<1>1. CASE MissionWrites(c)
  <2>1. job[c].goal \in MissionStatus
    BY <1>0, <1>1 DEF MissionWrites, At, LifecycleTypeOK, Job
  <2>2. job' \in [Clients -> Job] /\ job'[c] = Idle /\ \A d \in Clients \ {c} : job'[d] = job[d]
    BY <1>0, <1>1, ThenTyped DEF MissionWrites
  <2> QED
    BY <1>0, <1>1, <2>1, <2>2 DEF MissionWrites, LifecycleTypeOK
<1>2. ASSUME NEW type \in ApprovalTypes, NEW verdict \in {"APPROVED", "REJECTED"},
             AskAndResolve(c, type, verdict)
      PROVE  LifecycleTypeOK'
  <2> DEFINE j == [Idle EXCEPT !.at = "resolve", !.row = Len(approvals) + 1,
                               !.verdict = verdict]
  <2>1. /\ approvals' \in Seq(Approval)
        /\ Len(approvals') = Len(approvals) + 1 /\ Len(approvals) \in Nat
        /\ DOMAIN approvals \subseteq DOMAIN approvals'
        /\ Len(approvals) + 1 \in DOMAIN approvals'
    BY <1>2, ApprovalAdded DEF AskAndResolve, NewRow
  <2>2. j \in Job
    <3>1. Len(approvals) + 1 \in Nat
      BY <2>1
    <3> QED
      BY <3>1, JobFields
  <2>3. j.at = "resolve" /\ j.row = Len(approvals) + 1
    BY DEF Idle
  <2>4. job' \in [Clients -> Job] /\ job'[c] = j /\ \A d \in Clients \ {c} : job'[d] = job[d]
    BY <1>0, <1>2, <2>2, ThenTyped DEF AskAndResolve, NewRow
  <2>5. granted' \in 0..Len(approvals')
    BY <1>2, <2>1 DEF AskAndResolve, NewRow, LifecycleTypeOK
  <2> HIDE DEF j
  <2> QED
    BY <1>2, <2>1, <2>3, <2>4, <2>5 DEF AskAndResolve, NewRow, LifecycleTypeOK
<1>3. ASSUME NEW type \in ApprovalTypes, MergeAsks(c, type) PROVE LifecycleTypeOK'
  <2>1. /\ approvals' \in Seq(Approval)
        /\ Len(approvals') = Len(approvals) + 1 /\ Len(approvals) \in Nat
        /\ DOMAIN approvals \subseteq DOMAIN approvals'
    BY <1>3, ApprovalAdded DEF MergeAsks
  <2>2. job' \in [Clients -> Job] /\ job'[c] = Idle /\ \A d \in Clients \ {c} : job'[d] = job[d]
    BY <1>0, <1>3, ThenTyped DEF MergeAsks
  <2>3. granted' \in 0..Len(approvals')
    BY <1>3, <2>1 DEF MergeAsks, LifecycleTypeOK
  <2> QED
    BY <1>0, <1>3, <2>1, <2>2, <2>3 DEF MergeAsks, LifecycleTypeOK
<1>4. ASSUME NEW verdict \in {"APPROVED", "REJECTED"}, NEW i \in DOMAIN plans,
             ReviewPlan(c, i, verdict)
      PROVE  LifecycleTypeOK'
  <2>1. plans' \in Seq(PlanStatus)
    BY <1>4 DEF ReviewPlan, LifecycleTypeOK, PlanStatus
  <2> QED
    BY <1>4, <2>1 DEF ReviewPlan, LifecycleTypeOK
<1>5. CASE ResolveCommits(c)
  <2>1. job[c].row \in DOMAIN approvals /\ job[c].verdict \in {"APPROVED", "REJECTED"}
        /\ job[c].goal \in MissionStatus \cup {"NONE"}
    BY <1>0, <1>5 DEF ResolveCommits, At, LifecycleTypeOK, Job
  <2>2. approvals' \in Seq(Approval) /\ Len(approvals') = Len(approvals)
        /\ DOMAIN approvals' = DOMAIN approvals
    <3>1. approvals \in Seq(Approval) /\ approvals[job[c].row] \in Approval
      BY <2>1 DEF LifecycleTypeOK
    <3>2. [approvals[job[c].row] EXCEPT !.status = job[c].verdict] \in Approval
      BY <2>1, <3>1 DEF Approval
    <3> QED
      BY <1>5, <2>1, <3>1, <3>2, ExceptSeq DEF ResolveCommits
  <2>3. job' \in [Clients -> Job] /\ job'[c] = Idle /\ \A d \in Clients \ {c} : job'[d] = job[d]
    BY <1>0, <1>5, ThenTyped DEF ResolveCommits
  <2>4. mission' \in MissionStatus /\ seen' \subseteq Gates
    BY <1>5, <2>1 DEF ResolveCommits, LifecycleTypeOK
  <2>5. granted' \in 0..Len(approvals')
    BY <1>5, <2>1, <2>2 DEF ResolveCommits, LifecycleTypeOK
  <2> QED
    BY <1>0, <1>5, <2>2, <2>3, <2>4, <2>5 DEF ResolveCommits, LifecycleTypeOK
<1>6. CASE PlanSupersedes(c)
  <2>1. plans' \in Seq(PlanStatus)
    <3>1. Len(plans) \in Nat /\ DOMAIN plans = 1..Len(plans)
      BY DEF LifecycleTypeOK
    <3>2. \A i \in 1..Len(plans) :
            (IF i \in job[c].todo THEN "SUPERSEDED" ELSE plans[i]) \in PlanStatus
      BY DEF LifecycleTypeOK, PlanStatus
    <3> QED
      BY <1>6, <3>1, <3>2, SeqDef DEF PlanSupersedes
  <2> DEFINE j == [Idle EXCEPT !.at = "draft"]
  <2>2. j \in Job /\ j.at = "draft"
    BY JobFields DEF Idle
  <2>3. job' \in [Clients -> Job] /\ job'[c] = j /\ \A d \in Clients \ {c} : job'[d] = job[d]
    BY <1>0, <1>6, <2>2, ThenTyped DEF PlanSupersedes
  <2> HIDE DEF j
  <2> QED
    BY <1>6, <2>1, <2>2, <2>3 DEF PlanSupersedes, LifecycleTypeOK
<1>7. CASE PRCreates(c)
  <2>1. job' \in [Clients -> Job] /\ job'[c] = Idle /\ \A d \in Clients \ {c} : job'[d] = job[d]
    BY <1>0, <1>7, ThenTyped DEF PRCreates
  <2> QED
    BY <1>0, <1>7, <2>1 DEF PRCreates, LifecycleTypeOK
<1>8. ASSUME NEW ok \in BOOLEAN, PlanDrafts(c, ok) PROVE LifecycleTypeOK'
  <2>1. plans' \in Seq(PlanStatus)
    BY <1>8 DEF PlanDrafts, LifecycleTypeOK, PlanStatus
  <2> DEFINE j == IF ok THEN [Idle EXCEPT !.at = "planned"] ELSE Idle
  <2>2. j \in Job /\ j.at \in {"planned", "idle"}
    BY <1>0, JobFields DEF Idle
  <2>3. job' \in [Clients -> Job] /\ job'[c] = j /\ \A d \in Clients \ {c} : job'[d] = job[d]
    BY <1>0, <1>8, <2>2, ThenTyped DEF PlanDrafts
  <2> HIDE DEF j
  <2> QED
    BY <1>8, <2>1, <2>2, <2>3 DEF PlanDrafts, LifecycleTypeOK
<1> QED
  BY <1>1, <1>2, <1>3, <1>4, <1>5, <1>6, <1>7, <1>8

LEMMA LifecycleNextTyped == LifecycleTypeOK /\ [Next]_lifecycleVars => LifecycleTypeOK'
<1> SUFFICES ASSUME LifecycleTypeOK, [Next]_lifecycleVars PROVE LifecycleTypeOK'
  OBVIOUS
<1>1. CASE UNCHANGED lifecycleVars
  BY <1>1 DEF lifecycleVars, LifecycleTypeOK
<1>2. ASSUME NEW c \in Clients, Handle(c) PROVE LifecycleTypeOK'
  BY <1>2, ReadingStepsTyped, WritingStepsTyped DEF Handle
<1> QED
  BY <1>1, <1>2 DEF Next

\* Every reachable state of every mission has well-typed rows and requests,
\* for all clients, routes and bounds.
THEOREM LifecycleTyped == Spec => []LifecycleTypeOK
BY InitTyped, LifecycleNextTyped, PTL DEF Spec

------------------------------------------------------------------------------
(* The road.                                                               *)

\* The table never leads past a gate: a legal move from a status the mission
\* is at is to one whose gates are behind it.
LEMMA LegalMovesAreAhead ==
  ASSUME GatesInOrder, Reached(mission), NEW s, MissionCanMove(mission, s)
  PROVE  Ahead(s)
<1>1. MissionCanMove(mission, s) /\ s \in {"RECOVERING", "BLOCKED"} => "EXECUTING" \in seen
  BY DEF Reached, Road, Gates, GatesInOrder, MissionCanMove, MissionTransitions
<1>2. ASSUME NEW leg \in Road, leg[2] = s PROVE leg[1] \in seen
  <2>1. CASE leg[2] = "EXECUTING"
    BY <1>2, <2>1 DEF Reached, Road, Gates, GatesInOrder, MissionCanMove, MissionTransitions
  <2>2. CASE leg[2] # "EXECUTING"
    <3>1. mission = leg[1]
      BY <1>2, <2>2 DEF Road, MissionCanMove, MissionTransitions
    <3> QED
      BY <1>2, <3>1 DEF Reached, Road, Gates
  <2> QED
    BY <2>1, <2>2
<1> QED
  BY <1>1, <1>2 DEF Ahead

\* Writing a status whose gates are behind it keeps the order.
LEMMA WritingKeepsOrder ==
  ASSUME GatesInOrder, NEW s, Ahead(s), seen' = seen \cup ({s} \cap Gates), mission' = s
  PROVE  GatesInOrder' /\ Reached(mission)'
<1>1. GatesInOrder'
  BY DEF GatesInOrder, Ahead
<1>2. Reached(mission)'
  BY DEF Reached, Ahead
<1> QED
  BY <1>1, <1>2

\* seen only grows, so what was behind a handler stays behind it.
LEMMA AheadStays == ASSUME NEW s, Ahead(s), seen \subseteq seen' PROVE Ahead(s)'
BY DEF Ahead

\* A handler that is not writing has nothing ahead.
LEMMA NothingAhead == Ahead("NONE") /\ Idle.goal = "NONE" /\ Idle.at = "idle"
BY DEF Ahead, Idle, Road

LEMMA RoadInit == Init => RoadInv
<1> SUFFICES ASSUME Init PROVE RoadInv
  OBVIOUS
<1>1. \A c \in Clients : job[c].goal = "NONE" /\ job[c].at = "idle"
  BY DEF Init, Idle
<1>2. GatesInOrder /\ Reached(mission)
  BY DEF Init, GatesInOrder, Reached, Gates, Road
<1> QED
  BY <1>1, <1>2, NothingAhead DEF Init, RoadInv, PRsAfterVerification

\* A step that leaves mission, seen and prs alone only has to answer for what
\* its own handler has in hand.
LEMMA HandlerMovesOn ==
  ASSUME LifecycleTypeOK, RoadInv, NEW c \in Clients, NEW j \in Job, Then(c, j),
         Ahead(j.goal), j.at = "pr" => "VERIFIED" \in seen,
         UNCHANGED <<mission, prs, seen>>
  PROVE  RoadInv'
<1>1. job' \in [Clients -> Job] /\ job'[c] = j /\ \A d \in Clients \ {c} : job'[d] = job[d]
  BY ThenTyped DEF LifecycleTypeOK
<1>2. GatesInOrder' /\ Reached(mission)' /\ PRsAfterVerification'
  BY DEF RoadInv, GatesInOrder, Reached, PRsAfterVerification
<1>3. ASSUME NEW d \in Clients
      PROVE  Ahead(job[d].goal)' /\ (job[d].at = "pr" => "VERIFIED" \in seen)'
  BY <1>1 DEF RoadInv, Ahead
<1> QED
  BY <1>2, <1>3 DEF RoadInv

\* A step that gives the mission a status that is ahead of it.
LEMMA MissionMovesOn ==
  ASSUME LifecycleTypeOK, RoadInv, NEW c \in Clients, Then(c, Idle), NEW s, Ahead(s),
         mission' = s, seen' = seen \cup ({s} \cap Gates), UNCHANGED prs
  PROVE  RoadInv'
<1>1. /\ job' \in [Clients -> Job] /\ job'[c] = Idle
      /\ \A d \in Clients \ {c} : job'[d] = job[d]
  BY JobFields, ThenTyped DEF LifecycleTypeOK
<1>2. GatesInOrder' /\ Reached(mission)'
  BY WritingKeepsOrder DEF RoadInv
<1>3. PRsAfterVerification'
  BY DEF RoadInv, PRsAfterVerification
<1>4. ASSUME NEW d \in Clients
      PROVE  Ahead(job[d].goal)' /\ (job[d].at = "pr" => "VERIFIED" \in seen)'
  <2>1. CASE d = c
    BY <1>1, <2>1, NothingAhead DEF Ahead
  <2>2. CASE d # c
    BY <1>1, <2>2 DEF RoadInv, Ahead
  <2> QED
    BY <2>1, <2>2
<1> QED
  BY <1>2, <1>3, <1>4 DEF RoadInv

LEMMA RoadNext == LifecycleTypeOK /\ RoadInv /\ [Next]_lifecycleVars => RoadInv'
<1> SUFFICES ASSUME LifecycleTypeOK, RoadInv, [Next]_lifecycleVars PROVE RoadInv'
  OBVIOUS
<1>1. CASE UNCHANGED lifecycleVars
  BY <1>1 DEF lifecycleVars, RoadInv, GatesInOrder, Reached, Ahead, PRsAfterVerification
<1>2. ASSUME NEW c \in Clients, Handle(c) PROVE RoadInv'
  <2>0. job[c] \in Job /\ Ahead(job[c].goal) /\ GatesInOrder /\ Reached(mission)
    BY DEF LifecycleTypeOK, RoadInv
  <2>. Idle \in Job /\ Idle.at = "idle" /\ Idle.goal = "NONE" /\ Ahead("NONE")
    BY JobFields, NothingAhead
  <2>1. ASSUME NEW status \in MissionStatus, TransitionReads(c, status) PROVE RoadInv'
    <3> DEFINE j == [Idle EXCEPT !.at = "write", !.goal = status]
    <3>1. j \in Job /\ j.at = "write" /\ j.goal = status
      BY JobFields DEF Idle
    <3>2. Ahead(status)
      BY <2>0, <2>1, LegalMovesAreAhead DEF TransitionReads, MayWrite
    <3> HIDE DEF j
    <3> QED
      BY <2>1, <3>1, <3>2, HandlerMovesOn DEF TransitionReads, j
  <2>2. CASE MissionWrites(c)
    BY <2>0, <2>2, MissionMovesOn DEF MissionWrites
  <2>3. ASSUME NEW type \in ApprovalTypes, NEW verdict \in {"APPROVED", "REJECTED"},
               AskAndResolve(c, type, verdict)
        PROVE  RoadInv'
    <3> DEFINE j == [Idle EXCEPT !.at = "resolve", !.row = Len(approvals) + 1,
                                 !.verdict = verdict]
    <3>1. Len(approvals) + 1 \in Nat
      BY LenProperties DEF LifecycleTypeOK
    <3>2. j \in Job
      BY <3>1, JobFields
    <3>3. j.at = "resolve" /\ j.goal = "NONE"
      BY DEF Idle
    <3> QED
      BY <2>3, <3>2, <3>3, HandlerMovesOn DEF AskAndResolve, NewRow
  <2>4. ASSUME NEW type \in ApprovalTypes, MergeAsks(c, type) PROVE RoadInv'
    BY <2>4, HandlerMovesOn DEF MergeAsks
  <2>5. ASSUME NEW verdict \in {"APPROVED", "REJECTED"}, MergeChecks(c, verdict)
        PROVE  RoadInv'
    <3> DEFINE j == [Idle EXCEPT !.at = "pick", !.verdict = verdict]
    <3>1. j \in Job /\ j.at = "pick" /\ j.goal = "NONE"
      BY JobFields DEF Idle
    <3> QED
      BY <2>5, <3>1, HandlerMovesOn DEF MergeChecks
  <2>6. ASSUME NEW verdict, NEW i \in DOMAIN plans, ReviewPlan(c, i, verdict) PROVE RoadInv'
    BY <2>6 DEF ReviewPlan, RoadInv, GatesInOrder, Reached, Ahead, PRsAfterVerification
  <2>7. ASSUME NEW i \in DOMAIN approvals, MergePicks(c, i) PROVE RoadInv'
    <3> DEFINE j == [job[c] EXCEPT !.at = "resolve", !.row = i]
    <3>1. i \in Nat
      BY DEF LifecycleTypeOK
    <3>2. j \in Job
      BY <2>0, <3>1, JobFields
    <3>3. j.at = "resolve" /\ j.goal = job[c].goal
      BY <2>0 DEF Job
    <3> QED
      BY <2>0, <2>7, <3>2, <3>3, HandlerMovesOn DEF MergePicks
  <2>8. CASE MergeAskChecks(c)
    <3> DEFINE j == [Idle EXCEPT !.at = "request"]
    <3>1. j \in Job /\ j.at = "request" /\ j.goal = "NONE"
      BY JobFields DEF Idle
    <3> QED
      BY <2>8, <3>1, HandlerMovesOn DEF MergeAskChecks
  <2>9. CASE MergeFindsNone(c)
    BY <2>9, HandlerMovesOn DEF MergeFindsNone
  <2>10. CASE ResolveReads(c)
    <3>1. CASE Then(c, [job[c] EXCEPT !.at = "commit"])
      <4> DEFINE j == [job[c] EXCEPT !.at = "commit"]
      <4>1. j \in Job
        BY <2>0, JobFields
      <4>2. j.at = "commit" /\ j.goal = job[c].goal
        BY <2>0 DEF Job
      <4> QED
        BY <2>0, <2>10, <3>1, <4>1, <4>2, HandlerMovesOn DEF ResolveReads
    <3>2. ASSUME NEW m \in Moves(c), Then(c, [job[c] EXCEPT !.at = "commit", !.goal = m[2]])
          PROVE  RoadInv'
      <4> DEFINE j == [job[c] EXCEPT !.at = "commit", !.goal = m[2]]
      <4>1. m[2] \in MissionStatus
        BY ResolutionTyped DEF Moves
      <4>2. j \in Job
        BY <2>0, <4>1, JobFields
      <4>3. j.at = "commit" /\ j.goal = m[2]
        BY <2>0 DEF Job
      <4>4. MissionCanMove(mission, m[2])
        BY <2>10 DEF ResolveReads, MayWrite
      <4>5. Ahead(m[2])
        BY <2>0, <4>4, LegalMovesAreAhead
      <4> QED
        BY <2>10, <3>2, <4>2, <4>3, <4>5, HandlerMovesOn DEF ResolveReads
    <3> QED
      BY <2>10, <3>1, <3>2 DEF ResolveReads
  <2>11. CASE ResolveRaises(c)
    BY <2>11, HandlerMovesOn DEF ResolveRaises
  <2>12. CASE ResolveCommits(c)
    <3>1. CASE job[c].goal = "NONE"
      BY <2>12, <3>1, HandlerMovesOn DEF ResolveCommits
    <3>2. CASE job[c].goal # "NONE"
      BY <2>0, <2>12, <3>2, MissionMovesOn DEF ResolveCommits
    <3> QED
      BY <3>1, <3>2
  <2>13. CASE PlanReads(c)
    <3> DEFINE S == {i \in DOMAIN plans : Replaced(plans[i])}
               j == [Idle EXCEPT !.at = "supersede", !.todo = S]
    <3>1. S \in SUBSET Nat
      BY DEF LifecycleTypeOK
    <3> HIDE DEF S
    <3>2. j \in Job
      BY <3>1, JobFields
    <3>3. j.at = "supersede" /\ j.goal = "NONE"
      BY DEF Idle
    <3> QED
      BY <2>13, <3>2, <3>3, HandlerMovesOn DEF PlanReads, S
  <2>14. CASE PlanSupersedes(c)
    <3> DEFINE j == [Idle EXCEPT !.at = "draft"]
    <3>1. j \in Job /\ j.at = "draft" /\ j.goal = "NONE"
      BY JobFields DEF Idle
    <3> QED
      BY <2>14, <3>1, HandlerMovesOn DEF PlanSupersedes
  <2>15. CASE PlanReturns(c)
    <3>1. CASE MayWrite("PLANNED")
      <4> DEFINE j == [Idle EXCEPT !.at = "write", !.goal = "PLANNED"]
      <4>1. "PLANNED" \in MissionStatus
        BY DEF MissionStatus
      <4>2. j \in Job /\ j.at = "write" /\ j.goal = "PLANNED"
        BY <4>1, JobFields DEF Idle
      <4>3. Ahead("PLANNED")
        BY <2>0, <3>1, LegalMovesAreAhead DEF MayWrite
      <4> QED
        BY <2>15, <3>1, <4>2, <4>3, HandlerMovesOn DEF PlanReturns
    <3>2. CASE ~MayWrite("PLANNED")
      BY <2>15, <3>2, HandlerMovesOn DEF PlanReturns
    <3> QED
      BY <3>1, <3>2
  <2>16. ASSUME NEW ok \in BOOLEAN, PlanDrafts(c, ok) PROVE RoadInv'
    <3> DEFINE j == IF ok THEN [Idle EXCEPT !.at = "planned"] ELSE Idle
    <3>1. j \in Job /\ j.at # "pr" /\ j.goal = "NONE"
      BY JobFields DEF Idle
    <3> QED
      BY <2>16, <3>1, HandlerMovesOn DEF PlanDrafts
  <2>17. CASE PRChecks(c)
    <3> DEFINE j == [Idle EXCEPT !.at = "pr"]
    <3>1. j \in Job /\ j.at = "pr" /\ j.goal = "NONE"
      BY JobFields DEF Idle
    <3>2. "VERIFIED" \in seen
      BY <2>0, <2>17 DEF PRChecks, PRAllowed, Reached, Gates, Road
    <3> QED
      BY <2>17, <3>1, <3>2, HandlerMovesOn DEF PRChecks
  <2>18. CASE PRCreates(c)
    <3>1. /\ job' \in [Clients -> Job] /\ job'[c] = Idle
          /\ \A d \in Clients \ {c} : job'[d] = job[d]
      BY <2>18, ThenTyped DEF PRCreates, LifecycleTypeOK
    <3>2. PRsAfterVerification'
      BY <2>18 DEF PRCreates, At, RoadInv, PRsAfterVerification
    <3>3. GatesInOrder' /\ Reached(mission)'
      BY <2>0, <2>18 DEF PRCreates, GatesInOrder, Reached
    <3>4. ASSUME NEW d \in Clients
          PROVE  Ahead(job[d].goal)' /\ (job[d].at = "pr" => "VERIFIED" \in seen)'
      BY <2>18, <3>1 DEF PRCreates, RoadInv, Ahead
    <3> QED
      BY <3>2, <3>3, <3>4 DEF RoadInv
  <2>19. CASE RequestDies(c)
    BY <2>19, HandlerMovesOn DEF RequestDies
  <2> QED
    BY <1>2, <2>1, <2>2, <2>3, <2>4, <2>5, <2>6, <2>7, <2>8, <2>9, <2>10, <2>11, <2>12,
       <2>13, <2>14, <2>15, <2>16, <2>17, <2>18, <2>19 DEF Handle
<1> QED
  BY <1>1, <1>2 DEF Next

\* The gates behind a mission's status, and behind any status a request is
\* about to write, have been passed.
THEOREM RoadInvariance == Spec => [](LifecycleTypeOK /\ RoadInv)
<1>1. Init => LifecycleTypeOK /\ RoadInv
  BY InitTyped, RoadInit
<1>2. LifecycleTypeOK /\ RoadInv /\ [Next]_lifecycleVars => LifecycleTypeOK' /\ RoadInv'
  BY LifecycleNextTyped, RoadNext
<1> QED
  BY <1>1, <1>2, PTL DEF Spec

\* For any number of clients calling any endpoints, lost updates included, a
\* mission is never at a gate without having been at the one before it.
THEOREM NoGateSkipped == Spec => []GatesInOrder
<1>1. RoadInv => GatesInOrder
  BY DEF RoadInv
<1> QED
  BY <1>1, RoadInvariance, PTL

\* For any number of clients, a pull request is recorded only for a mission
\* that has been VERIFIED.
THEOREM PRsOnlyAfterVerification == Spec => []PRsAfterVerification
<1>1. RoadInv => PRsAfterVerification
  BY DEF RoadInv
<1> QED
  BY <1>1, RoadInvariance, PTL
------------------------------------------------------------------------------
(* One planner.                                                            *)

\* The plans that count as current.
Current == {i \in DOMAIN plans : plans[i] \in {"GENERATED", "VALIDATED"}}

\* Client c is the only one that calls endpoints of these groups.
OnlyFor(c, groups) == \A d \in Clients \ {c} : Routes[d] \cap groups = {}

\* Between its transactions the planner knows every current plan, and after
\* the second one there is none, because nobody else makes a plan current.
PlanInv(p) ==
  /\ \A c \in Clients \ {p} : job[c].at \notin {"supersede", "draft"}
  /\ job[p].at = "supersede" => Current \subseteq job[p].todo
  /\ job[p].at = "draft" => Current = {}
  /\ \A i, k \in Current : i = k

LEMMA OneCurrent == ASSUME LifecycleTypeOK, NEW p, PlanInv(p) PROVE OneActivePlan
<1>1. CASE Current = {}
  BY <1>1, FS_EmptySet DEF Current, OneActivePlan
<1>2. ASSUME NEW i \in Current PROVE OneActivePlan
  <2>1. Current = {i}
    BY <1>2 DEF PlanInv
  <2>2. Cardinality(Current) = 1
    BY <2>1, FS_Singleton
  <2> QED
    BY <2>2 DEF Current, OneActivePlan
<1> QED
  BY <1>1, <1>2

\* A handler that leaves the plans alone, or takes one out of those that are
\* current, and is not about to supersede or insert any.
LEMMA PlansLeftAlone ==
  ASSUME LifecycleTypeOK, NEW p \in Clients, PlanInv(p),
         NEW c \in Clients, NEW j \in Job, Then(c, j),
         j.at \notin {"supersede", "draft"}, UNCHANGED plans
  PROVE  PlanInv(p)'
<1>1. job' \in [Clients -> Job] /\ job'[c] = j /\ \A d \in Clients \ {c} : job'[d] = job[d]
  BY ThenTyped DEF LifecycleTypeOK
<1>2. Current' = Current
  BY DEF Current
<1>3. \A d \in Clients \ {p} : job'[d].at \notin {"supersede", "draft"}
  BY <1>1 DEF PlanInv
<1>4. job'[p].at \in {"supersede", "draft"} => job'[p] = job[p]
  BY <1>1
<1> QED
  BY <1>2, <1>3, <1>4 DEF PlanInv

\* The handlers of all other endpoints have no business with plans.
LEMMA OthersLeavePlans ==
  ASSUME LifecycleTypeOK, NEW c \in Clients,
         \/ \E status \in MissionStatus : TransitionReads(c, status)
         \/ MissionWrites(c)
         \/ \E type \in ApprovalTypes :
              \/ \E verdict \in {"APPROVED", "REJECTED"} : AskAndResolve(c, type, verdict)
              \/ MergeAsks(c, type)
         \/ \E verdict \in {"APPROVED", "REJECTED"} : MergeChecks(c, verdict)
         \/ \E i \in DOMAIN approvals : MergePicks(c, i)
         \/ MergeAskChecks(c) \/ MergeFindsNone(c)
         \/ ResolveReads(c) \/ ResolveRaises(c) \/ ResolveCommits(c)
         \/ PlanReturns(c) \/ PRChecks(c) \/ PRCreates(c) \/ RequestDies(c)
  PROVE  /\ UNCHANGED plans
         /\ \E j \in Job : Then(c, j) /\ j.at \notin {"supersede", "draft"}
<1>0. job[c] \in Job /\ Idle \in Job /\ Idle.at = "idle"
  BY JobFields DEF LifecycleTypeOK, Idle
<1>1. ASSUME NEW status \in MissionStatus, TransitionReads(c, status)
      PROVE  \E j \in Job : Then(c, j) /\ j.at \notin {"supersede", "draft"}
  <2>1. [Idle EXCEPT !.at = "write", !.goal = status] \in Job
        /\ [Idle EXCEPT !.at = "write", !.goal = status].at = "write"
    BY JobFields DEF Idle
  <2> QED
    BY <1>1, <2>1 DEF TransitionReads
<1>2. ASSUME NEW type \in ApprovalTypes, NEW verdict \in {"APPROVED", "REJECTED"},
             AskAndResolve(c, type, verdict)
      PROVE  \E j \in Job : Then(c, j) /\ j.at \notin {"supersede", "draft"}
  <2> DEFINE j == [Idle EXCEPT !.at = "resolve", !.row = Len(approvals) + 1,
                               !.verdict = verdict]
  <2>1. Len(approvals) + 1 \in Nat
    BY LenProperties DEF LifecycleTypeOK
  <2>2. j \in Job /\ j.at = "resolve"
    BY <2>1, JobFields DEF Idle
  <2> QED
    BY <1>2, <2>2 DEF AskAndResolve, NewRow
<1>3. ASSUME NEW verdict \in {"APPROVED", "REJECTED"}, MergeChecks(c, verdict)
      PROVE  \E j \in Job : Then(c, j) /\ j.at \notin {"supersede", "draft"}
  <2>1. [Idle EXCEPT !.at = "pick", !.verdict = verdict] \in Job
        /\ [Idle EXCEPT !.at = "pick", !.verdict = verdict].at = "pick"
    BY JobFields DEF Idle
  <2> QED
    BY <1>3, <2>1 DEF MergeChecks
<1>4. ASSUME NEW i \in DOMAIN approvals, MergePicks(c, i)
      PROVE  \E j \in Job : Then(c, j) /\ j.at \notin {"supersede", "draft"}
  <2>1. i \in Nat
    BY DEF LifecycleTypeOK
  <2>2. [job[c] EXCEPT !.at = "resolve", !.row = i] \in Job
    BY <1>0, <2>1, JobFields
  <2>3. [job[c] EXCEPT !.at = "resolve", !.row = i].at = "resolve"
    BY <1>0 DEF Job
  <2> QED
    BY <1>4, <2>2, <2>3 DEF MergePicks
<1>5. CASE MergeAskChecks(c) \/ PRChecks(c)
  <2>1. \A a \in {"request", "pr"} : [Idle EXCEPT !.at = a] \in Job
                                     /\ [Idle EXCEPT !.at = a].at = a
    BY JobFields DEF Idle
  <2> QED
    BY <1>5, <2>1 DEF MergeAskChecks, PRChecks
<1>6. ASSUME ResolveReads(c)
      PROVE  \E j \in Job : Then(c, j) /\ j.at \notin {"supersede", "draft"}
  <2>1. CASE Then(c, [job[c] EXCEPT !.at = "commit"])
    <3>1. [job[c] EXCEPT !.at = "commit"] \in Job
      BY <1>0, JobFields
    <3>2. [job[c] EXCEPT !.at = "commit"].at = "commit"
      BY <1>0 DEF Job
    <3> QED
      BY <2>1, <3>1, <3>2
  <2>2. ASSUME NEW m \in Moves(c), Then(c, [job[c] EXCEPT !.at = "commit", !.goal = m[2]])
        PROVE  \E j \in Job : Then(c, j) /\ j.at \notin {"supersede", "draft"}
    <3>1. m[2] \in MissionStatus
      BY ResolutionTyped DEF Moves
    <3>2. [job[c] EXCEPT !.at = "commit", !.goal = m[2]] \in Job
      BY <1>0, <3>1, JobFields
    <3>3. [job[c] EXCEPT !.at = "commit", !.goal = m[2]].at = "commit"
      BY <1>0 DEF Job
    <3> QED
      BY <2>2, <3>2, <3>3
  <2> QED
    BY <1>6, <2>1, <2>2 DEF ResolveReads
<1>7. ASSUME PlanReturns(c)
      PROVE  \E j \in Job : Then(c, j) /\ j.at \notin {"supersede", "draft"}
  <2>1. "PLANNED" \in MissionStatus
    BY DEF MissionStatus
  <2>2. [Idle EXCEPT !.at = "write", !.goal = "PLANNED"] \in Job
        /\ [Idle EXCEPT !.at = "write", !.goal = "PLANNED"].at = "write"
    BY <2>1, JobFields DEF Idle
  <2> QED
    BY <1>0, <1>7, <2>2 DEF PlanReturns
<1>8. CASE MissionWrites(c) \/ (\E type \in ApprovalTypes : MergeAsks(c, type))
           \/ MergeFindsNone(c) \/ ResolveRaises(c) \/ ResolveCommits(c)
           \/ PRCreates(c) \/ RequestDies(c)
  BY <1>0, <1>8 DEF MissionWrites, MergeAsks, MergeFindsNone, ResolveRaises, ResolveCommits,
                    PRCreates, RequestDies
<1>9. UNCHANGED plans
  BY DEF TransitionReads, MissionWrites, AskAndResolve, MergeAsks, MergeChecks, MergePicks,
         MergeAskChecks, MergeFindsNone, ResolveReads, ResolveRaises, ResolveCommits,
         PlanReturns, PRChecks, PRCreates, RequestDies
<1> QED
  BY <1>1, <1>2, <1>3, <1>4, <1>5, <1>6, <1>7, <1>8, <1>9

LEMMA PlanInit == ASSUME NEW p \in Clients, Init PROVE PlanInv(p)
BY DEF Init, Idle, PlanInv, Current

LEMMA PlanNext ==
  ASSUME NEW p \in Clients, OnlyFor(p, {"generate"}), LifecycleTypeOK, PlanInv(p),
         [Next]_lifecycleVars
  PROVE  PlanInv(p)'
<1>1. CASE UNCHANGED lifecycleVars
  BY <1>1 DEF lifecycleVars, PlanInv, Current
<1>2. ASSUME NEW c \in Clients, Handle(c) PROVE PlanInv(p)'
  <2>0. DOMAIN plans = 1..Len(plans) /\ Len(plans) \in Nat
    BY DEF LifecycleTypeOK
  <2>1. ASSUME NEW verdict \in {"APPROVED", "REJECTED"}, NEW i \in DOMAIN plans,
               ReviewPlan(c, i, verdict)
        PROVE  PlanInv(p)'
    <3>1. Current' \subseteq Current
      BY <2>1 DEF ReviewPlan, Current
    <3> QED
      BY <2>1, <3>1 DEF ReviewPlan, PlanInv
  <2>2. CASE PlanReads(c)
    <3> DEFINE S == {i \in DOMAIN plans : Replaced(plans[i])}
               j == [Idle EXCEPT !.at = "supersede", !.todo = S]
    <3>1. S \in SUBSET Nat /\ Current = S
      BY DEF LifecycleTypeOK, Current, Replaced
    <3> HIDE DEF S
    <3>2. j \in Job
      BY <3>1, JobFields
    <3>3. j.at = "supersede" /\ j.todo = S
      BY DEF Idle
    <3>4. c = p
      BY <2>2 DEF PlanReads, Calls, OnlyFor
    <3>5. job'[p] = j /\ \A d \in Clients \ {p} : job'[d] = job[d]
      BY <2>2, <3>2, <3>4, ThenTyped DEF PlanReads, LifecycleTypeOK, S
    <3>6. Current' = Current
      BY <2>2 DEF PlanReads, Current
    <3> HIDE DEF j
    <3> QED
      BY <3>1, <3>3, <3>5, <3>6 DEF PlanInv
  <2>3. CASE PlanSupersedes(c)
    <3> DEFINE j == [Idle EXCEPT !.at = "draft"]
    <3>1. j \in Job /\ j.at = "draft"
      BY JobFields DEF Idle
    <3>2. c = p
      BY <2>3 DEF PlanSupersedes, At, PlanInv
    <3>3. job'[p] = j /\ \A d \in Clients \ {p} : job'[d] = job[d]
      BY <2>3, <3>1, <3>2, ThenTyped DEF PlanSupersedes, LifecycleTypeOK
    <3>4. Current \subseteq job[p].todo
      BY <2>3, <3>2 DEF PlanSupersedes, At, PlanInv
    <3>5. Current' = {}
      BY <2>3, <3>2, <3>4 DEF PlanSupersedes, Current
    <3> HIDE DEF j
    <3> QED
      BY <3>1, <3>3, <3>5 DEF PlanInv
  <2>4. ASSUME NEW ok \in BOOLEAN, PlanDrafts(c, ok) PROVE PlanInv(p)'
    <3> DEFINE j == IF ok THEN [Idle EXCEPT !.at = "planned"] ELSE Idle
    <3>1. j \in Job /\ j.at \in {"planned", "idle"}
      BY JobFields DEF Idle
    <3>2. c = p
      BY <2>4 DEF PlanDrafts, At, PlanInv
    <3>3. job'[p] = j /\ \A d \in Clients \ {p} : job'[d] = job[d]
      BY <2>4, <3>1, <3>2, ThenTyped DEF PlanDrafts, LifecycleTypeOK
    <3>4. Current = {}
      BY <2>4, <3>2 DEF PlanDrafts, At, PlanInv
    <3>5. /\ DOMAIN plans' = 1..(Len(plans) + 1)
          /\ \A i \in 1..Len(plans) : plans'[i] = plans[i]
      <4>1. plans \in Seq(PlanStatus) /\ plans' = Append(plans, plans'[Len(plans) + 1])
            /\ plans'[Len(plans) + 1] \in PlanStatus
        BY <2>4 DEF PlanDrafts, LifecycleTypeOK, PlanStatus
      <4> QED
        BY <4>1, AppendProperties
    <3>6. Current' \subseteq {Len(plans) + 1}
      BY <2>0, <3>4, <3>5 DEF Current
    <3> HIDE DEF j
    <3> QED
      BY <3>1, <3>3, <3>6 DEF PlanInv
  <2> QED
    BY <1>2, <2>1, <2>2, <2>3, <2>4, OthersLeavePlans, PlansLeftAlone DEF Handle
<1> QED
  BY <1>1, <1>2 DEF Next

\* With one client that calls generate_plan, a mission has at most one plan
\* that counts as current, for any number of other clients on any other
\* endpoints, reviews between the planner's transactions included.
THEOREM OnePlannerOnePlan ==
  ASSUME NEW p \in Clients, OnlyFor(p, {"generate"})
  PROVE  Spec => []OneActivePlan
<1>1. Init => PlanInv(p)
  BY PlanInit
<1>2. LifecycleTypeOK /\ PlanInv(p) /\ [Next]_lifecycleVars => PlanInv(p)'
  BY PlanNext
<1>3. LifecycleTypeOK /\ PlanInv(p) => OneActivePlan
  BY OneCurrent
<1> QED
  BY <1>1, <1>2, <1>3, LifecycleTyped, PTL DEF Spec

------------------------------------------------------------------------------
(* One resolver.                                                           *)

\* The places where a handler deals with an approval.
Resolving == {"request", "pick", "resolve", "commit"}

\* What a handler j knows of the approval it has picked: it is still PENDING,
\* because nobody else resolves any, and only an APPROVED request to merge
\* has it write MERGED.
Holds(j) ==
  /\ j.at \in {"pick", "resolve"} => j.goal = "NONE"
  /\ j.at \in {"resolve", "commit"} => approvals[j.row].status = "PENDING"
  /\ j.at = "commit" /\ j.goal = "MERGED" =>
       approvals[j.row].type = "MERGE" /\ j.verdict = "APPROVED"

MergeInv(r) ==
  /\ \A c \in Clients \ {r} : job[c].at \notin Resolving
  /\ Holds(job[r])
  /\ MergeRecorded

\* A handler that moves on without touching the approvals.
LEMMA ApprovalsLeftAlone ==
  ASSUME LifecycleTypeOK, NEW r \in Clients, MergeInv(r),
         NEW c \in Clients, NEW j \in Job, Then(c, j),
         j.at \in Resolving => c = r, Holds(j),
         UNCHANGED <<approvals, granted>>
  PROVE  MergeInv(r)'
<1>1. job' \in [Clients -> Job] /\ job'[c] = j /\ \A d \in Clients \ {c} : job'[d] = job[d]
  BY ThenTyped DEF LifecycleTypeOK
<1>2. \A d \in Clients \ {r} : job'[d].at \notin Resolving
  BY <1>1 DEF MergeInv
<1>3. Holds(job'[r])
  BY <1>1 DEF MergeInv
<1>4. Holds(job[r])' /\ MergeRecorded'
  BY <1>3 DEF Holds, MergeRecorded, MergeInv
<1> QED
  BY <1>2, <1>4 DEF MergeInv

\* Asking for an approval disturbs none that is there.
LEMMA AskingKeepsMerge ==
  ASSUME LifecycleTypeOK, NEW r \in Clients, MergeInv(r), NEW type \in ApprovalTypes,
         approvals' = Append(approvals, Pending(type)), UNCHANGED granted
  PROVE  /\ MergeRecorded'
         /\ approvals'[Len(approvals) + 1] = Pending(type)
<1>1. approvals \in Seq(Approval) /\ Pending(type) \in Approval
  BY DEF LifecycleTypeOK, Pending, Approval
<1>2. /\ \A i \in 1..Len(approvals) : approvals'[i] = approvals[i]
      /\ approvals'[Len(approvals) + 1] = Pending(type)
  BY <1>1, AppendProperties
<1>3. granted # 0 => granted \in 1..Len(approvals)
  BY <1>1, LenProperties DEF LifecycleTypeOK
<1> QED
  BY <1>2, <1>3 DEF MergeInv, MergeRecorded

LEMMA MergeInit == ASSUME NEW r \in Clients, Init PROVE MergeInv(r)
BY DEF Init, Idle, MergeInv, Holds, Resolving, MergeRecorded

LEMMA MergeNext ==
  ASSUME NEW r \in Clients, OnlyFor(r, {"approval", "merge"}), LifecycleTypeOK, MergeInv(r),
         [Next]_lifecycleVars
  PROVE  MergeInv(r)'
<1>1. CASE UNCHANGED lifecycleVars
  BY <1>1 DEF lifecycleVars, MergeInv, Holds, MergeRecorded
<1>2. ASSUME NEW c \in Clients, Handle(c) PROVE MergeInv(r)'
  <2>0. /\ job[c] \in Job /\ Idle \in Job /\ Idle.at = "idle" /\ Idle.goal = "NONE"
        /\ Idle.at \notin Resolving /\ Holds(Idle)
    BY JobFields DEF LifecycleTypeOK, Idle, Resolving, Holds
  <2>1. ASSUME NEW status \in MissionStatus, TransitionReads(c, status) PROVE MergeInv(r)'
    <3> DEFINE j == [Idle EXCEPT !.at = "write", !.goal = status]
    <3>1. j \in Job /\ j.at = "write"
      BY JobFields DEF Idle
    <3>2. Holds(j) /\ j.at \notin Resolving
      BY <3>1 DEF Holds, Resolving
    <3> HIDE DEF j
    <3> QED
      BY <2>1, <3>1, <3>2, ApprovalsLeftAlone DEF TransitionReads, j
  <2>2. ASSUME NEW type \in ApprovalTypes, NEW verdict \in {"APPROVED", "REJECTED"},
               AskAndResolve(c, type, verdict)
        PROVE  MergeInv(r)'
    <3> DEFINE j == [Idle EXCEPT !.at = "resolve", !.row = Len(approvals) + 1,
                                 !.verdict = verdict]
    <3>1. Len(approvals) + 1 \in Nat
      BY LenProperties DEF LifecycleTypeOK
    <3>2. j \in Job /\ j.at = "resolve" /\ j.goal = "NONE" /\ j.row = Len(approvals) + 1
      BY <3>1, JobFields DEF Idle
    <3>3. c = r
      BY <2>2 DEF AskAndResolve, Calls, OnlyFor
    <3>4. Then(c, j) /\ approvals' = Append(approvals, Pending(type)) /\ UNCHANGED granted
      BY <2>2 DEF AskAndResolve, NewRow
    <3>5. job'[r] = j /\ \A d \in Clients \ {r} : job'[d] = job[d]
      BY <3>2, <3>3, <3>4, ThenTyped DEF LifecycleTypeOK
    <3>6. MergeRecorded' /\ approvals'[Len(approvals) + 1] = Pending(type)
      BY <3>4, AskingKeepsMerge
    <3> HIDE DEF j
    <3>7. Holds(job[r])'
      BY <3>2, <3>5, <3>6 DEF Holds, Pending
    <3> QED
      BY <3>5, <3>6, <3>7 DEF MergeInv
  <2>3. ASSUME NEW type \in ApprovalTypes, MergeAsks(c, type) PROVE MergeInv(r)'
    <3>1. c = r
      BY <2>3 DEF MergeAsks, At, MergeInv, Resolving
    <3>2. job'[r] = Idle /\ \A d \in Clients \ {r} : job'[d] = job[d]
      BY <2>0, <2>3, <3>1, ThenTyped DEF MergeAsks, LifecycleTypeOK
    <3>3. MergeRecorded'
      BY <2>3, AskingKeepsMerge DEF MergeAsks
    <3>4. Holds(job[r])'
      BY <3>2 DEF Holds, Idle
    <3> QED
      BY <3>2, <3>3, <3>4 DEF MergeInv
  <2>4. ASSUME NEW verdict \in {"APPROVED", "REJECTED"}, MergeChecks(c, verdict)
        PROVE  MergeInv(r)'
    <3> DEFINE j == [Idle EXCEPT !.at = "pick", !.verdict = verdict]
    <3>1. j \in Job /\ j.at = "pick" /\ j.goal = "NONE"
      BY JobFields DEF Idle
    <3>2. Holds(j)
      BY <3>1 DEF Holds
    <3>3. c = r
      BY <2>4 DEF MergeChecks, Calls, OnlyFor
    <3> HIDE DEF j
    <3> QED
      BY <2>4, <3>1, <3>2, <3>3, ApprovalsLeftAlone DEF MergeChecks, j
  <2>5. ASSUME NEW verdict, NEW i \in DOMAIN plans, ReviewPlan(c, i, verdict) PROVE MergeInv(r)'
    BY <2>5 DEF ReviewPlan, MergeInv, Holds, MergeRecorded
  <2>6. ASSUME NEW i \in DOMAIN approvals, MergePicks(c, i) PROVE MergeInv(r)'
    <3> DEFINE j == [job[c] EXCEPT !.at = "resolve", !.row = i]
    <3>1. i \in Nat
      BY DEF LifecycleTypeOK
    <3>2. j \in Job
      BY <2>0, <3>1, JobFields
    <3>3. j.at = "resolve" /\ j.goal = job[c].goal /\ j.row = i
      BY <2>0 DEF Job
    <3>4. c = r /\ job[c].goal = "NONE"
      BY <2>6 DEF MergePicks, At, MergeInv, Holds, Resolving
    <3>5. Holds(j)
      BY <2>6, <3>3, <3>4 DEF Holds, MergePicks, Pending
    <3> HIDE DEF j
    <3> QED
      BY <2>6, <3>2, <3>4, <3>5, ApprovalsLeftAlone DEF MergePicks, j
  <2>7. CASE MergeAskChecks(c)
    <3> DEFINE j == [Idle EXCEPT !.at = "request"]
    <3>1. j \in Job /\ j.at = "request"
      BY JobFields DEF Idle
    <3>2. Holds(j)
      BY <3>1 DEF Holds
    <3>3. c = r
      BY <2>7 DEF MergeAskChecks, Calls, OnlyFor
    <3> HIDE DEF j
    <3> QED
      BY <2>7, <3>1, <3>2, <3>3, ApprovalsLeftAlone DEF MergeAskChecks, j
  <2>8. CASE ResolveReads(c)
    <3>0. c = r /\ Holds(job[r]) /\ job[r].at = "resolve"
      BY <2>8 DEF ResolveReads, At, MergeInv, Resolving
    <3>1. CASE Then(c, [job[c] EXCEPT !.at = "commit"])
      <4> DEFINE j == [job[c] EXCEPT !.at = "commit"]
      <4>1. j \in Job
        BY <2>0, JobFields
      <4>2. j.at = "commit" /\ j.goal = job[c].goal /\ j.row = job[c].row
        BY <2>0 DEF Job
      <4>3. Holds(j)
        BY <3>0, <4>2 DEF Holds
      <4> HIDE DEF j
      <4> QED
        BY <2>8, <3>0, <3>1, <4>1, <4>3, ApprovalsLeftAlone DEF ResolveReads, j
    <3>2. ASSUME NEW m \in Moves(c), Then(c, [job[c] EXCEPT !.at = "commit", !.goal = m[2]])
          PROVE  MergeInv(r)'
      <4> DEFINE j == [job[c] EXCEPT !.at = "commit", !.goal = m[2]]
      <4>1. m[2] \in MissionStatus
        BY ResolutionTyped DEF Moves
      <4>2. j \in Job
        BY <2>0, <4>1, JobFields
      <4>3. j.at = "commit" /\ j.goal = m[2] /\ j.row = job[c].row
            /\ j.verdict = job[c].verdict
        BY <2>0 DEF Job
      <4>4. m[2] = "MERGED" => approvals[job[c].row].type = "MERGE"
                               /\ job[c].verdict # "REJECTED"
        BY DEF Moves, Resolution
      <4>5. job[c].verdict \in {"APPROVED", "REJECTED"}
        BY <2>0 DEF Job
      <4>6. Holds(j)
        BY <3>0, <4>3, <4>4, <4>5 DEF Holds
      <4> HIDE DEF j
      <4> QED
        BY <2>8, <3>0, <3>2, <4>2, <4>6, ApprovalsLeftAlone DEF ResolveReads, j
    <3> QED
      BY <2>8, <3>1, <3>2 DEF ResolveReads
  <2>9. CASE ResolveCommits(c)
    <3>1. c = r /\ Holds(job[r]) /\ job[r].at = "commit"
      BY <2>9 DEF ResolveCommits, At, MergeInv, Resolving
    <3>2. job'[r] = Idle /\ \A d \in Clients \ {r} : job'[d] = job[d]
      BY <2>0, <2>9, <3>1, ThenTyped DEF ResolveCommits, LifecycleTypeOK
    <3>3. /\ job[r].row \in DOMAIN approvals /\ approvals[job[r].row] \in Approval
          /\ job[r].verdict \in {"APPROVED", "REJECTED"}
      BY <2>0, <3>1 DEF LifecycleTypeOK, Job
    <3>4. /\ approvals'[job[r].row] = [approvals[job[r].row] EXCEPT !.status = job[r].verdict]
          /\ \A i \in DOMAIN approvals \ {job[r].row} : approvals'[i] = approvals[i]
      BY <2>9, <3>1, <3>3 DEF ResolveCommits, LifecycleTypeOK
    <3>5. MergeRecorded'
      <4>1. CASE job[r].goal = "MERGED"
        <5>1. approvals[job[r].row].type = "MERGE" /\ job[r].verdict = "APPROVED"
          BY <3>1, <4>1 DEF Holds
        <5>2. granted' = job[r].row
          BY <2>9, <3>1, <4>1 DEF ResolveCommits
        <5>3. approvals'[job[r].row] = [type |-> "MERGE", status |-> "APPROVED"]
          BY <3>3, <3>4, <5>1 DEF Approval
        <5> QED
          BY <5>2, <5>3 DEF MergeRecorded
      <4>2. CASE job[r].goal # "MERGED"
        <5>1. granted' = granted
          BY <2>9, <3>1, <4>2 DEF ResolveCommits
        <5>2. approvals[job[r].row].status = "PENDING"
          BY <3>1 DEF Holds
        <5>3. granted # 0 => granted \in DOMAIN approvals
          BY LenProperties DEF LifecycleTypeOK
        <5>4. granted # 0 => granted # job[r].row
          BY <5>2 DEF MergeInv, MergeRecorded
        <5> QED
          BY <3>4, <5>1, <5>3, <5>4 DEF MergeInv, MergeRecorded
      <4> QED
        BY <4>1, <4>2
    <3>6. Holds(job[r])'
      BY <3>2 DEF Holds, Idle
    <3> QED
      BY <3>2, <3>5, <3>6 DEF MergeInv
  <2>10. CASE PlanReads(c)
    <3> DEFINE S == {i \in DOMAIN plans : Replaced(plans[i])}
               j == [Idle EXCEPT !.at = "supersede", !.todo = S]
    <3>1. S \in SUBSET Nat
      BY DEF LifecycleTypeOK
    <3> HIDE DEF S
    <3>2. j \in Job
      BY <3>1, JobFields
    <3>3. j.at = "supersede"
      BY DEF Idle
    <3>4. Holds(j) /\ j.at \notin Resolving
      BY <3>3 DEF Holds, Resolving
    <3> HIDE DEF j
    <3> QED
      BY <2>10, <3>2, <3>4, ApprovalsLeftAlone DEF PlanReads, S, j
  <2>11. CASE PlanSupersedes(c) \/ PRChecks(c)
    <3>1. \A a \in {"draft", "pr"} :
            [Idle EXCEPT !.at = a] \in Job /\ [Idle EXCEPT !.at = a].at = a
      BY JobFields DEF Idle
    <3>2. \A a \in {"draft", "pr"} :
            Holds([Idle EXCEPT !.at = a]) /\ [Idle EXCEPT !.at = a].at \notin Resolving
      BY <3>1 DEF Holds, Resolving
    <3>3. UNCHANGED <<approvals, granted>>
      BY <2>11 DEF PlanSupersedes, PRChecks
    <3> QED
      BY <2>11, <3>1, <3>2, <3>3, ApprovalsLeftAlone DEF PlanSupersedes, PRChecks
  <2>12. ASSUME NEW ok \in BOOLEAN, PlanDrafts(c, ok) PROVE MergeInv(r)'
    <3> DEFINE j == IF ok THEN [Idle EXCEPT !.at = "planned"] ELSE Idle
    <3>1. j \in Job /\ j.at \in {"planned", "idle"}
      BY JobFields DEF Idle
    <3>2. Holds(j) /\ j.at \notin Resolving
      BY <3>1 DEF Holds, Resolving
    <3> HIDE DEF j
    <3> QED
      BY <2>12, <3>1, <3>2, ApprovalsLeftAlone DEF PlanDrafts, j
  <2>13. CASE PlanReturns(c)
    <3> DEFINE j == [Idle EXCEPT !.at = "write", !.goal = "PLANNED"]
    <3>1. "PLANNED" \in MissionStatus
      BY DEF MissionStatus
    <3>2. j \in Job /\ j.at = "write"
      BY <3>1, JobFields DEF Idle
    <3>3. Holds(j) /\ j.at \notin Resolving
      BY <3>2 DEF Holds, Resolving
    <3> HIDE DEF j
    <3> QED
      BY <2>0, <2>13, <3>2, <3>3, ApprovalsLeftAlone DEF PlanReturns, j
  <2>14. CASE MissionWrites(c) \/ MergeFindsNone(c) \/ ResolveRaises(c) \/ PRCreates(c)
              \/ RequestDies(c)
    <3>1. Then(c, Idle) /\ UNCHANGED <<approvals, granted>>
      BY <2>14 DEF MissionWrites, MergeFindsNone, ResolveRaises, PRCreates, RequestDies
    <3> QED
      BY <2>0, <3>1, ApprovalsLeftAlone
  <2> QED
    BY <1>2, <2>1, <2>2, <2>3, <2>4, <2>5, <2>6, <2>7, <2>8, <2>9, <2>10, <2>11, <2>12,
       <2>13, <2>14 DEF Handle
<1> QED
  BY <1>1, <1>2 DEF Next

\* With one client that asks for and resolves approvals, a mission that an
\* approval moved to MERGED keeps it on record as an APPROVED merge, for any
\* number of other clients and wherever the requests die.
THEOREM MergeOnRecord ==
  ASSUME NEW r \in Clients, OnlyFor(r, {"approval", "merge"})
  PROVE  Spec => []MergeRecorded
<1>1. Init => MergeInv(r)
  BY MergeInit
<1>2. LifecycleTypeOK /\ MergeInv(r) /\ [Next]_lifecycleVars => MergeInv(r)'
  BY MergeNext
<1>3. MergeInv(r) => MergeRecorded
  BY DEF MergeInv
<1> QED
  BY <1>1, <1>2, <1>3, LifecycleTyped, PTL DEF Spec
=============================================================================
