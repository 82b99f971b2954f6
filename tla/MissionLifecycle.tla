-------------------------- MODULE MissionLifecycle --------------------------
(***************************************************************************)
(* One mission from CREATED to MERGED as the HTTP API drives it:           *)
(* apps/api/main.py, core/application/mission_service.py and               *)
(* core/application/planner_agent.py, on the missions, approvals, plans    *)
(* and pull_requests rows.                                                 *)
(*                                                                         *)
(* A client has one request in flight.  A handler opens several            *)
(* transactions, reads a status in one and acts on it in another, and      *)
(* writes a mission row back that it has read before; the requests of      *)
(* other clients run in between.  Refused requests (4xx) change nothing    *)
(* and are steps only where the handler had already got somewhere.         *)
(***************************************************************************)
EXTENDS StateMachines, Naturals, Sequences, FiniteSets

CONSTANTS
  Clients,       \* concurrent callers of the API
  Routes,        \* Routes[c]: the groups of endpoints client c calls
  ApprovalTypes, \* the approval types the clients ask for
  MaxApprovals,  \* bounds: rows of each kind a behaviour may insert
  MaxPlans,
  MaxPRs

RouteGroups == {"transition", "approval", "merge", "generate", "review", "pr"}

ASSUME LifecycleAssumption ==
  /\ Routes \in [Clients -> SUBSET RouteGroups]
  /\ ApprovalTypes \subseteq {"EXECUTION", "MERGE", "DEPLOY"}
  /\ MaxApprovals \in Nat /\ MaxPlans \in Nat /\ MaxPRs \in Nat

VARIABLES
  mission,    \* missions.status
  approvals,  \* approvals rows: type and status
  plans,      \* plans.status, in the order of insertion
  prs,        \* number of pull_requests rows
  job,        \* what the handler of each client's request has in hand
  seen,       \* history: the gates the mission has really been at
  granted     \* history: the approval that moved the mission to MERGED, or 0

lifecycleVars == <<mission, approvals, plans, prs, job, seen, granted>>

\* A row of the approval repository.
Approval == [type: ApprovalTypes, status: {"PENDING", "APPROVED", "REJECTED"}]

PlanStatus == {"GENERATED", "VALIDATED", "REJECTED", "APPROVED", "SUPERSEDED"}

\* Where a handler stands between two of its transactions, the mission status
\* it is about to write ("NONE" for no write), the row it has picked, the
\* verdict it carries and the plans it is about to supersede.
Job == [at: {"idle", "write", "request", "pick", "resolve", "commit",
             "supersede", "draft", "planned", "pr"},
        goal: MissionStatus \cup {"NONE"}, row: Nat,
        verdict: {"APPROVED", "REJECTED"}, todo: SUBSET Nat]

Idle == [at |-> "idle", goal |-> "NONE", row |-> 0, verdict |-> "APPROVED", todo |-> {}]

Then(c, j) == job' = [job EXCEPT ![c] = j]

Calls(c, group) == job[c].at = "idle" /\ group \in Routes[c]

At(c, place) == job[c].at = place

\* The road of a mission, and its gates.
Road == {<<"PLANNING", "PLANNED">>, <<"PLANNED", "APPROVED_FOR_EXECUTION">>,
         <<"APPROVED_FOR_EXECUTION", "EXECUTING">>, <<"EXECUTING", "VERIFYING">>,
         <<"VERIFYING", "VERIFIED">>, <<"VERIFIED", "PR_READY">>,
         <<"PR_READY", "AWAITING_HUMAN_APPROVAL">>,
         <<"AWAITING_HUMAN_APPROVAL", "MERGED">>}

Gates == {leg[1] : leg \in Road} \cup {"MERGED"}

\* create_mission.
Init ==
  /\ mission = "CREATED"
  /\ approvals = << >> /\ plans = << >> /\ prs = 0
  /\ job = [c \in Clients |-> Idle]
  /\ seen = {} /\ granted = 0

------------------------------------------------------------------------------
(* POST /missions/{id}/transition: update_mission_status.                  *)

\* The mission is read and the move checked; the variant skips the check.
MayWriteAny(status) == TRUE
MayWrite(status) == MissionCanMove(mission, status)

TransitionReads(c, status) ==
  /\ Calls(c, "transition") /\ MayWrite(status)
  /\ Then(c, [Idle EXCEPT !.at = "write", !.goal = status])
  /\ UNCHANGED <<mission, approvals, plans, prs, seen, granted>>

\* The row is written by primary key, whatever its status is by now.
MissionWrites(c) ==
  /\ At(c, "write")
  /\ mission' = job[c].goal
  /\ seen' = seen \cup ({job[c].goal} \cap Gates)
  /\ Then(c, Idle)
  /\ UNCHANGED <<approvals, plans, prs, granted>>

------------------------------------------------------------------------------
(* Approvals.                                                              *)

Pending(type) == [type |-> type, status |-> "PENDING"]

\* The row that request_approval inserts, and an off-by-one variant.
LastRow == Len(approvals)
NewRow == Len(approvals) + 1

\* POST /approve and /reject: request_approval inserts the row that the same
\* handler resolves in its next transaction.
AskAndResolve(c, type, verdict) ==
  /\ Calls(c, "approval") /\ Len(approvals) < MaxApprovals
  /\ approvals' = Append(approvals, Pending(type))
  /\ Then(c, [Idle EXCEPT !.at = "resolve", !.row = NewRow,
                          !.verdict = verdict])
  /\ UNCHANGED <<mission, plans, prs, seen, granted>>

\* POST /merge: the status is checked in one transaction and the request
\* inserted in the next, with the type the client names.
MergeAskChecks(c) ==
  /\ Calls(c, "merge") /\ mission = "AWAITING_HUMAN_APPROVAL"
  /\ Then(c, [Idle EXCEPT !.at = "request"])
  /\ UNCHANGED <<mission, approvals, plans, prs, seen, granted>>

MergeAsks(c, type) ==
  /\ At(c, "request") /\ Len(approvals) < MaxApprovals
  /\ approvals' = Append(approvals, Pending(type))
  /\ Then(c, Idle)
  /\ UNCHANGED <<mission, plans, prs, seen, granted>>

\* POST /merge/approve and /merge/reject: the status check, the choice of a
\* pending request (the query has no order) and the resolution are three
\* transactions.
MergeChecks(c, verdict) ==
  /\ Calls(c, "merge") /\ mission = "AWAITING_HUMAN_APPROVAL"
  /\ Then(c, [Idle EXCEPT !.at = "pick", !.verdict = verdict])
  /\ UNCHANGED <<mission, approvals, plans, prs, seen, granted>>

MergePicks(c, i) ==
  /\ At(c, "pick") /\ approvals[i] = Pending("MERGE")
  /\ Then(c, [job[c] EXCEPT !.at = "resolve", !.row = i])
  /\ UNCHANGED <<mission, approvals, plans, prs, seen, granted>>

MergeFindsNone(c) ==
  /\ At(c, "pick") /\ \A i \in DOMAIN approvals : approvals[i] # Pending("MERGE")
  /\ Then(c, Idle)
  /\ UNCHANGED <<mission, approvals, plans, prs, seen, granted>>

\* The moves resolve_approval makes for an approval of a type: from which
\* status to which.  The variant moves the mission whatever the verdict is.
ResolutionIgnoringVerdict(type, verdict) ==
  IF type = "MERGE" THEN {<<"AWAITING_HUMAN_APPROVAL", "MERGED">>}
  ELSE {<<"PLANNED", "APPROVED_FOR_EXECUTION">>}
Resolution(type, verdict) ==
  IF verdict = "REJECTED" THEN {<<"PLANNED", "BLOCKED">>}
  ELSE {m \in {<<"PLANNED", "APPROVED_FOR_EXECUTION">>} : type = "EXECUTION"} \cup
       {m \in {<<"AWAITING_HUMAN_APPROVAL", "MERGED">>} : type = "MERGE"}

\* What the open transaction of c resolves the mission to.
Moves(c) == {m \in Resolution(approvals[job[c].row].type, job[c].verdict) : m[1] = mission}

\* resolve_approval writes the approval, which locks its row, and reads the
\* mission.  It does not ask whether the approval is still PENDING.
ResolveReads(c) ==
  /\ At(c, "resolve")
  /\ \A d \in Clients \ {c} : At(d, "commit") => job[d].row # job[c].row
  /\ \A m \in Moves(c) : MayWrite(m[2])
  /\ \/ Moves(c) = {} /\ Then(c, [job[c] EXCEPT !.at = "commit"])
     \/ \E m \in Moves(c) : Then(c, [job[c] EXCEPT !.at = "commit", !.goal = m[2]])
  /\ UNCHANGED <<mission, approvals, plans, prs, seen, granted>>

\* The move is not legal: the exception rolls the verdict back as well.
ResolveRaises(c) ==
  /\ At(c, "resolve")
  /\ \E m \in Moves(c) : ~MayWrite(m[2])
  /\ Then(c, Idle)
  /\ UNCHANGED <<mission, approvals, plans, prs, seen, granted>>

ResolveCommits(c) ==
  LET goal == job[c].goal
  IN /\ At(c, "commit")
     /\ approvals' = [approvals EXCEPT ![job[c].row].status = job[c].verdict]
     /\ IF goal = "NONE" THEN UNCHANGED <<mission, seen>>
        ELSE mission' = goal /\ seen' = seen \cup ({goal} \cap Gates)
     /\ granted' = IF goal = "MERGED" THEN job[c].row ELSE granted
     /\ Then(c, Idle)
     /\ UNCHANGED <<plans, prs>>

------------------------------------------------------------------------------
(* Plans.                                                                  *)

\* The plans a new one replaces; the variant overlooks the validated ones.
ReplacedGeneratedOnly(status) == status = "GENERATED"
Replaced(status) == status \in {"GENERATED", "VALIDATED"}

\* generate_plan: the first transaction reads mission and plans ...
PlanReads(c) ==
  /\ Calls(c, "generate") /\ mission = "PLANNING"
  /\ Then(c, [Idle EXCEPT !.at = "supersede",
                          !.todo = {i \in DOMAIN plans : Replaced(plans[i])}])
  /\ UNCHANGED <<mission, approvals, plans, prs, seen, granted>>

\* ... and writes the ones it read, over a review that came meanwhile.
PlanSupersedes(c) ==
  /\ At(c, "supersede")
  /\ plans' = [i \in DOMAIN plans |-> IF i \in job[c].todo THEN "SUPERSEDED" ELSE plans[i]]
  /\ Then(c, [Idle EXCEPT !.at = "draft"])
  /\ UNCHANGED <<mission, approvals, prs, seen, granted>>

\* The model answered: a valid plan is stored VALIDATED, and after the last
\* retry a REJECTED one is stored and the request fails.
PlanDrafts(c, ok) ==
  /\ At(c, "draft") /\ Len(plans) < MaxPlans
  /\ plans' = Append(plans, IF ok THEN "VALIDATED" ELSE "REJECTED")
  /\ Then(c, IF ok THEN [Idle EXCEPT !.at = "planned"] ELSE Idle)
  /\ UNCHANGED <<mission, approvals, prs, seen, granted>>

\* The handler moves a mission that is still PLANNING to PLANNED.
PlanReturns(c) ==
  /\ At(c, "planned")
  /\ Then(c, IF MayWrite("PLANNED")
             THEN [Idle EXCEPT !.at = "write", !.goal = "PLANNED"] ELSE Idle)
  /\ UNCHANGED <<mission, approvals, plans, prs, seen, granted>>

\* POST /plans/{id}/approve and /reject look at no status at all.
ReviewPlan(c, i, verdict) ==
  /\ Calls(c, "review") /\ i \in DOMAIN plans
  /\ plans' = [plans EXCEPT ![i] = verdict]
  /\ UNCHANGED <<mission, approvals, prs, job, seen, granted>>

------------------------------------------------------------------------------
(* POST /missions/{id}/pr.                                                 *)

PRAllowedAnyStatus(status) == TRUE
PRAllowed(status) == status = "VERIFIED"

PRChecks(c) ==
  /\ Calls(c, "pr") /\ PRAllowed(mission)
  /\ Then(c, [Idle EXCEPT !.at = "pr"])
  /\ UNCHANGED <<mission, approvals, plans, prs, seen, granted>>

\* The execution has SUCCEEDED and some verification of it passed.
PRCreates(c) ==
  /\ At(c, "pr") /\ prs < MaxPRs
  /\ prs' = prs + 1
  /\ Then(c, Idle)
  /\ UNCHANGED <<mission, approvals, plans, seen, granted>>

------------------------------------------------------------------------------
\* The handler refuses late, raises (a lost connection, an answer that never
\* comes) or its process dies: the open transaction rolls back and what the
\* earlier ones committed stays.
RequestDies(c) ==
  /\ job[c].at # "idle"
  /\ Then(c, Idle)
  /\ UNCHANGED <<mission, approvals, plans, prs, seen, granted>>

Handle(c) ==
  \/ \E status \in MissionStatus : TransitionReads(c, status)
  \/ MissionWrites(c)
  \/ \E type \in ApprovalTypes :
       \/ \E verdict \in {"APPROVED", "REJECTED"} : AskAndResolve(c, type, verdict)
       \/ MergeAsks(c, type)
  \/ \E verdict \in {"APPROVED", "REJECTED"} :
       \/ MergeChecks(c, verdict)
       \/ \E i \in DOMAIN plans : ReviewPlan(c, i, verdict)
  \/ \E i \in DOMAIN approvals : MergePicks(c, i)
  \/ MergeAskChecks(c) \/ MergeFindsNone(c)
  \/ ResolveReads(c) \/ ResolveRaises(c) \/ ResolveCommits(c)
  \/ PlanReads(c) \/ PlanSupersedes(c) \/ PlanReturns(c)
  \/ \E ok \in BOOLEAN : PlanDrafts(c, ok)
  \/ PRChecks(c) \/ PRCreates(c) \/ RequestDies(c)

Next == \E c \in Clients : Handle(c)

Spec == Init /\ [][Next]_lifecycleVars

------------------------------------------------------------------------------
\* Rows and requests keep their types; a request that resolves an approval
\* refers to one that exists, and one that writes the mission has a status.
LifecycleTypeOK ==
  /\ mission \in MissionStatus
  /\ approvals \in Seq(Approval)
  /\ plans \in Seq(PlanStatus)
  /\ prs \in Nat
  /\ job \in [Clients -> Job]
  /\ seen \subseteq Gates
  /\ granted \in 0..Len(approvals)
  /\ \A c \in Clients : job[c].at \in {"resolve", "commit"} => job[c].row \in DOMAIN approvals
  /\ \A c \in Clients : job[c].at = "write" => job[c].goal # "NONE"

\* No mission skips a gate: requests that overlap may overwrite each other's
\* status, but what each writes follows a status the mission has really had.
GatesInOrder == \A leg \in Road : leg[2] \in seen => leg[1] \in seen

\* A pull request exists only for a mission that has been through VERIFIED,
\* however long the check and the insertion are apart.
PRsAfterVerification == prs > 0 => "VERIFIED" \in seen

\* With one generate_plan request at a time, a mission never has two plans
\* that count as current, whatever reviewers do and wherever requests die.
OneActivePlan ==
  Cardinality({i \in DOMAIN plans : plans[i] \in {"GENERATED", "VALIDATED"}}) <= 1

\* With one client resolving approvals, a mission that an approval moved to
\* MERGED keeps that approval on record as APPROVED.
MergeRecorded == granted # 0 => approvals[granted] = [type |-> "MERGE", status |-> "APPROVED"]
=============================================================================
