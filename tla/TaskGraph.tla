------------------------------- MODULE TaskGraph -------------------------------
(***************************************************************************)
(* How the task graph of a mission grows: add_task and add_dependency of   *)
(* core/application/mission_orchestrator.py behind the endpoints of        *)
(* apps/api/main.py.                                                       *)
(*                                                                         *)
(* add_dependency reads the existing dependencies and inserts the new one  *)
(* in one READ COMMITTED transaction without a lock: what it validated     *)
(* against may be old when it inserts.  An edge <<t, p>> is the row        *)
(* "t depends on p"; (t, p) is the primary key.                            *)
(***************************************************************************)
EXTENDS FiniteSets

CONSTANTS
  Tasks,          \* task ids
  Clients,        \* concurrent callers of the API
  Requests,       \* the edges they may ask for
  FindsCycle(_)   \* the search of DAGValidator, a function of the edges

VARIABLES
  known,      \* ids of the tasks rows
  edges,      \* task_dependencies rows
  req,        \* the open add_dependency request of each client
  overlapped  \* history: some edge went in beside edges its request had not read

graphVars == <<known, edges, req, overlapped>>

\* Every nonempty set of tasks has one that depends on none of them.
Acyclic(E) == \A S \in (SUBSET Tasks) \ {{}} : \E t \in S : \A p \in S : <<t, p>> \notin E

\* What the search is for.  DagValidator, the search itself, meets it.
ASSUME GraphAssumption ==
  /\ IsFiniteSet(Tasks)
  /\ Requests \subseteq Tasks \X Tasks
  /\ \A E \in SUBSET (Tasks \X Tasks) : FindsCycle(E) <=> ~Acyclic(E)

NoRequest == [open |-> FALSE, edge |-> <<>>, seen |-> {}]

GraphInit ==
  /\ known = {} /\ edges = {}
  /\ req = [c \in Clients |-> NoRequest]
  /\ overlapped = FALSE

\* add_task: any number of tasks, at any time in the life of the mission.
AddTask(t) ==
  /\ t \notin known
  /\ known' = known \cup {t}
  /\ UNCHANGED <<edges, req, overlapped>>

\* validate_new_dependency raises; the variant leaves the search out.
RefusedUnsearched(e, E) == e[1] = e[2] \/ e \in E
Refused(e, E) == e[1] = e[2] \/ e \in E \/ FindsCycle(E \cup {e})

\* Both tasks exist; the variant only asks for the one that the URL names.
ExistsDependent(e) == e[1] \in known
Exist(e) == e[1] \in known /\ e[2] \in known

\* The tasks exist, and the edge passes against the edges read.  A refused
\* request changes nothing.
RequestReads(c, e) ==
  /\ ~req[c].open
  /\ Exist(e)
  /\ ~Refused(e, edges)
  /\ req' = [req EXCEPT ![c] = [open |-> TRUE, edge |-> e, seen |-> edges]]
  /\ UNCHANGED <<known, edges, overlapped>>

\* The insert commits, or its primary key is taken meanwhile: a 409, and the
\* table stays as it is.
RequestInserts(c) ==
  /\ req[c].open
  /\ edges' = edges \cup {req[c].edge}
  /\ overlapped' = (overlapped \/ edges # req[c].seen)
  /\ req' = [req EXCEPT ![c] = NoRequest]
  /\ UNCHANGED known

\* A database error, or the process of the API died.
RequestFails(c) ==
  /\ req[c].open
  /\ req' = [req EXCEPT ![c] = NoRequest]
  /\ UNCHANGED <<known, edges, overlapped>>

RequestStep(c) ==
  \/ RequestInserts(c) \/ RequestFails(c)
  \/ \E e \in Requests : RequestReads(c, e)

GraphNext == (\E t \in Tasks : AddTask(t)) \/ (\E c \in Clients : RequestStep(c))

GraphSpec == GraphInit /\ [][GraphNext]_graphVars

------------------------------------------------------------------------------
\* Tasks, dependencies and requests keep their types, and dependencies are
\* between tasks that exist.
GraphTypeOK ==
  /\ known \in SUBSET Tasks
  /\ edges \in SUBSET (known \X known)
  /\ overlapped \in BOOLEAN
  /\ \A c \in Clients :
       /\ req[c].open \in BOOLEAN
       /\ req[c].open => req[c].edge \in known \X known /\ req[c].seen \in SUBSET edges

\* The dependencies of a mission stay free of cycles as long as no two
\* requests overlap: add_dependency validates every edge against the whole
\* graph, and a cycle of any length is found.
CycleFree == Acyclic(edges) \/ overlapped
=============================================================================
