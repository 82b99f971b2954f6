------------------------------ MODULE DagValidator ------------------------------
(***************************************************************************)
(* The depth-first search of core/domain/dag/validator.py: one set of      *)
(* visited nodes for all starting points, and the nodes of the current     *)
(* path in rec_stack.  deps is the list of dependencies as <<t, p>>; the   *)
(* graph leads from p to t.                                                *)
(***************************************************************************)
EXTENDS Naturals, Sequences, FiniteSets

Ends(deps) == {deps[i][1] : i \in DOMAIN deps} \cup {deps[i][2] : i \in DOMAIN deps}

\* What a search knows; cyclic once one of its calls has returned True.
SearchStates(deps) ==
  [visited : SUBSET Ends(deps), stack : SUBSET Ends(deps), cyclic : BOOLEAN]

\* The turn of one dependency in the loop of is_cyclic(node) over the node's
\* neighbors; deeper is is_cyclic itself, one call further down.
LookAt(deeper, node, dep, s) ==
  IF s.cyclic \/ dep[2] # node THEN s
  ELSE IF dep[1] \notin s.visited THEN deeper[dep[1]][s]
  ELSE [s EXCEPT !.cyclic = dep[1] \in s.stack]

Entered(node, s) == [s EXCEPT !.visited = @ \cup {node}, !.stack = @ \cup {node}]

Looked(deps, deeper, node, found) ==
  LET looked[i \in 0..Len(deps)] ==
        IF i = 0 THEN Entered(node, found)
        ELSE LookAt(deeper, node, deps[i], looked[i - 1])
  IN  looked[Len(deps)]

\* is_cyclic(node), which leaves the node on the stack when it returns True.
IsCyclic(deps, deeper, node, found) ==
  LET looked == Looked(deps, deeper, node, found)
  IN  IF looked.cyclic THEN looked ELSE [looked EXCEPT !.stack = @ \ {node}]

\* Every call visits a node, so that calls are no deeper than there are nodes.
Search(deps) ==
  LET calls[depth \in 0..Cardinality(Ends(deps))] ==
        [node \in Ends(deps) |-> [found \in SearchStates(deps) |->
           IF depth = 0 THEN found ELSE IsCyclic(deps, calls[depth - 1], node, found)]]
  IN  calls[Cardinality(Ends(deps))]

\* The loop over the nodes of the graph, which are those that something depends on.
StartAt(deps, dep, s) ==
  IF s.cyclic \/ dep[2] \in s.visited THEN s ELSE Search(deps)[dep[2]][s]

Unsearched == [visited |-> {}, stack |-> {}, cyclic |-> FALSE]

Cyclic(deps) ==
  LET started[i \in 0..Len(deps)] ==
        IF i = 0 THEN Unsearched ELSE StartAt(deps, deps[i], started[i - 1])
  IN  started[Len(deps)].cyclic
=============================================================================
