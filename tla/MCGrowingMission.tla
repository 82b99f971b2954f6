--------------------------- MODULE MCGrowingMission ---------------------------
EXTENDS GrowingMission, DagValidator

CONSTANTS t1, t2, t3, w1, w2, s1, s2, c1, c2

\* The dependencies as the list that the repository returns, in one order.
MCPairs == <<<<t1, t2>>, <<t1, t3>>, <<t2, t1>>, <<t2, t3>>, <<t3, t1>>, <<t3, t2>>,
             <<t1, t1>>, <<t2, t2>>, <<t3, t3>>>>
MCFindsCycle(E) == Cyclic(SelectSeq(MCPairs, LAMBDA e : e \in E))

MCRequests == {<<t2, t1>>, <<t1, t2>>}

Three == INSTANCE TaskGraph WITH Tasks <- {t1, t2, t3}

\* On three tasks the search finds a cycle or not whatever the order of the list.
ASSUME \A deps \in UNION {[1..n -> {t1, t2, t3} \X {t1, t2, t3}] : n \in 0..4} :
         Cyclic(deps) <=> ~Three!Acyclic({deps[i] : i \in DOMAIN deps})
=============================================================================
