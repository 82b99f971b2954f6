------------------------- MODULE MCMissionExecution -------------------------
EXTENDS MissionExecution, TLC

CONSTANTS t1, t2, t3, w1, w2, r1, s1, s2

\* t3 waits for every other task and comes first in the (priority, created_at) order.
MCParents == [t \in Tasks |-> IF t = t3 THEN Tasks \ {t3} ELSE {}]
MCCapable == [w \in Workers |-> Tasks]
MCRank == [t \in Tasks |-> IF t = t3 THEN 0 ELSE 1]
MCSymmetry == Permutations(Schedulers)
=============================================================================
