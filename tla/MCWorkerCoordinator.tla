------------------------- MODULE MCWorkerCoordinator -------------------------
EXTENDS WorkerCoordinator, TLC

CONSTANTS t1, t2, w1, w2, r1

MCParents == [t \in Tasks |-> {}]
MCCapable == [w \in Workers |-> Tasks]
MCRank == [t \in Tasks |-> 1]

=============================================================================
