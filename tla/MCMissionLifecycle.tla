------------------------- MODULE MCMissionLifecycle -------------------------
EXTENDS MissionLifecycle, TLC

CONSTANTS planner, operator

\* One client generates plans, the other one does everything else.
MCOnePlanner == [c \in Clients |->
  IF c = planner THEN {"generate"} ELSE RouteGroups \ {"generate"}]

\* Two clients that generate plans, one of which also moves the mission.
MCTwoPlanners == [c \in Clients |->
  IF c = planner THEN {"generate"} ELSE {"generate", "transition"}]
=============================================================================
