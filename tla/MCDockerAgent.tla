--------------------------- MODULE MCDockerAgent ---------------------------
(* Small instances of DockerAgent for TLC.                                  *)
EXTENDS DockerAgent

CONSTANTS c1, a1, e1, j1, s1, p1

MCOwner == [j \in Jobs |-> c1]
MCEnvOf == [j \in Jobs |-> e1]
MCSlots == [a \in Agents |-> 2]
MCOffers == [a \in Agents |-> {e1}]
MCParent == [s \in Students |-> j1]
=============================================================================
