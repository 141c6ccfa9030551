----------------------------- MODULE MCJobSystem ----------------------------
(* A small instance of JobSystem for TLC.                                   *)
EXTENDS JobSystem

CONSTANTS a1, e1, i1

MCAddresses == Addresses
MCJobs == Addresses \X Ids
MCOwner == [j \in MCJobs |-> j[1]]
MCEnvOf == [j \in MCJobs |-> e1]
MCEnvOfId == [i \in Ids |-> e1]
MCDebugJobs == {j \in MCJobs : j[2] \in DebugIds}
MCSlots == [a \in Agents |-> 1]
MCOffers == [a \in Agents |-> {e1}]

\* clientOut is written and read within one step: it tells no states apart.
View == <<queueVars, registryVars, controlVars, pingCount, answers, agentVars, clientVars, channels, bounds>>
=============================================================================
