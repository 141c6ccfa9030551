---------------------------- MODULE AgentContract ----------------------------
(***************************************************************************)
(* The agents of module Agents alone, before a backend that sends them     *)
(* anything: what Dispatch and JobSystem assume, as a specification that   *)
(* an agent can be shown to implement.                                     *)
(***************************************************************************)
EXTENDS Agents

ContractInit ==
    /\ AgentsInit
    /\ ChannelsInit

BackendSends(a) ==
    /\ \E m \in BackendToAgent : SendToAgent(a, m)
    /\ UNCHANGED <<agentVars, fromAgent>>

ContractNext == \E a \in Agents : AgentStep(a) \/ BackendSends(a)

Contract == ContractInit /\ [][ContractNext]_<<agentVars, channels>>
=============================================================================
