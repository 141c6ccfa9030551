------------------------------ MODULE Platform ------------------------------
(***************************************************************************)
(* What the backend, the agents and the clients of INGInious share: the    *)
(* names of the parties, the jobs, the messages of common/messages.py and  *)
(* the sockets between the backend and the agents.                         *)
(*                                                                         *)
(* A job is a BackendJobId: the pair of the address of the client that     *)
(* sent it and an uuid drawn by the client, hence never used twice.  A job *)
(* is a member of Jobs, and Owner[j] is the first component of the pair.   *)
(* An address stands for one connection: the ROUTER sockets of the backend *)
(* draw a new one whenever a process connects, so an agent that restarts   *)
(* is another member of Agents.                                            *)
(***************************************************************************)
EXTENDS Naturals, Sequences, FiniteSets

CONSTANTS
    Clients,    \* addresses of clients (frontends)
    Agents,     \* addresses of agents
    Envs,       \* names of environments (containers)
    Jobs,       \* BackendJobIds
    Owner,      \* the client each job comes from
    EnvOf,      \* the environment each job must run in
    DebugJobs,  \* the jobs submitted with debug == "ssh"
    Dockers,    \* docker agents; the others are MCQ agents
    Slots,      \* available_job_slots of each agent's AgentHello
    Offers,     \* available_containers of each agent's AgentHello
    NoAgent,    \* no agent
    NoJob       \* no job

ASSUME JobsAssumption ==
    /\ IsFiniteSet(Jobs)
    /\ NoJob \notin Jobs
    /\ Owner \in [Jobs -> Clients]
    /\ EnvOf \in [Jobs -> Envs]
    /\ DebugJobs \subseteq Jobs

ASSUME AgentsAssumption ==
    /\ NoAgent \notin Agents
    /\ Dockers \subseteq Agents
    /\ Slots \in [Agents -> Nat]
    /\ Offers \in [Agents -> SUBSET Envs]

-----------------------------------------------------------------------------
(* Messages.  Results, grades, feedbacks and input data are left out: the   *)
(* backend and the sockets hand them over untouched.                        *)

Message(type, job) == [type |-> type, job |-> job]

\* BackendNewJob and BackendKillJob.  Ping and Pong are not queued with the
\* others: see HandlePong in Backend.
BackendToAgent == [type : {"new_job", "kill_job"}, job : Jobs]

\* AgentHello, AgentJobStarted, AgentJobSSHDebug and AgentJobDone.
AgentToBackend ==
    [type : {"hello"}, job : {NoJob}]
        \cup [type : {"started", "ssh_debug", "done"}, job : Jobs]

-----------------------------------------------------------------------------
VARIABLES
    toAgent,    \* toAgent[a]: messages sent by the backend, not yet read by a
    fromAgent   \* fromAgent[a]: messages sent by a, not yet read by the backend

channels == <<toAgent, fromAgent>>

ChannelsTypeOK ==
    /\ toAgent \in [Agents -> Seq(BackendToAgent)]
    /\ fromAgent \in [Agents -> Seq(AgentToBackend)]

ChannelsInit ==
    /\ toAgent = [a \in Agents |-> <<>>]
    /\ fromAgent = [a \in Agents |-> <<>>]

\* ZMQ keeps the order of the messages between two sockets.
SendToAgent(a, m) == toAgent' = [toAgent EXCEPT ![a] = Append(@, m)]

SendToBackend(a, m) == fromAgent' = [fromAgent EXCEPT ![a] = Append(@, m)]
=============================================================================
