------------------------------ MODULE Dispatch ------------------------------
(***************************************************************************)
(* The backend together with its agents, and clients reduced to what the   *)
(* backend sees of them: they say hello, submit each job once and may ask  *)
(* to kill it once.  What the backend sends them is not read here; their   *)
(* other messages change nothing in the backend.                           *)
(***************************************************************************)
EXTENDS Backend, Agents

VARIABLES
    submitted,  \* history: jobs whose ClientNewJob the backend has handled
    killed      \* history: jobs whose ClientKillJob the backend has handled

clientVars == <<submitted, killed>>
vars == <<backendVars, agentVars, clientVars, channels>>

Init ==
    /\ BackendInit
    /\ AgentsInit
    /\ ChannelsInit
    /\ submitted = {}
    /\ killed = {}

-----------------------------------------------------------------------------
(* Client.new_job refuses a job whose environment is not among those the    *)
(* backend has announced; what has been announced is part of containers.    *)
Submit(j) ==
    /\ j \notin submitted
    /\ EnvOf[j] \in containers
    /\ HandleClientNewJob(Owner[j], j)
    /\ submitted' = submitted \cup {j}
    /\ UNCHANGED <<killed, agentVars, fromAgent>>

Kill(j) ==
    /\ j \in submitted \ killed
    /\ HandleClientKillJob(Owner[j], j)
    /\ killed' = killed \cup {j}
    /\ UNCHANGED <<submitted, agentVars, fromAgent>>

Hello(c) ==
    /\ c \notin registeredClients
    /\ HandleClientHello(c)
    /\ UNCHANGED <<clientVars, agentVars, fromAgent>>

\* The backend handles the first message of an agent.
ReceiveFrom(a) ==
    /\ fromAgent[a] # <<>>
    /\ fromAgent' = [fromAgent EXCEPT ![a] = Tail(@)]
    /\ LET m == Head(fromAgent[a]) IN
         \/ m.type = "hello" /\ HandleAgentHello(a)
         \/ m.type = "started" /\ HandleAgentJobStarted(a, m.job)
         \/ m.type = "ssh_debug" /\ HandleAgentJobSSHDebug(a, m.job)
         \/ m.type = "done" /\ HandleAgentJobDone(a, m.job)
    /\ UNCHANGED <<clientVars, agentVars>>

ReceivePong(a) ==
    /\ phase[a] = "up"
    /\ HandlePong(a)
    /\ UNCHANGED <<clientVars, agentVars, fromAgent>>

\* Steps the backend takes by itself.
BackendStep ==
    /\ UpdateQueue \/ DoPing
    /\ UNCHANGED <<clientVars, agentVars, fromAgent>>

\* An agent is another process: clientOut is reset for it to be the output
\* of the last step.
AgentsStep(a) ==
    /\ AgentStep(a)
    /\ EmitNothing
    /\ UNCHANGED <<queueVars, registryVars, controlVars, pingCount, answers, clientVars>>

Next ==
    \/ \E j \in Jobs : Submit(j) \/ Kill(j)
    \/ \E c \in Clients : Hello(c)
    \/ \E a \in Agents : ReceiveFrom(a) \/ ReceivePong(a)
    \/ BackendStep
    \/ \E a \in Agents : AgentsStep(a)

Spec == Init /\ [][Next]_vars

-----------------------------------------------------------------------------
TypeOK ==
    /\ ChannelsTypeOK
    /\ AgentsTypeOK
    /\ containers \in SUBSET Envs
    /\ containersOnAgent \in [Agents -> SUBSET Envs]
    /\ registeredClients \in SUBSET Clients
    /\ registeredAgents \in SUBSET Agents
    /\ availableAgents \in [Agents -> Nat]
    /\ pingCount \in [Agents -> 0..(MaxPing + 1)]
    /\ waitingJobs \in Seq(Jobs)
    /\ jobRunning \in [Jobs -> Agents \cup {NoAgent}]
    /\ updating \in BOOLEAN
    /\ notFoundForAgent \in [Agents -> Nat]
    /\ announcing \in BOOLEAN
    /\ pinging \in SUBSET Agents
    /\ clientOut \in [to : SUBSET Clients, msg : ClientMessage]
    /\ answers \in [Jobs -> Nat]
    /\ submitted \in SUBSET Jobs
    /\ killed \in SUBSET Jobs

IsRunning(j) == jobRunning[j] # NoAgent

IsAnswered(j) == answers[j] > 0

QueuedOnce == IsInjective(waitingJobs)

InOnePlace ==
    \A j \in Jobs :
        /\ j \in submitted <=> IsWaiting(j) \/ IsRunning(j) \/ IsAnswered(j)
        /\ ~(IsWaiting(j) /\ IsRunning(j))
        /\ ~(IsWaiting(j) /\ IsAnswered(j))
        /\ ~(IsRunning(j) /\ IsAnswered(j))

\* A job the backend has accepted is, at any time, in exactly one of three
\* places: waiting, once in the queue, running on an agent, or answered; the
\* backend neither loses a job nor runs one it has answered nor queues one
\* twice, through removals of agents, recoveries and kills.
EachJobInOnePlace == QueuedOnce /\ InOnePlace

\* A client gets at most one BackendJobDone for a job, even when the job was
\* recovered from an agent that was slow, not dead, and answers after all.
AnsweredAtMostOnce == \A j \in Jobs : answers[j] <= 1

\* The agent of a running job is registered: handle_client_get_queue looks
\* its name up in _registered_agents.
RunningOnRegistered == \A j \in Jobs : IsRunning(j) => jobRunning[j] \in registeredAgents

\* Each slot a registered agent announced is free (in _available_agents or
\* set aside by update_queue) or taken by a running job, and an agent that
\* is not registered has none: slots do not leak and are not made up.
SlotsAccountedFor ==
    \A a \in Agents :
        availableAgents[a] + notFoundForAgent[a] + Cardinality(JobsOn(a)) =
            IF a \in registeredAgents THEN Slots[a] ELSE 0

\* Where a registered agent's job stands: on its way, held, or answered.
OnItsWay(a, j) == \E i \in DOMAIN toAgent[a] : toAgent[a][i] = Message("new_job", j)
OnItsWayBack(a, j) == \E i \in DOMAIN fromAgent[a] : fromAgent[a][i] = Message("done", j)

\* An agent in service works on what the backend believes it works on; and a
\* result from a registered agent, even a dead one, is the one of a job that
\* runs on this very agent for the backend: `del self._job_running[...]` never
\* raises, and never frees the slot of another agent's job.
AgentsAgree ==
    \A a \in registeredAgents, j \in Jobs :
        /\ OnItsWayBack(a, j) => jobRunning[j] = a
        /\ phase[a] = "up" =>
             (jobRunning[j] = a <=> OnItsWay(a, j) \/ j \in held[a] \/ OnItsWayBack(a, j))

\* An agent is never given more jobs than it announced slots, not even when
\* it is removed by mistake and goes on with its jobs.
NoOvercommit ==
    \A a \in Agents :
        Cardinality(held[a] \cup {j \in Jobs : OnItsWay(a, j)}) <= Slots[a]

\* Between two handlers no job waits while an agent that could run it has a
\* free slot.
WorkConserving ==
    Idle => \A a \in Agents : availableAgents[a] > 0 => NothingFor(a)

-----------------------------------------------------------------------------
(* The backend implements JobService.                                       *)

StateOf(j) ==
    CASE IsAnswered(j) -> "answered"
      [] IsRunning(j) -> "running"
      [] IsWaiting(j) -> "queued"
      [] OTHER -> "new"

Service == INSTANCE JobService
             WITH state <- [j \in Jobs |-> StateOf(j)],
                  runner <- jobRunning,
                  serving <- registeredAgents

\* Every step of the backend is a step of the abstract service on one job or
\* one agent, or none: an answer comes from a running job or from a killed
\* waiting one, an assignment never exceeds the slots, a removal takes all
\* the jobs of the agent back at once.
ImplementsJobService == Service!ServiceSpec

-----------------------------------------------------------------------------
(* Fairness.  The asyncio loop starts the ready handlers in their order, so *)
(* a handler that has to wait for others again and again is started in the  *)
(* end (SF); the steps inside a running handler have nothing to wait for    *)
(* (WF).  A live agent reads its messages and ends its jobs: they have a    *)
(* time limit.  Nothing is assumed of clients, of the start and the death   *)
(* of agents, or of the time an agent takes to answer a ping.               *)
Fairness ==
    /\ WF_vars(BackendStep)
    /\ SF_vars(BeginPing /\ UNCHANGED <<clientVars, agentVars, fromAgent>>)
    /\ \A a \in Agents :
         /\ SF_vars(ReceiveFrom(a))
         /\ WF_vars(AgentReceive(a) /\ AgentsStep(a))
         /\ WF_vars((\E j \in held[a] : AgentAnswer(a, j)) /\ AgentsStep(a))

FairSpec == Spec /\ Fairness

\* No registered agent offers the environment of the job.
Stranded(j) == \A a \in registeredAgents : EnvOf[j] \notin containersOnAgent[a]

\* An accepted job is answered in the end, whatever agents die on it or are
\* removed, as long as some agent offers its environment.
EventuallyAnswered ==
    \A j \in Jobs : j \in submitted ~> IsAnswered(j) \/ Stranded(j)
=============================================================================
