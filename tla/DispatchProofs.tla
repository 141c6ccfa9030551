--------------------------- MODULE DispatchProofs ---------------------------
(***************************************************************************)
(* Proofs about Dispatch: type correctness, then the places of a job, for  *)
(* any number of agents, clients and jobs.                                 *)
(***************************************************************************)
EXTENDS Dispatch, QueueLemmas, FiniteSetTheorems, TLAPS

-----------------------------------------------------------------------------
(* Type correctness.                                                        *)

\* What a handler writes on the client socket has the type of clientOut.
LEMMA EmitType ==
    ASSUME NEW clients \in SUBSET Clients, NEW m \in ClientMessage, Emit(clients, m)
    PROVE  clientOut' \in [to : SUBSET Clients, msg : ClientMessage]
BY DEF Emit

LEMMA SilentType == Silent \in [to : SUBSET Clients, msg : ClientMessage]
BY DEF Silent, ClientMessage

LEMMA NothingType ==
    ASSUME EmitNothing
    PROVE  clientOut' \in [to : SUBSET Clients, msg : ClientMessage]
BY SilentType DEF EmitNothing

LEMMA JobMessageType ==
    ASSUME NEW j \in Jobs, NEW t \in {"job_done", "job_started", "job_ssh_debug"},
           NEW c \in Clients, Emit({c}, Message(t, j))
    PROVE  clientOut' \in [to : SUBSET Clients, msg : ClientMessage]
<1>1. Message(t, j) \in ClientMessage
  BY DEF Message, ClientMessage
<1> QED
  BY <1>1, EmitType

LEMMA ContainersMessageType ==
    ASSUME containers \in SUBSET Envs, NEW clients \in SUBSET Clients,
           SendContainerUpdate(clients)
    PROVE  clientOut' \in [to : SUBSET Clients, msg : ClientMessage]
<1>1. [type |-> "update_containers", containers |-> containers] \in ClientMessage
  BY DEF ClientMessage
<1> QED
  BY <1>1, EmitType DEF SendContainerUpdate

LEMMA SendToAgentType ==
    ASSUME TypeOK, NEW a \in Agents, NEW j \in Jobs, NEW t \in {"new_job", "kill_job"},
           SendToAgent(a, Message(t, j))
    PROVE  toAgent' \in [Agents -> Seq(BackendToAgent)]
<1>1. Message(t, j) \in BackendToAgent
  BY DEF Message, BackendToAgent
<1>2. toAgent[a] \in Seq(BackendToAgent)
  BY DEF TypeOK, ChannelsTypeOK
<1>3. Append(toAgent[a], Message(t, j)) \in Seq(BackendToAgent)
  BY <1>1, <1>2
<1> QED
  BY <1>3 DEF SendToAgent, TypeOK, ChannelsTypeOK

LEMMA SendToBackendType ==
    ASSUME TypeOK, NEW a \in Agents, NEW m \in AgentToBackend, SendToBackend(a, m)
    PROVE  fromAgent' \in [Agents -> Seq(AgentToBackend)]
<1>1. fromAgent[a] \in Seq(AgentToBackend)
  BY DEF TypeOK, ChannelsTypeOK
<1>2. Append(fromAgent[a], m) \in Seq(AgentToBackend)
  BY <1>1
<1> QED
  BY <1>2 DEF SendToBackend, TypeOK, ChannelsTypeOK

LEMMA InitType == Init => TypeOK
<1> SUFFICES ASSUME Init PROVE TypeOK
  OBVIOUS
<1>1. ChannelsTypeOK /\ AgentsTypeOK
  BY DEF Init, AgentsInit, ChannelsInit, ChannelsTypeOK, AgentsTypeOK, Phases
<1>2. /\ availableAgents \in [Agents -> Nat] /\ notFoundForAgent \in [Agents -> Nat]
      /\ pingCount \in [Agents -> 0..(MaxPing + 1)] /\ answers \in [Jobs -> Nat]
  BY PingAssumption DEF Init, BackendInit
<1>3. /\ containersOnAgent \in [Agents -> SUBSET Envs] /\ waitingJobs \in Seq(Jobs)
      /\ jobRunning \in [Jobs -> Agents \cup {NoAgent}]
  BY DEF Init, BackendInit
<1>4. clientOut \in [to : SUBSET Clients, msg : ClientMessage]
  BY SilentType DEF Init, BackendInit
<1> QED
  BY <1>1, <1>2, <1>3, <1>4 DEF Init, BackendInit, TypeOK

\* Removing any entry of _waiting_jobs leaves a sequence of jobs.
LEMMA WithoutType ==
    ASSUME TypeOK, NEW i \in DOMAIN waitingJobs
    PROVE  Without(i) \in Seq(Jobs)
<1>1. waitingJobs \in Seq(Jobs) /\ i \in 1..Len(waitingJobs)
  BY DEF TypeOK
<1> QED
  BY <1>1, RemoveAtEntries DEF Without

\* Steps on behalf of clients.
LEMMA ClientStepType ==
    ASSUME TypeOK,
           \/ \E j \in Jobs : Submit(j) \/ Kill(j)
           \/ \E c \in Clients : Hello(c)
    PROVE  TypeOK'
<1> USE DEF backendVars, queueVars, registryVars, controlVars, agentVars, clientVars
<1>1. ASSUME NEW j \in Jobs, Submit(j) PROVE TypeOK'
  <2>1. Append(waitingJobs, j) \in Seq(Jobs)
    BY DEF TypeOK
  <2> QED
    BY <1>1, <2>1, NothingType
       DEF TypeOK, ChannelsTypeOK, AgentsTypeOK, Submit, HandleClientNewJob, CallUpdateQueue
<1>2. ASSUME NEW j \in Jobs, Kill(j) PROVE TypeOK'
  <2>1. Owner[j] \in Clients /\ killed' \in SUBSET Jobs
    BY <1>2, JobsAssumption DEF Kill, TypeOK
  <2>2. CASE KillWaitingJob(Owner[j], j)
    <3>1. clientOut' \in [to : SUBSET Clients, msg : ClientMessage]
      BY <2>1, <2>2, JobMessageType DEF KillWaitingJob
    <3>2. waitingJobs' \in Seq(Jobs)
      BY <2>2, WithoutType DEF KillWaitingJob
    <3> QED
      BY <1>2, <2>1, <2>2, <3>1, <3>2
         DEF TypeOK, ChannelsTypeOK, AgentsTypeOK, Kill, KillWaitingJob
  <2>3. CASE KillRunningJob(Owner[j], j)
    <3>1. jobRunning[j] \in Agents
      BY <2>3 DEF KillRunningJob, TypeOK
    <3> QED
      BY <1>2, <2>1, <2>3, <3>1, NothingType, SendToAgentType
         DEF TypeOK, ChannelsTypeOK, AgentsTypeOK, Kill, KillRunningJob
  <2>4. CASE KillUnknownJob(Owner[j], j)
    BY <1>2, <2>1, <2>4, NothingType DEF TypeOK, ChannelsTypeOK, AgentsTypeOK, Kill, KillUnknownJob
  <2> QED
    BY <1>2, <2>2, <2>3, <2>4 DEF Kill, HandleClientKillJob
<1>3. ASSUME NEW c \in Clients, Hello(c) PROVE TypeOK'
  BY <1>3, ContainersMessageType
     DEF TypeOK, ChannelsTypeOK, AgentsTypeOK, Hello, HandleClientHello
<1> QED
  BY <1>1, <1>2, <1>3

\* The handlers of the messages of agents.
LEMMA ReceiveType ==
    ASSUME TypeOK, \E a \in Agents : ReceiveFrom(a) \/ ReceivePong(a)
    PROVE  TypeOK'
<1> USE DEF backendVars, queueVars, registryVars, controlVars, agentVars, clientVars
<1>1. ASSUME NEW a \in Agents, ReceiveFrom(a) PROVE TypeOK'
  <2> DEFINE m == Head(fromAgent[a])
  <2>1. fromAgent[a] \in Seq(AgentToBackend) /\ fromAgent[a] # <<>>
    BY <1>1 DEF ReceiveFrom, TypeOK, ChannelsTypeOK
  <2>2. m \in AgentToBackend /\ Tail(fromAgent[a]) \in Seq(AgentToBackend)
    BY <2>1
  <2>3. fromAgent' \in [Agents -> Seq(AgentToBackend)]
    BY <1>1, <2>2 DEF ReceiveFrom, TypeOK, ChannelsTypeOK
  <2>4. UNCHANGED <<clientVars, agentVars>>
    BY <1>1 DEF ReceiveFrom
  <2>5. CASE m.type = "hello"
    <3>1. HandleAgentHello(a)
      BY <1>1, <2>5 DEF ReceiveFrom
    <3>2. Slots[a] \in Nat /\ Offers[a] \in SUBSET Envs
      BY AgentsAssumption
    <3>3. availableAgents' \in [Agents -> Nat] /\ containersOnAgent' \in [Agents -> SUBSET Envs]
      BY <3>1, <3>2 DEF TypeOK, HandleAgentHello
    <3>4. containers' \in SUBSET Envs /\ registeredAgents' \in SUBSET Agents
      BY <3>1, <3>2 DEF TypeOK, HandleAgentHello
    <3> QED
      BY <1>1, <2>3, <3>1, <3>3, <3>4, NothingType
         DEF ReceiveFrom, TypeOK, ChannelsTypeOK, AgentsTypeOK, HandleAgentHello, CallUpdateQueue
  <2>6. CASE m.type # "hello"
    <3>1. m.job \in Jobs /\ Owner[m.job] \in Clients
      BY <2>2, <2>6, JobsAssumption DEF AgentToBackend
    <3>2. CASE HandleAgentJobStarted(a, m.job)
      <4>1. clientOut' \in [to : SUBSET Clients, msg : ClientMessage]
        BY <3>1, <3>2, JobMessageType DEF HandleAgentJobStarted
      <4> QED
        BY <1>1, <2>3, <3>1, <3>2, <4>1
           DEF ReceiveFrom, TypeOK, ChannelsTypeOK, AgentsTypeOK, HandleAgentJobStarted
    <3>3. CASE HandleAgentJobSSHDebug(a, m.job)
      <4>1. clientOut' \in [to : SUBSET Clients, msg : ClientMessage]
        BY <3>1, <3>3, JobMessageType DEF HandleAgentJobSSHDebug
      <4> QED
        BY <1>1, <2>3, <3>1, <3>3, <4>1
           DEF ReceiveFrom, TypeOK, ChannelsTypeOK, AgentsTypeOK, HandleAgentJobSSHDebug
    <3>4. CASE JobDoneByRegistered(a, m.job)
      <4>1. clientOut' \in [to : SUBSET Clients, msg : ClientMessage]
        BY <3>1, <3>4, JobMessageType DEF JobDoneByRegistered
      <4>2. /\ availableAgents' \in [Agents -> Nat] /\ answers' \in [Jobs -> Nat]
            /\ jobRunning' \in [Jobs -> Agents \cup {NoAgent}]
        <5> HIDE DEF m
        <5>1. availableAgents' \in [Agents -> Nat]
          BY <3>4 DEF TypeOK, JobDoneByRegistered
        <5>2. answers' \in [Jobs -> Nat]
          BY <3>1, <3>4 DEF TypeOK, JobDoneByRegistered
        <5>3. jobRunning' \in [Jobs -> Agents \cup {NoAgent}]
          BY <3>1, <3>4 DEF TypeOK, JobDoneByRegistered
        <5> QED
          BY <5>1, <5>2, <5>3
      <4>3. /\ UNCHANGED <<waitingJobs, notFoundForAgent, announcing, pinging, pingCount, toAgent>>
            /\ UNCHANGED registryVars /\ updating' = TRUE
        BY <3>4 DEF JobDoneByRegistered, CallUpdateQueue
      <4> QED
        BY <2>3, <2>4, <4>1, <4>2, <4>3 DEF TypeOK, ChannelsTypeOK, AgentsTypeOK
    <3>5. CASE JobDoneByUnregistered(a, m.job)
      BY <1>1, <2>3, <3>1, <3>5, NothingType
         DEF ReceiveFrom, TypeOK, ChannelsTypeOK, AgentsTypeOK, JobDoneByUnregistered, CallUpdateQueue
    <3> QED
      BY <1>1, <2>6, <3>2, <3>3, <3>4, <3>5 DEF ReceiveFrom, HandleAgentJobDone
  <2> QED
    BY <2>5, <2>6
<1>2. ASSUME NEW a \in Agents, ReceivePong(a) PROVE TypeOK'
  BY <1>2, NothingType, PingAssumption
     DEF TypeOK, ChannelsTypeOK, AgentsTypeOK, ReceivePong, HandlePong
<1> QED
  BY <1>1, <1>2

\* The backend's own steps.
LEMMA BackendStepType ==
    ASSUME TypeOK, BackendStep
    PROVE  TypeOK'
<1> USE DEF backendVars, queueVars, registryVars, controlVars, agentVars, clientVars
<1>1. ASSUME NEW a \in Agents, AssignJob(a) PROVE TypeOK'
  <2>1. PICK i \in DOMAIN waitingJobs :
          /\ waitingJobs' = Without(i)
          /\ jobRunning' = [jobRunning EXCEPT ![waitingJobs[i]] = a]
          /\ SendToAgent(a, Message("new_job", waitingJobs[i]))
    BY <1>1 DEF AssignJob
  <2>2. waitingJobs[i] \in Jobs
    BY DEF TypeOK
  <2>3. toAgent' \in [Agents -> Seq(BackendToAgent)]
    BY <2>1, <2>2, SendToAgentType
  <2>4. waitingJobs' \in Seq(Jobs)
    BY <2>1, WithoutType
  <2>5. jobRunning' \in [Jobs -> Agents \cup {NoAgent}]
    BY <2>1, <2>2 DEF TypeOK
  <2>6. availableAgents' \in [Agents -> Nat]
    BY <1>1 DEF TypeOK, AssignJob
  <2> QED
    BY <1>1, <2>3, <2>4, <2>5, <2>6, NothingType, BackendStep
       DEF BackendStep, TypeOK, ChannelsTypeOK, AgentsTypeOK, AssignJob
<1>2. ASSUME NEW a \in Agents, SetAside(a) PROVE TypeOK'
  BY <1>2, NothingType, BackendStep DEF BackendStep, TypeOK, ChannelsTypeOK, AgentsTypeOK, SetAside
<1>3. ASSUME EndUpdateQueue PROVE TypeOK'
  <2>1. registeredClients \in SUBSET Clients /\ containers \in SUBSET Envs
    BY DEF TypeOK
  <2>2. clientOut' \in [to : SUBSET Clients, msg : ClientMessage]
    BY <1>3, <2>1, NothingType, ContainersMessageType DEF EndUpdateQueue
  <2>3. availableAgents' \in [Agents -> Nat] /\ notFoundForAgent' \in [Agents -> Nat]
    BY <1>3 DEF TypeOK, EndUpdateQueue
  <2> QED
    BY <1>3, <2>2, <2>3, BackendStep
       DEF BackendStep, TypeOK, ChannelsTypeOK, AgentsTypeOK, EndUpdateQueue
<1>4. ASSUME BeginPing PROVE TypeOK'
  BY <1>4, NothingType, BackendStep DEF BackendStep, TypeOK, ChannelsTypeOK, AgentsTypeOK, BeginPing
<1>5. ASSUME NEW a \in Agents, PingAgent(a) PROVE TypeOK'
  BY <1>5, NothingType, BackendStep, PingAssumption
     DEF BackendStep, TypeOK, ChannelsTypeOK, AgentsTypeOK, PingAgent
<1>6. ASSUME NEW a \in Agents, RemoveAgent(a) PROVE TypeOK'
  <2>1. waitingJobs' \in Seq(Jobs)
    <3>1. PICK order \in Bijection(1..Cardinality(JobsOn(a)), JobsOn(a)) :
            waitingJobs' = waitingJobs \o order
      BY <1>6 DEF RemoveAgent
    <3>2. JobsOn(a) \subseteq Jobs /\ Cardinality(JobsOn(a)) \in Nat
      BY JobsAssumption, FS_Subset, FS_CardinalityType DEF JobsOn
    <3>3. order \in Seq(Jobs)
      BY <3>1, <3>2 DEF Bijection, Injection
    <3> QED
      BY <3>1, <3>3 DEF TypeOK
  <2> QED
    BY <1>6, <2>1, NothingType, BackendStep
       DEF BackendStep, TypeOK, ChannelsTypeOK, AgentsTypeOK, RemoveAgent, CallUpdateQueue
<1> QED
  BY <1>1, <1>2, <1>3, <1>4, <1>5, <1>6, BackendStep DEF BackendStep, UpdateQueue, DoPing

\* The agents' steps.
LEMMA AgentsStepType ==
    ASSUME TypeOK, NEW a \in Agents, AgentsStep(a)
    PROVE  TypeOK'
<1> USE DEF backendVars, queueVars, registryVars, controlVars, agentVars, clientVars
<1>1. /\ UNCHANGED <<queueVars, registryVars, controlVars, pingCount, answers, clientVars>>
      /\ clientOut' \in [to : SUBSET Clients, msg : ClientMessage]
  BY AgentsStep(a), NothingType DEF AgentsStep
<1>2. SUFFICES /\ phase' \in [Agents -> Phases] /\ held' \in [Agents -> SUBSET Jobs]
               /\ notices' \in [Agents -> SUBSET Notices] /\ ChannelsTypeOK'
  BY <1>1 DEF TypeOK, AgentsTypeOK
<1>3. CASE AgentStart(a)
  <2>1. Message("hello", NoJob) \in AgentToBackend
    BY DEF Message, AgentToBackend
  <2> QED
    BY <1>3, <2>1, SendToBackendType
       DEF AgentStart, TypeOK, ChannelsTypeOK, AgentsTypeOK, Phases
<1>4. ASSUME toAgent[a] # <<>>
      PROVE  Head(toAgent[a]).job \in Jobs /\ Tail(toAgent[a]) \in Seq(BackendToAgent)
  <2>1. toAgent[a] \in Seq(BackendToAgent)
    BY DEF TypeOK, ChannelsTypeOK
  <2>2. Head(toAgent[a]) \in BackendToAgent
    BY <1>4, <2>1
  <2> QED
    BY <1>4, <2>1, <2>2 DEF BackendToAgent
<1>5. CASE AgentReceiveJob(a)
  BY <1>4, <1>5 DEF AgentReceiveJob, TypeOK, ChannelsTypeOK, AgentsTypeOK, NoticesFor
<1>6. CASE AgentReceiveKill(a)
  BY <1>4, <1>6 DEF AgentReceiveKill, TypeOK, ChannelsTypeOK, AgentsTypeOK
<1>7. ASSUME NEW n \in notices[a], AgentNotify(a, n)
      PROVE  /\ phase' \in [Agents -> Phases] /\ held' \in [Agents -> SUBSET Jobs]
             /\ notices' \in [Agents -> SUBSET Notices] /\ ChannelsTypeOK'
  <2>1. n \in AgentToBackend
    BY <1>7 DEF TypeOK, AgentsTypeOK, Notices, AgentToBackend
  <2> QED
    BY <1>7, <2>1, SendToBackendType DEF AgentNotify, TypeOK, ChannelsTypeOK, AgentsTypeOK
<1>8. ASSUME NEW j \in held[a], AgentAnswer(a, j)
      PROVE  /\ phase' \in [Agents -> Phases] /\ held' \in [Agents -> SUBSET Jobs]
             /\ notices' \in [Agents -> SUBSET Notices] /\ ChannelsTypeOK'
  <2>1. Message("done", j) \in AgentToBackend
    BY <1>8 DEF TypeOK, AgentsTypeOK, Message, AgentToBackend
  <2> QED
    BY <1>8, <2>1, SendToBackendType DEF AgentAnswer, TypeOK, ChannelsTypeOK, AgentsTypeOK
<1>9. CASE AgentCrash(a)
  BY <1>9 DEF AgentCrash, TypeOK, ChannelsTypeOK, AgentsTypeOK, Phases
<1> QED
  BY AgentsStep(a), <1>3, <1>5, <1>6, <1>7, <1>8, <1>9 DEF AgentsStep, AgentStep, AgentReceive

\* Every variable always has its type: the backend never does arithmetic
\* below zero on its slots, and never holds a job or an agent it does not
\* know.
THEOREM TypeCorrect == Spec => []TypeOK
<1>1. Init => TypeOK
  BY InitType
<1>2. TypeOK /\ [Next]_vars => TypeOK'
  <2>1. TypeOK /\ Next => TypeOK'
    BY ClientStepType, ReceiveType, BackendStepType, AgentsStepType DEF Next
  <2>2. TypeOK /\ UNCHANGED vars => TypeOK'
    BY DEF TypeOK, ChannelsTypeOK, AgentsTypeOK, vars, backendVars, queueVars, registryVars,
           controlVars, agentVars, clientVars, channels
  <2> QED
    BY <2>1, <2>2
<1> QED
  BY <1>1, <1>2, PTL DEF Spec

-----------------------------------------------------------------------------
(* Where a job stands: the queue, _job_running and the answers never        *)
(* disagree, for any number of clients, agents and jobs and for any limit   *)
(* on the pings.                                                            *)

\* Only registered agents have slots in _available_agents or set aside:
\* otherwise update_queue would give jobs to agents that were removed.
SlotsOfRegistered ==
    \A a \in Agents :
        availableAgents[a] > 0 \/ notFoundForAgent[a] > 0 => a \in registeredAgents

\* The slots set aside come back before another handler runs: an agent that
\* is removed then has no slot left anywhere.
AsideWhileUpdating == ~updating => \A a \in Agents : notFoundForAgent[a] = 0

PlacesInv ==
    /\ QueuedOnce
    /\ InOnePlace
    /\ AnsweredAtMostOnce
    /\ RunningOnRegistered
    /\ SlotsOfRegistered
    /\ AsideWhileUpdating

LEMMA InitPlaces == Init => PlacesInv
<1> SUFFICES ASSUME Init PROVE PlacesInv
  OBVIOUS
<1>1. /\ waitingJobs = <<>> /\ jobRunning = [j \in Jobs |-> NoAgent]
      /\ answers = [j \in Jobs |-> 0] /\ submitted = {}
      /\ availableAgents = [a \in Agents |-> 0] /\ notFoundForAgent = [a \in Agents |-> 0]
  BY DEF Init, BackendInit
<1>2. QueuedOnce /\ Range(waitingJobs) = {}
  BY <1>1 DEF QueuedOnce, IsInjective, Range
<1> QED
  BY <1>1, <1>2 DEF PlacesInv, InOnePlace, AnsweredAtMostOnce, RunningOnRegistered,
     SlotsOfRegistered, AsideWhileUpdating, IsWaiting, IsRunning, IsAnswered

\* Most steps move no job and no slot.
LEMMA UnmovedPlaces ==
    ASSUME PlacesInv, updating' \in {updating, TRUE},
           UNCHANGED <<waitingJobs, jobRunning, answers, submitted, registeredAgents,
                       availableAgents, notFoundForAgent>>
    PROVE  PlacesInv'
BY DEF PlacesInv, QueuedOnce, InOnePlace, AnsweredAtMostOnce, RunningOnRegistered,
       SlotsOfRegistered, AsideWhileUpdating, IsWaiting, IsRunning, IsAnswered

\* Steps on behalf of clients.
LEMMA ClientStepPlaces ==
    ASSUME TypeOK, PlacesInv,
           \/ \E j \in Jobs : Submit(j) \/ Kill(j)
           \/ \E c \in Clients : Hello(c)
    PROVE  PlacesInv'
<1> USE DEF backendVars, queueVars, registryVars, controlVars, agentVars, clientVars
<1>1. waitingJobs \in Seq(Jobs) /\ IsInjective(waitingJobs)
  BY DEF TypeOK, PlacesInv, QueuedOnce
<1>2. ASSUME NEW j \in Jobs, Submit(j) PROVE PlacesInv'
  <2>1. /\ j \notin submitted /\ submitted' = submitted \cup {j}
        /\ waitingJobs' = Append(waitingJobs, j)
        /\ UNCHANGED <<jobRunning, answers, registeredAgents, availableAgents, notFoundForAgent>>
        /\ updating' = TRUE
    BY <1>2 DEF Submit, HandleClientNewJob, CallUpdateQueue
  <2>2. j \notin Range(waitingJobs)
    BY <2>1 DEF PlacesInv, InOnePlace, IsWaiting
  <2>3. IsInjective(waitingJobs') /\ Range(waitingJobs') = Range(waitingJobs) \cup {j}
    BY <1>1, <2>1, <2>2, QueueAppend
  <2>4. InOnePlace'
    BY <2>1, <2>3 DEF PlacesInv, InOnePlace, IsWaiting, IsRunning, IsAnswered
  <2> QED
    BY <2>1, <2>3, <2>4
       DEF PlacesInv, QueuedOnce, AnsweredAtMostOnce, RunningOnRegistered, IsRunning,
           SlotsOfRegistered, AsideWhileUpdating
<1>3. ASSUME NEW j \in Jobs, Kill(j) PROVE PlacesInv'
  <2>1. CASE KillWaitingJob(Owner[j], j)
    <3>1. PICK i \in DOMAIN waitingJobs : waitingJobs[i] = j /\ waitingJobs' = Without(i)
      BY <2>1 DEF KillWaitingJob
    <3>2. /\ answers' = [answers EXCEPT ![j] = @ + 1]
          /\ UNCHANGED <<jobRunning, submitted, registeredAgents, availableAgents,
                         notFoundForAgent, updating>>
      BY <1>3, <2>1 DEF Kill, KillWaitingJob
    <3>3. IsInjective(waitingJobs') /\ Range(waitingJobs') = Range(waitingJobs) \ {j}
      BY <1>1, <3>1, QueueDelete DEF Without
    <3>4. IsWaiting(j)
      BY <3>1 DEF IsWaiting, Range
    <3>5. answers \in [Jobs -> Nat] /\ answers[j] = 0
      BY <3>4 DEF TypeOK, PlacesInv, InOnePlace, IsAnswered
    <3>6. answers'[j] = 1 /\ \A k \in Jobs \ {j} : answers'[k] = answers[k]
      BY <3>2, <3>5
    <3>7. InOnePlace'
      BY <3>2, <3>3, <3>4, <3>6
         DEF PlacesInv, InOnePlace, IsWaiting, IsRunning, IsAnswered
    <3>8. AnsweredAtMostOnce'
      BY <3>6 DEF PlacesInv, AnsweredAtMostOnce
    <3> QED
      BY <3>2, <3>3, <3>7, <3>8
         DEF PlacesInv, QueuedOnce, RunningOnRegistered, IsRunning, SlotsOfRegistered,
             AsideWhileUpdating
  <2>2. CASE KillRunningJob(Owner[j], j) \/ KillUnknownJob(Owner[j], j)
    BY <1>3, <2>2, UnmovedPlaces DEF Kill, KillRunningJob, KillUnknownJob
  <2> QED
    BY <1>3, <2>1, <2>2 DEF Kill, HandleClientKillJob
<1>4. ASSUME NEW c \in Clients, Hello(c) PROVE PlacesInv'
  BY <1>4, UnmovedPlaces DEF Hello, HandleClientHello
<1> QED
  BY <1>2, <1>3, <1>4

\* The handlers of the messages of agents.
LEMMA ReceivePlaces ==
    ASSUME TypeOK, PlacesInv, \E a \in Agents : ReceiveFrom(a) \/ ReceivePong(a)
    PROVE  PlacesInv'
<1> USE DEF backendVars, queueVars, registryVars, controlVars, agentVars, clientVars
<1>1. ASSUME NEW a \in Agents, ReceiveFrom(a) PROVE PlacesInv'
  <2> DEFINE m == Head(fromAgent[a])
  <2>1. fromAgent[a] \in Seq(AgentToBackend) /\ fromAgent[a] # <<>>
    BY <1>1 DEF ReceiveFrom, TypeOK, ChannelsTypeOK
  <2>2. m \in AgentToBackend
    BY <2>1
  <2>3. UNCHANGED submitted
    BY <1>1 DEF ReceiveFrom
  <2>4. CASE HandleAgentHello(a)
    <3>1. /\ registeredAgents' = registeredAgents \cup {a} /\ updating' = TRUE
          /\ availableAgents' = [availableAgents EXCEPT ![a] = @ + Slots[a]]
          /\ UNCHANGED <<waitingJobs, jobRunning, answers, notFoundForAgent>>
      BY <2>4 DEF HandleAgentHello, CallUpdateQueue
    <3>2. SlotsOfRegistered'
      BY <3>1 DEF TypeOK, PlacesInv, SlotsOfRegistered
    <3> QED
      BY <2>3, <3>1, <3>2
         DEF PlacesInv, QueuedOnce, InOnePlace, AnsweredAtMostOnce, RunningOnRegistered,
             AsideWhileUpdating, IsWaiting, IsRunning, IsAnswered
  <2>5. CASE m.type # "hello" /\ JobDoneByRegistered(a, m.job)
    <3> DEFINE j == m.job
    <3>1. j \in Jobs
      BY <2>2, <2>5 DEF AgentToBackend
    <3>2. /\ a \in registeredAgents /\ jobRunning[j] # NoAgent
          /\ jobRunning' = [jobRunning EXCEPT ![j] = NoAgent]
          /\ answers' = [answers EXCEPT ![j] = @ + 1]
          /\ availableAgents' = [availableAgents EXCEPT ![a] = @ + 1]
          /\ updating' = TRUE
          /\ UNCHANGED <<waitingJobs, registeredAgents, notFoundForAgent>>
      BY <2>5 DEF JobDoneByRegistered, CallUpdateQueue
    <3> HIDE DEF j
    <3>3. answers \in [Jobs -> Nat] /\ answers[j] = 0
      BY <3>1, <3>2 DEF TypeOK, PlacesInv, InOnePlace, IsRunning, IsAnswered
    <3>4. answers'[j] = 1 /\ \A k \in Jobs \ {j} : answers'[k] = answers[k]
      BY <3>1, <3>2, <3>3
    <3>5. /\ jobRunning \in [Jobs -> Agents \cup {NoAgent}]
          /\ jobRunning'[j] = NoAgent /\ \A k \in Jobs \ {j} : jobRunning'[k] = jobRunning[k]
      BY <3>1, <3>2 DEF TypeOK
    <3>6. InOnePlace'
      BY <2>3, <3>1, <3>2, <3>4, <3>5
         DEF PlacesInv, InOnePlace, IsWaiting, IsRunning, IsAnswered
    <3>7. AnsweredAtMostOnce' /\ RunningOnRegistered'
      BY <3>2, <3>4, <3>5 DEF PlacesInv, AnsweredAtMostOnce, RunningOnRegistered, IsRunning
    <3>8. SlotsOfRegistered'
      BY <3>2 DEF TypeOK, PlacesInv, SlotsOfRegistered
    <3> QED
      BY <3>2, <3>6, <3>7, <3>8 DEF PlacesInv, QueuedOnce, AsideWhileUpdating
  <2>6. CASE \/ HandleAgentJobStarted(a, m.job) \/ HandleAgentJobSSHDebug(a, m.job)
             \/ JobDoneByUnregistered(a, m.job)
    BY <2>3, <2>6, UnmovedPlaces
       DEF HandleAgentJobStarted, HandleAgentJobSSHDebug, JobDoneByUnregistered, CallUpdateQueue
  <2> QED
    BY <1>1, <2>4, <2>5, <2>6 DEF ReceiveFrom, HandleAgentJobDone
<1>2. ASSUME NEW a \in Agents, ReceivePong(a) PROVE PlacesInv'
  BY <1>2, UnmovedPlaces DEF ReceivePong, HandlePong
<1> QED
  BY <1>1, <1>2

\* The backend's own steps.
LEMMA BackendStepPlaces ==
    ASSUME TypeOK, PlacesInv, BackendStep
    PROVE  PlacesInv'
<1> USE DEF backendVars, queueVars, registryVars, controlVars, agentVars, clientVars
<1>0. waitingJobs \in Seq(Jobs) /\ IsInjective(waitingJobs) /\ submitted' = submitted
  BY BackendStep DEF TypeOK, PlacesInv, QueuedOnce, BackendStep
<1>1. ASSUME NEW a \in Agents, AssignJob(a) PROVE PlacesInv'
  <2>1. PICK i \in DOMAIN waitingJobs :
          /\ waitingJobs' = Without(i)
          /\ jobRunning' = [jobRunning EXCEPT ![waitingJobs[i]] = a]
    BY <1>1 DEF AssignJob
  <2> DEFINE j == waitingJobs[i]
  <2>2. /\ updating /\ availableAgents[a] > 0
        /\ availableAgents' = [availableAgents EXCEPT ![a] = @ - 1]
        /\ UNCHANGED <<answers, registeredAgents, notFoundForAgent, updating>>
    BY <1>1 DEF AssignJob
  <2>3. IsInjective(waitingJobs') /\ Range(waitingJobs') = Range(waitingJobs) \ {j}
    BY <1>0, <2>1, QueueDelete DEF Without
  <2>4. j \in Jobs /\ IsWaiting(j) /\ a # NoAgent
    BY <1>0, AgentsAssumption DEF IsWaiting, Range
  <2>5. jobRunning'[j] = a /\ \A k \in Jobs \ {j} : jobRunning'[k] = jobRunning[k]
    BY <2>1, <2>4 DEF TypeOK
  <2> HIDE DEF j
  <2>6. InOnePlace'
    BY <1>0, <2>2, <2>3, <2>4, <2>5
       DEF PlacesInv, InOnePlace, IsWaiting, IsRunning, IsAnswered
  <2>7. a \in registeredAgents
    BY <2>2 DEF PlacesInv, SlotsOfRegistered
  <2>8. RunningOnRegistered'
    BY <2>2, <2>5, <2>7 DEF PlacesInv, RunningOnRegistered, IsRunning
  <2>9. SlotsOfRegistered'
    BY <2>2, <2>7 DEF TypeOK, PlacesInv, SlotsOfRegistered
  <2> QED
    BY <2>2, <2>3, <2>6, <2>8, <2>9
       DEF PlacesInv, QueuedOnce, AnsweredAtMostOnce, AsideWhileUpdating
<1>2. ASSUME NEW a \in Agents, SetAside(a) PROVE PlacesInv'
  <2>1. /\ updating /\ availableAgents[a] > 0
        /\ availableAgents' = [availableAgents EXCEPT ![a] = @ - 1]
        /\ notFoundForAgent' = [notFoundForAgent EXCEPT ![a] = @ + 1]
        /\ UNCHANGED <<waitingJobs, jobRunning, answers, registeredAgents, updating>>
    BY <1>2 DEF SetAside
  <2>2. SlotsOfRegistered' /\ AsideWhileUpdating'
    BY <2>1 DEF TypeOK, PlacesInv, SlotsOfRegistered, AsideWhileUpdating
  <2> QED
    BY <1>0, <2>1, <2>2
       DEF PlacesInv, QueuedOnce, InOnePlace, AnsweredAtMostOnce, RunningOnRegistered,
           IsWaiting, IsRunning, IsAnswered
<1>3. ASSUME EndUpdateQueue PROVE PlacesInv'
  <2>1. /\ availableAgents' = [a \in Agents |-> availableAgents[a] + notFoundForAgent[a]]
        /\ notFoundForAgent' = [a \in Agents |-> 0]
        /\ UNCHANGED <<waitingJobs, jobRunning, answers, registeredAgents>>
    BY <1>3 DEF EndUpdateQueue
  <2>2. SlotsOfRegistered' /\ AsideWhileUpdating'
    BY <2>1 DEF TypeOK, PlacesInv, SlotsOfRegistered, AsideWhileUpdating
  <2> QED
    BY <1>0, <2>1, <2>2
       DEF PlacesInv, QueuedOnce, InOnePlace, AnsweredAtMostOnce, RunningOnRegistered,
           IsWaiting, IsRunning, IsAnswered
<1>4. ASSUME BeginPing \/ \E a \in Agents : PingAgent(a) PROVE PlacesInv'
  BY <1>0, <1>4, UnmovedPlaces DEF BeginPing, PingAgent
<1>5. ASSUME NEW a \in Agents, RemoveAgent(a) PROVE PlacesInv'
  <2>1. PICK order \in Bijection(1..Cardinality(JobsOn(a)), JobsOn(a)) :
          waitingJobs' = waitingJobs \o order
    BY <1>5 DEF RemoveAgent
  <2>2. /\ ~updating /\ updating' = TRUE
        /\ availableAgents' = [availableAgents EXCEPT ![a] = 0]
        /\ registeredAgents' = registeredAgents \ {a}
        /\ jobRunning' = [j \in Jobs |-> IF jobRunning[j] = a THEN NoAgent ELSE jobRunning[j]]
        /\ UNCHANGED <<answers, notFoundForAgent>>
    BY <1>5 DEF RemoveAgent, CallUpdateQueue
  <2>3. /\ JobsOn(a) \in SUBSET Jobs /\ Cardinality(JobsOn(a)) \in Nat
        /\ \A j \in Jobs : j \in JobsOn(a) <=> jobRunning[j] = a
    BY JobsAssumption, FS_Subset, FS_CardinalityType DEF JobsOn
  <2>4. a # NoAgent
    BY AgentsAssumption
  <2>5. JobsOn(a) \cap Range(waitingJobs) = {}
    BY <2>3, <2>4 DEF PlacesInv, InOnePlace, IsWaiting, IsRunning
  <2>6. IsInjective(waitingJobs') /\ Range(waitingJobs') = Range(waitingJobs) \cup JobsOn(a)
    <3> DEFINE T == JobsOn(a)
               n == Cardinality(T)
    <3>1. T \in SUBSET Jobs /\ n \in Nat /\ order \in Bijection(1..n, T) /\ T \cap Range(waitingJobs) = {}
      BY <2>3, <2>5
    <3> HIDE DEF T, n
    <3>2. IsInjective(waitingJobs \o order) /\ Range(waitingJobs \o order) = Range(waitingJobs) \cup T
      BY <1>0, <3>1, QueueAppendAll
    <3> QED
      BY <2>1, <3>2 DEF T
  <2>7. InOnePlace'
    BY <1>0, <2>2, <2>3, <2>4, <2>6
       DEF PlacesInv, InOnePlace, IsWaiting, IsRunning, IsAnswered
  <2>8. RunningOnRegistered'
    BY <2>2, <2>4 DEF PlacesInv, RunningOnRegistered, IsRunning
  <2>9. SlotsOfRegistered'
    BY <2>2 DEF TypeOK, PlacesInv, SlotsOfRegistered, AsideWhileUpdating
  <2> QED
    BY <2>2, <2>6, <2>7, <2>8, <2>9
       DEF PlacesInv, QueuedOnce, AnsweredAtMostOnce, AsideWhileUpdating
<1> QED
  BY <1>1, <1>2, <1>3, <1>4, <1>5, BackendStep DEF BackendStep, UpdateQueue, DoPing

\* A step of an agent moves nothing in the backend.
LEMMA AgentsStepPlaces ==
    ASSUME PlacesInv, NEW a \in Agents, AgentsStep(a)
    PROVE  PlacesInv'
BY AgentsStep(a), UnmovedPlaces
   DEF AgentsStep, queueVars, registryVars, controlVars, clientVars

\* The inductive invariant on the places of jobs: a job waits once or runs, and
\* runs only on a registered agent.
THEOREM PlacesInvariant == Spec => []PlacesInv
<1>1. Init => PlacesInv
  BY InitPlaces
<1>2. TypeOK /\ PlacesInv /\ [Next]_vars => PlacesInv'
  <2>1. TypeOK /\ PlacesInv /\ Next => PlacesInv'
    BY ClientStepPlaces, ReceivePlaces, BackendStepPlaces, AgentsStepPlaces DEF Next
  <2>2. PlacesInv /\ UNCHANGED vars => PlacesInv'
    BY UnmovedPlaces DEF vars, backendVars, queueVars, registryVars, controlVars, clientVars
  <2> QED
    BY <2>1, <2>2
<1> QED
  BY <1>1, <1>2, TypeCorrect, PTL DEF Spec

\* A job the backend has accepted is in exactly one place, and queued once, for ever.
THEOREM JobsInOnePlace == Spec => []EachJobInOnePlace
<1>1. PlacesInv => EachJobInOnePlace
  BY DEF PlacesInv, EachJobInOnePlace
<1> QED
  BY <1>1, PlacesInvariant, PTL

\* No client ever gets two results for one job.
THEOREM OneAnswer == Spec => []AnsweredAtMostOnce
<1>1. PlacesInv => AnsweredAtMostOnce
  BY DEF PlacesInv
<1> QED
  BY <1>1, PlacesInvariant, PTL

\* The snapshot of the queue never meets a job on an agent that is gone.
THEOREM RunningJobsHaveAgents == Spec => []RunningOnRegistered
<1>1. PlacesInv => RunningOnRegistered
  BY DEF PlacesInv
<1> QED
  BY <1>1, PlacesInvariant, PTL
=============================================================================
