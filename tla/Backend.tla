------------------------------ MODULE Backend -------------------------------
(***************************************************************************)
(* The backend (backend/backend.py): it queues the jobs of the clients,    *)
(* sends them to agents that have a free slot and the environment asked    *)
(* for, gives the answers back, and removes the agents that stop answering *)
(* its pings, taking their jobs back.                                      *)
(*                                                                         *)
(* The backend is one asyncio loop.  A send on a ROUTER socket never       *)
(* suspends its coroutine, so a handler runs to its end before the next    *)
(* one starts.  The two loops inside handlers, in update_queue and in      *)
(* _do_ping, are cut here into one step per iteration; no handler starts   *)
(* while one of them runs (Idle).  Agents and clients go on meanwhile.     *)
(***************************************************************************)
EXTENDS Platform, Functions, SequencesExt

CONSTANT MaxPing    \* pings without an answer that an agent may leave: 5

ASSUME PingAssumption == MaxPing \in Nat

VARIABLES
    containers,         \* keys of _containers
    containersOnAgent,  \* _containers_on_agent
    registeredClients,  \* _registered_clients
    registeredAgents,   \* keys of _registered_agents
    availableAgents,    \* _available_agents: how many times it lists each agent
    pingCount,          \* _ping_count
    waitingJobs,        \* _waiting_jobs: an OrderedDict, in its order
    jobRunning,         \* _job_running: the agent of each job, or NoAgent
    updating,           \* update_queue is running
    notFoundForAgent,   \* update_queue's not_found_for_agent, counted likewise
    announcing,         \* handle_agent_hello waits for update_queue
    pinging,            \* the agents _do_ping has still to look at
    clientOut,          \* what the last step wrote on the client socket
    answers             \* history: BackendJobDone sent for each job

queueVars == <<availableAgents, waitingJobs, jobRunning, notFoundForAgent>>
registryVars == <<containers, containersOnAgent, registeredClients, registeredAgents>>
controlVars == <<updating, announcing, pinging>>
backendVars == <<queueVars, registryVars, controlVars, pingCount, clientOut, answers>>

-----------------------------------------------------------------------------
(* What the backend writes on the client socket: one message, to a set of   *)
(* clients.                                                                 *)

ClientMessage ==
    [type : {"job_done", "job_started", "job_ssh_debug"}, job : Jobs]
        \cup [type : {"pong", "unknown"}]
        \cup [type : {"update_containers"}, containers : SUBSET Envs]
        \cup [type : {"queue"}, running : [Jobs -> Agents \cup {NoAgent}], waiting : Seq(Jobs)]

Silent == [to |-> {}, msg |-> [type |-> "pong"]]

Emit(clients, m) == clientOut' = [to |-> clients, msg |-> m]

EmitNothing == clientOut' = Silent

\* send_container_update_to_client
SendContainerUpdate(clients) ==
    Emit(clients, [type |-> "update_containers", containers |-> containers])

-----------------------------------------------------------------------------
(* The queue.                                                               *)

IsWaiting(j) == j \in Range(waitingJobs)

JobsOn(a) == {j \in Jobs : jobRunning[j] = a}

\* The agent a can run the i-th waiting job.
Suits(i, a) == EnvOf[waitingJobs[i]] \in containersOnAgent[a]

\* Mutant of FirstFor: the environments of the agent are not looked at.
FirstOfAll(i, a) == i = 1 /\ i \in DOMAIN waitingJobs

\* The i-th waiting job is the first one that the agent a can run.
FirstFor(i, a) ==
    /\ i \in DOMAIN waitingJobs
    /\ Suits(i, a)
    /\ \A k \in 1..(i-1) : ~Suits(k, a)

NothingFor(a) == \A i \in DOMAIN waitingJobs : ~Suits(i, a)

\* waitingJobs without the job at index i
Without(i) == RemoveAt(waitingJobs, i)

NobodyAvailable == \A a \in Agents : availableAgents[a] = 0

\* No handler is running: the loop may start the next one.
Idle == ~updating /\ pinging = {}

\* A handler's call of update_queue.
CallUpdateQueue == updating' = TRUE

-----------------------------------------------------------------------------
BackendInit ==
    /\ containers = {}
    /\ containersOnAgent = [a \in Agents |-> {}]
    /\ registeredClients = {}
    /\ registeredAgents = {}
    /\ availableAgents = [a \in Agents |-> 0]
    /\ pingCount = [a \in Agents |-> 0]
    /\ waitingJobs = <<>>
    /\ jobRunning = [j \in Jobs |-> NoAgent]
    /\ updating = FALSE
    /\ notFoundForAgent = [a \in Agents |-> 0]
    /\ announcing = FALSE
    /\ pinging = {}
    /\ clientOut = Silent
    /\ answers = [j \in Jobs |-> 0]

\* The backend stops and starts again: nothing of its state is kept.
BackendRestart ==
    /\ containers' = {}
    /\ containersOnAgent' = [a \in Agents |-> {}]
    /\ registeredClients' = {}
    /\ registeredAgents' = {}
    /\ availableAgents' = [a \in Agents |-> 0]
    /\ pingCount' = [a \in Agents |-> 0]
    /\ waitingJobs' = <<>>
    /\ jobRunning' = [j \in Jobs |-> NoAgent]
    /\ updating' = FALSE
    /\ notFoundForAgent' = [a \in Agents |-> 0]
    /\ announcing' = FALSE
    /\ pinging' = {}
    /\ EmitNothing
    /\ UNCHANGED answers

-----------------------------------------------------------------------------
(* Messages of clients.  The parameters are the client the message comes    *)
(* from and its content; taking it off a channel is left to the module that *)
(* composes the backend with clients.                                       *)

\* handle_client_message, for a client that has not said hello
RejectUnregistered(c) ==
    /\ Idle
    /\ c \notin registeredClients
    /\ Emit({c}, [type |-> "unknown"])
    /\ UNCHANGED <<queueVars, registryVars, controlVars, pingCount, answers, toAgent>>

HandleClientHello(c) ==
    /\ Idle
    /\ registeredClients' = registeredClients \cup {c}
    /\ SendContainerUpdate({c})
    /\ UNCHANGED <<containers, containersOnAgent, registeredAgents>>
    /\ UNCHANGED <<queueVars, controlVars, pingCount, answers, toAgent>>

HandleClientPing(c) ==
    /\ Idle
    /\ c \in registeredClients
    /\ Emit({c}, [type |-> "pong"])
    /\ UNCHANGED <<queueVars, registryVars, controlVars, pingCount, answers, toAgent>>

\* Mutant of HandleClientNewJob: update_queue is not called.
QueueClientNewJob(c, j) ==
    /\ Idle
    /\ c \in registeredClients
    /\ waitingJobs' = Append(waitingJobs, j)
    /\ EmitNothing
    /\ UNCHANGED <<availableAgents, jobRunning, notFoundForAgent, controlVars>>
    /\ UNCHANGED <<registryVars, pingCount, answers, toAgent>>

HandleClientNewJob(c, j) ==
    /\ Idle
    /\ c \in registeredClients
    /\ waitingJobs' = Append(waitingJobs, j)
    /\ CallUpdateQueue
    /\ EmitNothing
    /\ UNCHANGED <<availableAgents, jobRunning, notFoundForAgent, announcing, pinging>>
    /\ UNCHANGED <<registryVars, pingCount, answers, toAgent>>

\* handle_client_kill_job, for a waiting job: it is answered at once.
KillWaitingJob(c, j) ==
    /\ Idle
    /\ c \in registeredClients
    /\ \E i \in DOMAIN waitingJobs :
         /\ waitingJobs[i] = j
         /\ waitingJobs' = Without(i)
    /\ Emit({c}, Message("job_done", j))
    /\ answers' = [answers EXCEPT ![j] = @ + 1]
    /\ UNCHANGED <<availableAgents, jobRunning, notFoundForAgent>>
    /\ UNCHANGED <<registryVars, controlVars, pingCount, toAgent>>

\* Mutant of KillRunningJob: the slot of the job is given back at once.
KillAndFreeSlot(c, j) ==
    /\ Idle
    /\ c \in registeredClients
    /\ ~IsWaiting(j)
    /\ jobRunning[j] # NoAgent
    /\ SendToAgent(jobRunning[j], Message("kill_job", j))
    /\ availableAgents' = [availableAgents EXCEPT ![jobRunning[j]] = @ + 1]
    /\ CallUpdateQueue
    /\ EmitNothing
    /\ UNCHANGED <<waitingJobs, jobRunning, notFoundForAgent, announcing, pinging>>
    /\ UNCHANGED <<registryVars, pingCount, answers>>

\* handle_client_kill_job, for a running job: its agent is asked to kill it.
KillRunningJob(c, j) ==
    /\ Idle
    /\ c \in registeredClients
    /\ ~IsWaiting(j)
    /\ jobRunning[j] # NoAgent
    /\ SendToAgent(jobRunning[j], Message("kill_job", j))
    /\ EmitNothing
    /\ UNCHANGED <<queueVars, registryVars, controlVars, pingCount, answers>>

\* handle_client_kill_job, for a job the backend does not know any more
KillUnknownJob(c, j) ==
    /\ Idle
    /\ c \in registeredClients
    /\ ~IsWaiting(j)
    /\ jobRunning[j] = NoAgent
    /\ EmitNothing
    /\ UNCHANGED <<queueVars, registryVars, controlVars, pingCount, answers, toAgent>>

HandleClientKillJob(c, j) ==
    \/ KillWaitingJob(c, j)
    \/ KillRunningJob(c, j)
    \/ KillUnknownJob(c, j)

\* The snapshot names the agent of every running job by its friendly name,
\* looked up in _registered_agents.
HandleClientGetQueue(c) ==
    /\ Idle
    /\ c \in registeredClients
    /\ \A j \in Jobs : jobRunning[j] \in registeredAgents \cup {NoAgent}
    /\ Emit({c}, [type |-> "queue", running |-> jobRunning, waiting |-> waitingJobs])
    /\ UNCHANGED <<queueVars, registryVars, controlVars, pingCount, answers, toAgent>>

-----------------------------------------------------------------------------
(* update_queue.  It pops the first agent of _available_agents; which one   *)
(* that is depends on the order agents came back in, here it is any.        *)

AssignJob(a) ==
    /\ updating
    /\ availableAgents[a] > 0
    /\ \E i \in DOMAIN waitingJobs :
         /\ FirstFor(i, a)
         /\ waitingJobs' = Without(i)
         /\ jobRunning' = [jobRunning EXCEPT ![waitingJobs[i]] = a]
         /\ SendToAgent(a, Message("new_job", waitingJobs[i]))
    /\ availableAgents' = [availableAgents EXCEPT ![a] = @ - 1]
    /\ EmitNothing
    /\ UNCHANGED <<notFoundForAgent, registryVars, controlVars, pingCount, answers>>

SetAside(a) ==
    /\ updating
    /\ availableAgents[a] > 0
    /\ waitingJobs # <<>>
    /\ NothingFor(a)
    /\ availableAgents' = [availableAgents EXCEPT ![a] = @ - 1]
    /\ notFoundForAgent' = [notFoundForAgent EXCEPT ![a] = @ + 1]
    /\ EmitNothing
    /\ UNCHANGED <<waitingJobs, jobRunning, registryVars, controlVars, pingCount, answers, toAgent>>

\* Mutant of EndUpdateQueue: the agents set aside are forgotten.
EndWithoutThem ==
    /\ updating
    /\ NobodyAvailable \/ waitingJobs = <<>>
    /\ notFoundForAgent' = [a \in Agents |-> 0]
    /\ updating' = FALSE
    /\ announcing' = FALSE
    /\ IF announcing THEN SendContainerUpdate(registeredClients) ELSE EmitNothing
    /\ UNCHANGED <<availableAgents, waitingJobs, jobRunning, pinging>>
    /\ UNCHANGED <<registryVars, pingCount, answers, toAgent>>

\* The agents set aside come back, and handle_agent_hello goes on with the
\* update of the clients when it is the caller.
EndUpdateQueue ==
    /\ updating
    /\ NobodyAvailable \/ waitingJobs = <<>>
    /\ availableAgents' = [a \in Agents |-> availableAgents[a] + notFoundForAgent[a]]
    /\ notFoundForAgent' = [a \in Agents |-> 0]
    /\ updating' = FALSE
    /\ announcing' = FALSE
    /\ IF announcing THEN SendContainerUpdate(registeredClients) ELSE EmitNothing
    /\ UNCHANGED <<waitingJobs, jobRunning, pinging, registryVars, pingCount, answers, toAgent>>

UpdateQueue == EndUpdateQueue \/ \E a \in Agents : AssignJob(a) \/ SetAside(a)

-----------------------------------------------------------------------------
(* Messages of agents.                                                      *)

\* The image ids and the lists of agents kept in _containers are never read
\* but to log a warning: only its keys are kept here.
HandleAgentHello(a) ==
    /\ Idle
    /\ registeredAgents' = registeredAgents \cup {a}
    /\ availableAgents' = [availableAgents EXCEPT ![a] = @ + Slots[a]]
    /\ containersOnAgent' = [containersOnAgent EXCEPT ![a] = Offers[a]]
    /\ containers' = containers \cup Offers[a]
    /\ announcing' = TRUE
    /\ CallUpdateQueue
    /\ EmitNothing
    /\ UNCHANGED <<registeredClients, waitingJobs, jobRunning, notFoundForAgent, pinging>>
    /\ UNCHANGED <<pingCount, answers, toAgent>>

HandleAgentJobStarted(a, j) ==
    /\ Idle
    /\ Emit({Owner[j]}, Message("job_started", j))
    /\ UNCHANGED <<queueVars, registryVars, controlVars, pingCount, answers, toAgent>>

HandleAgentJobSSHDebug(a, j) ==
    /\ Idle
    /\ Emit({Owner[j]}, Message("job_ssh_debug", j))
    /\ UNCHANGED <<queueVars, registryVars, controlVars, pingCount, answers, toAgent>>

\* Mutant of JobDoneByRegistered: the slot is not given back.
JobDoneSlotLost(a, j) ==
    /\ Idle
    /\ a \in registeredAgents
    /\ jobRunning[j] # NoAgent
    /\ jobRunning' = [jobRunning EXCEPT ![j] = NoAgent]
    /\ Emit({Owner[j]}, Message("job_done", j))
    /\ answers' = [answers EXCEPT ![j] = @ + 1]
    /\ CallUpdateQueue
    /\ UNCHANGED <<availableAgents, waitingJobs, notFoundForAgent, announcing, pinging>>
    /\ UNCHANGED <<registryVars, pingCount, toAgent>>

\* handle_agent_job_done, from a registered agent.  The handler deletes the
\* job from _job_running first: a job that is not there is a KeyError, and
\* none of what follows happens (AgentsAgree says it is always there).
JobDoneByRegistered(a, j) ==
    /\ Idle
    /\ a \in registeredAgents
    /\ jobRunning[j] # NoAgent
    /\ jobRunning' = [jobRunning EXCEPT ![j] = NoAgent]
    /\ Emit({Owner[j]}, Message("job_done", j))
    /\ answers' = [answers EXCEPT ![j] = @ + 1]
    /\ availableAgents' = [availableAgents EXCEPT ![a] = @ + 1]
    /\ CallUpdateQueue
    /\ UNCHANGED <<waitingJobs, notFoundForAgent, announcing, pinging>>
    /\ UNCHANGED <<registryVars, pingCount, toAgent>>

\* Mutant of JobDoneByUnregistered: the result is handed on all the same.
HandOnJobDone(a, j) ==
    /\ Idle
    /\ a \notin registeredAgents
    /\ Emit({Owner[j]}, Message("job_done", j))
    /\ answers' = [answers EXCEPT ![j] = @ + 1]
    /\ CallUpdateQueue
    /\ UNCHANGED <<queueVars, announcing, pinging, registryVars, pingCount, toAgent>>

\* handle_agent_job_done, from an agent that was removed: its result is lost.
JobDoneByUnregistered(a, j) ==
    /\ Idle
    /\ a \notin registeredAgents
    /\ CallUpdateQueue
    /\ EmitNothing
    /\ UNCHANGED <<queueVars, announcing, pinging, registryVars, pingCount, answers, toAgent>>

HandleAgentJobDone(a, j) == JobDoneByRegistered(a, j) \/ JobDoneByUnregistered(a, j)

\* _handle_pong.  A Pong touches nothing but pingCount[a], so that its place
\* among the messages of a does not matter: it is handled at any time while a
\* Ping to a has no answer yet.
HandlePong(a) ==
    /\ Idle
    /\ pingCount[a] > 0
    /\ pingCount' = [pingCount EXCEPT ![a] = 0]
    /\ EmitNothing
    /\ UNCHANGED <<queueVars, registryVars, controlVars, answers, toAgent>>

-----------------------------------------------------------------------------
(* _do_ping, called every second: a round looks at every agent registered   *)
(* when it starts.                                                          *)

BeginPing ==
    /\ Idle
    /\ pinging' = registeredAgents
    /\ EmitNothing
    /\ UNCHANGED <<updating, announcing, queueVars, registryVars, pingCount, answers, toAgent>>

\* Mutant of PingAgent: one ping too many.
PingOnceMore(a) ==
    /\ a \in pinging /\ ~updating
    /\ pingCount[a] <= MaxPing + 1
    /\ pingCount' = [pingCount EXCEPT ![a] = @ + 1]
    /\ pinging' = pinging \ {a}
    /\ EmitNothing
    /\ UNCHANGED <<updating, announcing, queueVars, registryVars, answers, toAgent>>

PingAgent(a) ==
    /\ a \in pinging /\ ~updating
    /\ pingCount[a] <= MaxPing
    /\ pingCount' = [pingCount EXCEPT ![a] = @ + 1]
    /\ pinging' = pinging \ {a}
    /\ EmitNothing
    /\ UNCHANGED <<updating, announcing, queueVars, registryVars, answers, toAgent>>

\* Mutant of RemoveAgent: its jobs are not recovered.
RemoveWithItsJobs(a) ==
    /\ a \in pinging /\ ~updating
    /\ pingCount[a] > MaxPing
    /\ availableAgents' = [availableAgents EXCEPT ![a] = 0]
    /\ registeredAgents' = registeredAgents \ {a}
    /\ jobRunning' = [j \in Jobs |-> IF jobRunning[j] = a THEN NoAgent ELSE jobRunning[j]]
    /\ pinging' = pinging \ {a}
    /\ CallUpdateQueue
    /\ EmitNothing
    /\ UNCHANGED <<waitingJobs, notFoundForAgent, announcing, containers, containersOnAgent>>
    /\ UNCHANGED <<registeredClients, pingCount, answers, toAgent>>

\* Mutant of RemoveAgent: its slots stay in _available_agents.
RemoveKeepingSlots(a) ==
    /\ a \in pinging /\ ~updating
    /\ pingCount[a] > MaxPing
    /\ registeredAgents' = registeredAgents \ {a}
    /\ \E order \in Bijection(1..Cardinality(JobsOn(a)), JobsOn(a)) :
         waitingJobs' = waitingJobs \o order
    /\ jobRunning' = [j \in Jobs |-> IF jobRunning[j] = a THEN NoAgent ELSE jobRunning[j]]
    /\ pinging' = pinging \ {a}
    /\ CallUpdateQueue
    /\ EmitNothing
    /\ UNCHANGED <<availableAgents, notFoundForAgent, announcing, containers, containersOnAgent>>
    /\ UNCHANGED <<registeredClients, pingCount, answers, toAgent>>

\* The agent is removed and _recover_jobs puts its jobs back in the queue,
\* behind the others.  Their order is the one of a dict: here, any.
RemoveAgent(a) ==
    /\ a \in pinging /\ ~updating
    /\ pingCount[a] > MaxPing
    /\ availableAgents' = [availableAgents EXCEPT ![a] = 0]
    /\ registeredAgents' = registeredAgents \ {a}
    /\ \E order \in Bijection(1..Cardinality(JobsOn(a)), JobsOn(a)) :
         waitingJobs' = waitingJobs \o order
    /\ jobRunning' = [j \in Jobs |-> IF jobRunning[j] = a THEN NoAgent ELSE jobRunning[j]]
    /\ pinging' = pinging \ {a}
    /\ CallUpdateQueue
    /\ EmitNothing
    /\ UNCHANGED <<notFoundForAgent, announcing, containers, containersOnAgent, registeredClients>>
    /\ UNCHANGED <<pingCount, answers, toAgent>>

DoPing == BeginPing \/ \E a \in Agents : PingAgent(a) \/ RemoveAgent(a)
=============================================================================
