----------------------------- MODULE JobSystem ------------------------------
(***************************************************************************)
(* One frontend process, its client of the backend, the backend and the    *)
(* agents, with the connections between them: the client may reconnect,    *)
(* the link may be lost, the backend may restart.  A job is known to the   *)
(* backend by the address of the connection it was sent over and its id:   *)
(* Jobs = Addresses \X Ids, Clients = Addresses.                           *)
(***************************************************************************)
EXTENDS Backend, Agents, Client

CONSTANTS
    MaxQueue,       \* bound: the timers wait while so many messages are on their way
    AsksQueue,      \* bound: FALSE leaves the requests for the queue out
    MaxKills,       \* bound: jobs the frontend asks to kill
    MaxRestarts     \* bound: restarts of the backend

ASSUME SystemAssumption ==
    /\ Clients = Addresses
    /\ Envs = Env
    /\ Jobs = Addresses \X Ids
    /\ Owner = [j \in Jobs |-> j[1]]
    /\ EnvOf = [j \in Jobs |-> EnvOfId[j[2]]]
    /\ DebugJobs = {j \in Jobs : j[2] \in DebugIds}
    /\ AsksQueue \in BOOLEAN
    /\ {MaxQueue, MaxKills, MaxRestarts} \subseteq Nat

VARIABLES
    killAsked,  \* bound: each job is killed at most once
    restarts    \* bound: restarts of the backend so far

bounds == <<killAsked, restarts>>
clientVars == <<connectionVars, loopVars, jobVars, callbackVars>>
vars == <<backendVars, agentVars, clientVars, channels, bounds>>

Init ==
    /\ BackendInit
    /\ AgentsInit
    /\ ChannelsInit
    /\ ClientInit
    /\ killAsked = {}
    /\ restarts = 0

-----------------------------------------------------------------------------
(* What the backend writes reaches the client if it is for the connection   *)
(* it now has; the ROUTER socket drops what is for an address that is gone. *)

AsReceived(m) ==
    CASE m.type \in {"job_done", "job_started", "job_ssh_debug"} -> ForJob(m.type, m.job[2])
      [] m.type = "update_containers" -> m
      [] OTHER -> Plain(m.type)

Deliver ==
    inbox' = IF address \in clientOut'.to
             THEN [inbox EXCEPT ![address] = Append(@, AsReceived(clientOut'.msg))]
             ELSE inbox

ClientAtRest ==
    UNCHANGED <<address, loopVars, jobVars, callbackVars, bounds>>

BackendAtRest ==
    /\ EmitNothing
    /\ UNCHANGED <<queueVars, registryVars, controlVars, pingCount, answers>>

-----------------------------------------------------------------------------
\* The backend handles the first message sent over the connection c.
HandleClientMessage(c) ==
    /\ toBackend[c] # <<>>
    /\ toBackend' = [toBackend EXCEPT ![c] = Tail(@)]
    /\ LET m == Head(toBackend[c]) IN
         \/ m.type # "hello" /\ RejectUnregistered(c)
         \/ m.type = "hello" /\ HandleClientHello(c)
         \/ m.type = "ping" /\ HandleClientPing(c)
         \/ m.type = "get_queue" /\ HandleClientGetQueue(c)
         \/ m.type = "new_job" /\ HandleClientNewJob(c, <<c, m.id>>)
         \/ m.type = "kill_job" /\ HandleClientKillJob(c, <<c, m.id>>)
    /\ Deliver
    /\ ClientAtRest
    /\ UNCHANGED <<agentVars, fromAgent>>

\* The backend handles the first message of the agent a.
ReceiveFrom(a) ==
    /\ fromAgent[a] # <<>>
    /\ fromAgent' = [fromAgent EXCEPT ![a] = Tail(@)]
    /\ LET m == Head(fromAgent[a]) IN
         \/ m.type = "hello" /\ HandleAgentHello(a)
         \/ m.type = "started" /\ HandleAgentJobStarted(a, m.job)
         \/ m.type = "ssh_debug" /\ HandleAgentJobSSHDebug(a, m.job)
         \/ m.type = "done" /\ HandleAgentJobDone(a, m.job)
    /\ Deliver
    /\ ClientAtRest
    /\ UNCHANGED <<agentVars, toBackend>>

ReceivePong(a) ==
    /\ phase[a] = "up"
    /\ HandlePong(a)
    /\ ClientAtRest
    /\ UNCHANGED <<agentVars, fromAgent, toBackend, inbox>>

BackendStep ==
    /\ UpdateQueue \/ DoPing
    /\ Deliver
    /\ ClientAtRest
    /\ UNCHANGED <<agentVars, fromAgent, toBackend>>

AgentsStep(a) ==
    /\ AgentStep(a)
    /\ BackendAtRest
    /\ ClientAtRest
    /\ UNCHANGED <<toBackend, inbox>>

-----------------------------------------------------------------------------
(* Steps of the frontend process.                                           *)

Others == BackendAtRest /\ UNCHANGED <<agentVars, channels>>

\* A step of the client alone
Alone(step) == step /\ Others /\ UNCHANGED bounds

Request(i) == Alone(RefuseJob(i) \/ RequestJob(i))

AskKill(i) ==
    /\ i \notin killAsked /\ Cardinality(killAsked) < MaxKills
    /\ KillJob(i)
    /\ killAsked' = killAsked \cup {i}
    /\ Others /\ UNCHANGED restarts

LoopStep ==
    \/ Alone(RunSocket)
    \/ Alone(HandleUnknown)
    \/ Alone(PingTooMany)
    \/ \E i \in Ids : Alone(CreateTransaction(i)) \/ Alone(CallBack(i))

\* The two timers; bound: they wait while too much is on its way.
Quiet == Len(toBackend[address]) + Len(inbox[address]) < MaxQueue

PingTimer == Alone(Quiet /\ PingBackend)
QueueTimer == Alone(AsksQueue /\ Quiet /\ AskQueueUpdate)

ThreadStep == \E i \in Ids, w \in Calls :
    Alone(TestCalled(i, w)) \/ Alone(SetCalled(i, w)) \/ Alone(CallSsh(i, w))

-----------------------------------------------------------------------------
\* The link between the client and the backend breaks and is made again.
BreakLink == Alone(LinkLost)

\* The backend stops and starts again, with nothing in memory.  The agents
\* do not notice: they say hello once.  What it had sent to them is lost;
\* what they had not sent yet reaches the new backend.
RestartBackend ==
    /\ restarts < MaxRestarts
    /\ restarts' = restarts + 1
    /\ BackendRestart
    /\ LinkLost
    /\ toAgent' = [a \in Agents |-> <<>>]
    /\ UNCHANGED <<agentVars, fromAgent, killAsked>>

Next ==
    \/ \E c \in Addresses : HandleClientMessage(c)
    \/ \E a \in Agents : ReceiveFrom(a) \/ ReceivePong(a)
    \/ BackendStep
    \/ \E a \in Agents : AgentsStep(a)
    \/ \E i \in Ids : Request(i) \/ AskKill(i)
    \/ LoopStep
    \/ PingTimer
    \/ QueueTimer
    \/ ThreadStep
    \/ BreakLink
    \/ RestartBackend

Spec == Init /\ [][Next]_vars

-----------------------------------------------------------------------------
ToBackendMessages ==
    [type : {"hello", "ping", "get_queue"}] \cup [type : {"new_job", "kill_job"}, id : Ids]

InboxMessages ==
    [type : {"pong", "unknown", "queue"}]
        \cup [type : {"update_containers"}, containers : SUBSET Env]
        \cup [type : {"job_done", "job_started", "job_ssh_debug"}, id : Ids]

TypeOK ==
    /\ ChannelsTypeOK
    /\ AgentsTypeOK
    /\ waitingJobs \in Seq(Jobs)
    /\ jobRunning \in [Jobs -> Agents \cup {NoAgent}]
    /\ address \in Addresses
    /\ toBackend \in [Addresses -> Seq(ToBackendMessages)]
    /\ inbox \in [Addresses -> Seq(InboxMessages)]
    /\ created \subseteq requested /\ requested \subseteq Ids
    /\ transactions \subseteq requested
    /\ listening \in BOOLEAN
    /\ restarting \in Nat
    /\ clientPing \in 0..(MaxClientPing + 1)
    /\ available \subseteq Env
    /\ lastAttempt \in 0..1
    /\ sshThreads \in [Ids -> [Calls -> Progress]]
    /\ sshCalled \in [Ids -> BOOLEAN]
    /\ sshCalls \in [Ids -> Nat]
    /\ callbacks \in [Ids -> Nat]
    /\ killAsked \subseteq requested
    /\ restarts \in 0..MaxRestarts

\* The callback of a job is called once at most, whatever answers, timeouts
\* and reconnections it meets, and when it is called the ssh callback has been
\* called or a thread has set once.called and is about to call it: whoever
\* waits for a debug session learns in the end that there is none.
CalledBackOnce ==
    \A i \in Ids :
        /\ callbacks[i] <= 1
        /\ callbacks[i] > 0 => sshCalls[i] > 0 \/ sshThreads[i]["debug"] = "set"

\* "wrap ssh_callback to ensure it is called at most once" (client.py:283):
\* two threads may both find once.called false.
SshCalledOnce == \A i \in Ids : sshCalls[i] <= 1

On(c, m) == \E k \in DOMAIN toBackend[c] : toBackend[c][k] = m
InInbox(m) == \E k \in DOMAIN inbox[address] : inbox[address][k] = m

\* The backend does not know the client, and will be told so only by the
\* Unknown it gets for an answer.
Forgotten == address \notin registeredClients /\ ~On(address, Plain("hello"))

\* A transaction never waits for nothing: its job is on its way, in the
\* hands of the backend, or answered with the answer on its way, unless the
\* backend has forgotten the client altogether.
NoOrphanTransaction ==
    \A i \in transactions :
        LET j == <<address, i>> IN
        \/ On(address, ForJob("new_job", i))
        \/ IsWaiting(j)
        \/ jobRunning[j] # NoAgent
        \/ InInbox(ForJob("job_done", i))
        \/ Forgotten

-----------------------------------------------------------------------------
(* Fairness.  Both asyncio loops start what is ready in its order, timers    *)
(* go off, threads go on, and live agents read their messages and end their  *)
(* jobs.  Nothing is assumed of the callers of the client, of agents' starts *)
(* and deaths, of links, or of the time an agent takes to answer a ping.     *)
Fairness ==
    /\ SF_vars(\E c \in Addresses : HandleClientMessage(c))
    /\ WF_vars(BackendStep)
    /\ SF_vars(BeginPing /\ BackendStep)
    /\ \A a \in Agents :
         /\ SF_vars(ReceiveFrom(a))
         /\ WF_vars(AgentReceive(a) /\ AgentsStep(a))
         /\ WF_vars((\E j \in held[a] : AgentAnswer(a, j)) /\ AgentsStep(a))
    /\ WF_vars(Alone(RunSocket))
    /\ WF_vars(Alone(HandleUnknown))
    /\ WF_vars(Alone(PingTooMany))
    /\ SF_vars(PingTimer)
    /\ SF_vars(QueueTimer)
    /\ WF_vars(\E i \in Ids : Alone(CreateTransaction(i)))
    /\ WF_vars(\E i \in Ids : Alone(CallBack(i)))
    /\ WF_vars(ThreadStep)

FairSpec == Spec /\ Fairness

\* The model has no connection left for the client to make.
OutOfConnections == address = MaxConnections /\ (~listening \/ Forgotten)

\* The job waits in the backend, and no registered agent offers its
\* environment.
Unserved(i) ==
    /\ IsWaiting(<<address, i>>)
    /\ \A a \in registeredAgents : EnvOfId[i] \notin containersOnAgent[a]

\* A job the client has accepted is called back in the end, through its ssh
\* callback and its callback: with its result or, when the backend has been
\* restarted, or the link or an agent is lost, with an abortion.  It is not
\* only while it waits in the backend for an agent that never comes.
EventuallyCalledBack ==
    \A i \in Ids : i \in requested ~>
        \/ callbacks[i] > 0 /\ sshCalls[i] > 0
        \/ OutOfConnections
        \/ []Unserved(i)

-----------------------------------------------------------------------------
\* `raise Exception("Received message %s for an unknown transaction %s")`:
\* no message comes for a transaction the client does not have.
NoUnknownTransaction == listening
=============================================================================
