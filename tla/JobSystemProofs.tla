-------------------------- MODULE JobSystemProofs ---------------------------
(***************************************************************************)
(* Proofs about a frontend, its client, the backend and the agents         *)
(* together: no transaction of the client is forgotten, and each job is    *)
(* called back once, for any number of jobs, connections, agents, kills    *)
(* and restarts.                                                           *)
(***************************************************************************)
EXTENDS JobSystem, QueueLemmas, FiniteSetTheorems

\* The types of the variables, part by part: TypeOK, with the channels
BackendTypes ==
    /\ waitingJobs \in Seq(Jobs)
    /\ jobRunning \in [Jobs -> Agents \cup {NoAgent}]
    /\ registeredClients \subseteq Addresses
    /\ containers \subseteq Env

ConnectionTypes ==
    /\ address \in Addresses
    /\ toBackend \in [Addresses -> Seq(ToBackendMessages)]
    /\ inbox \in [Addresses -> Seq(InboxMessages)]

LoopTypes ==
    /\ listening \in BOOLEAN
    /\ restarting \in Nat
    /\ clientPing \in 0..(MaxClientPing + 1)
    /\ available \subseteq Env
    /\ lastAttempt \in 0..1

CallTypes ==
    /\ created \subseteq requested /\ requested \subseteq Ids
    /\ transactions \subseteq requested
    /\ sshThreads \in [Ids -> [Calls -> Progress]]
    /\ sshCalled \in [Ids -> BOOLEAN]
    /\ sshCalls \in [Ids -> Nat]
    /\ callbacks \in [Ids -> Nat]
    /\ killAsked \subseteq requested
    /\ restarts \in 0..MaxRestarts

\* The inductive invariant on the types
Types ==
    /\ ChannelsTypeOK /\ AgentsTypeOK
    /\ BackendTypes /\ ConnectionTypes /\ LoopTypes /\ CallTypes

-----------------------------------------------------------------------------
\* hello is the first message of a connection, and nothing is known of a
\* connection that was not made yet.
HelloFirst ==
    /\ \A c \in Addresses : c > address => toBackend[c] = <<>> /\ c \notin registeredClients
    /\ \A k \in DOMAIN toBackend[address] : toBackend[address][k] = Plain("hello") => k = 1
    /\ On(address, Plain("hello")) =>
          /\ address \notin registeredClients
          /\ \A i \in transactions : On(address, ForJob("new_job", i))

\* The inductive invariant on the transactions
OrphanInv == HelloFirst /\ NoOrphanTransaction

\* The ssh callback has been called, or the thread of a session is about to.
SshHeard(i) == sshCalls[i] > 0 \/ sshThreads[i]["debug"] = "set"

\* Where a job is in the client: not requested, on its way to a transaction,
\* in a transaction, ending, or called back.
OnceInv ==
    \A i \in Ids :
        /\ sshCalled[i] => SshHeard(i) \/ sshThreads[i]["final"] = "set"
        /\ sshThreads[i]["final"] = "over" \/ callbacks[i] > 0 => SshHeard(i)
        /\ i \notin requested \/ i \in created \/ i \in transactions =>
              sshThreads[i]["final"] = "none" /\ callbacks[i] = 0
        /\ sshThreads[i]["final"] # "none" => callbacks[i] = 0
        /\ ~(i \in created /\ i \in transactions)
        /\ callbacks[i] <= 1

-----------------------------------------------------------------------------
(* What a handler of the backend does: it keeps its types, sends what the   *)
(* client can read, and does not let go of a job without an answer.         *)

\* The backend has the job: it waits or runs.
InHands(j) == IsWaiting(j) \/ jobRunning[j] # NoAgent

\* What the handler sends, the client can read.
Emits == AsReceived(clientOut'.msg) \in InboxMessages

\* A job leaves the hands of the backend with a job_done for its owner.
Keeps ==
    \A j \in Jobs : InHands(j) =>
        \/ InHands(j)'
        \/ j[1] \in clientOut'.to /\ AsReceived(clientOut'.msg) = ForJob("job_done", j[2])

\* What every handler of the backend does
Served ==
    /\ BackendTypes' /\ toAgent' \in [Agents -> Seq(BackendToAgent)]
    /\ Emits /\ Keeps

\* What the constants are, for the steps below: the jobs of the backend are the
\* pairs of an address and the id the client gave.
LEMMA Constants ==
    /\ IsFiniteSet(Jobs) /\ NoAgent \notin Agents /\ Clients = Addresses /\ Envs = Env
    /\ \A j \in Jobs : j[1] \in Addresses /\ j[2] \in Ids /\ Owner[j] = j[1]
    /\ \A c \in Addresses, i \in Ids : /\ <<c, i>> \in Jobs /\ <<c, i>>[1] = c /\ <<c, i>>[2] = i
                                     /\ Owner[<<c, i>>] = c
    /\ \A a \in Agents : Offers[a] \subseteq Env
    /\ Addresses \subseteq Nat /\ 1 \in Addresses
    /\ MaxClientPing \in Nat /\ MaxRestarts \in Nat /\ MaxConnections \in Nat
BY JobsAssumption, AgentsAssumption, SystemAssumption, ClientAssumption DEF Addresses

\* The messages the handlers send, and what the client makes of them
LEMMA Letters ==
    /\ \A t \in {"new_job", "kill_job"}, j \in Jobs : Message(t, j) \in BackendToAgent
    /\ \A t \in {"job_done", "job_started", "job_ssh_debug"}, j \in Jobs :
          /\ AsReceived(Message(t, j)) = ForJob(t, j[2])
          /\ ForJob(t, j[2]) \in InboxMessages
    /\ AsReceived([type |-> "pong"]) = Plain("pong") /\ Plain("pong") \in InboxMessages
    /\ AsReceived([type |-> "unknown"]) = Plain("unknown") /\ Plain("unknown") \in InboxMessages
    /\ \A r, w : AsReceived([type |-> "queue", running |-> r, waiting |-> w]) = Plain("queue")
    /\ Plain("queue") \in InboxMessages
    /\ \A s \in SUBSET Env : AsReceived([type |-> "update_containers", containers |-> s]) \in InboxMessages
<1>1. \A t \in {"new_job", "kill_job"}, j \in Jobs : Message(t, j) \in BackendToAgent
  BY DEF Message, BackendToAgent
<1>2. \A t \in {"job_done", "job_started", "job_ssh_debug"}, j \in Jobs :
        AsReceived(Message(t, j)) = ForJob(t, j[2]) /\ ForJob(t, j[2]) \in InboxMessages
  BY Constants DEF Message, AsReceived, ForJob, InboxMessages
<1>3. /\ AsReceived([type |-> "pong"]) = Plain("pong") /\ Plain("pong") \in InboxMessages
      /\ AsReceived([type |-> "unknown"]) = Plain("unknown") /\ Plain("unknown") \in InboxMessages
      /\ Plain("queue") \in InboxMessages
  BY DEF AsReceived, Plain, InboxMessages
<1>4. \A r, w : AsReceived([type |-> "queue", running |-> r, waiting |-> w]) = Plain("queue")
  BY DEF AsReceived, Plain
<1>5. \A s \in SUBSET Env : AsReceived([type |-> "update_containers", containers |-> s]) \in InboxMessages
  BY DEF AsReceived, InboxMessages
<1> QED
  BY <1>1, <1>2, <1>3, <1>4, <1>5

\* Removing an entry of a sequence takes no other away.
LEMMA Removal ==
    ASSUME NEW S, NEW s \in Seq(S), NEW i \in DOMAIN s
    PROVE  /\ RemoveAt(s, i) \in Seq(S)
           /\ \A e \in Range(s) : e \in Range(RemoveAt(s, i)) \/ e = s[i]
<1> DEFINE r == RemoveAt(s, i)
<1>1. /\ r \in Seq(S) /\ Len(r) = Len(s) - 1
      /\ \A k \in 1..(Len(s) - 1) : r[k] = IF k < i THEN s[k] ELSE s[k + 1]
  BY SMTT(20), RemoveAtEntries
<1> HIDE DEF r
<1>2. DOMAIN r = 1..(Len(s) - 1) /\ DOMAIN s = 1..Len(s)
  BY <1>1
<1>3. ASSUME NEW m \in DOMAIN s, m # i PROVE \E k \in DOMAIN r : r[k] = s[m]
  <2>1. CASE m < i
    <3>1. m \in DOMAIN r /\ r[m] = s[m]
      BY <1>1, <1>2, <2>1
    <3> QED
      BY <3>1
  <2>2. CASE m > i
    <3>1. m - 1 \in DOMAIN r /\ r[m - 1] = s[m]
      BY <1>1, <1>2, <2>2
    <3> QED
      BY <3>1
  <2> QED
    BY <1>2, <1>3, <2>1, <2>2
<1>4. \A e \in Range(s) : e \in Range(r) \/ e = s[i]
  BY <1>3 DEF Range
<1> QED
  BY <1>1, <1>4 DEF r

\* Nothing the client waits for changes.
LEMMA QuietStep ==
    ASSUME Types, UNCHANGED <<waitingJobs, jobRunning, registeredClients, containers>>
    PROVE  BackendTypes' /\ Keeps
BY DEF Types, BackendTypes, Keeps, InHands, IsWaiting

\* A message to an agent leaves the channels in their types.
LEMMA ToAgentSent ==
    ASSUME Types, NEW a \in Agents, NEW m \in BackendToAgent, SendToAgent(a, m)
    PROVE  toAgent' \in [Agents -> Seq(BackendToAgent)]
BY DEF Types, ChannelsTypeOK, SendToAgent

\* A client that has not said hello is told so.
LEMMA RejectServes ==
    ASSUME Types, NEW c \in Addresses, RejectUnregistered(c)
    PROVE  Served
<1> USE DEF queueVars, registryVars, controlVars, Emit, EmitNothing, Silent
<1>1. UNCHANGED <<waitingJobs, jobRunning, registeredClients, containers, toAgent>>
  BY DEF RejectUnregistered
<1>2. Emits
  BY Letters, Constants DEF Emits, RejectUnregistered
<1> QED
  BY <1>1, <1>2, QuietStep DEF Served, Types, ChannelsTypeOK

\* A ping of a client is answered.
LEMMA PingServes ==
    ASSUME Types, NEW c \in Addresses, HandleClientPing(c)
    PROVE  Served
<1> USE DEF queueVars, registryVars, controlVars, Emit, EmitNothing, Silent
<1>1. UNCHANGED <<waitingJobs, jobRunning, registeredClients, containers, toAgent>>
  BY DEF HandleClientPing
<1>2. Emits
  BY Letters, Constants DEF Emits, HandleClientPing
<1> QED
  BY <1>1, <1>2, QuietStep DEF Served, Types, ChannelsTypeOK

\* The queue is sent.
LEMMA GetQueueServes ==
    ASSUME Types, NEW c \in Addresses, HandleClientGetQueue(c)
    PROVE  Served
<1> USE DEF queueVars, registryVars, controlVars, Emit, EmitNothing, Silent
<1>1. UNCHANGED <<waitingJobs, jobRunning, registeredClients, containers, toAgent>>
  BY DEF HandleClientGetQueue
<1>2. Emits
  BY Letters, Constants DEF Emits, HandleClientGetQueue
<1> QED
  BY <1>1, <1>2, QuietStep DEF Served, Types, ChannelsTypeOK

\* A job has started.
LEMMA StartedServes ==
    ASSUME Types, NEW a \in Agents, NEW j \in Jobs, HandleAgentJobStarted(a, j)
    PROVE  Served
<1> USE DEF queueVars, registryVars, controlVars, Emit, EmitNothing, Silent
<1>1. UNCHANGED <<waitingJobs, jobRunning, registeredClients, containers, toAgent>>
  BY DEF HandleAgentJobStarted
<1>2. Emits
  BY Letters, Constants DEF Emits, HandleAgentJobStarted
<1> QED
  BY <1>1, <1>2, QuietStep DEF Served, Types, ChannelsTypeOK

\* A session can be opened.
LEMMA SSHServes ==
    ASSUME Types, NEW a \in Agents, NEW j \in Jobs, HandleAgentJobSSHDebug(a, j)
    PROVE  Served
<1> USE DEF queueVars, registryVars, controlVars, Emit, EmitNothing, Silent
<1>1. UNCHANGED <<waitingJobs, jobRunning, registeredClients, containers, toAgent>>
  BY DEF HandleAgentJobSSHDebug
<1>2. Emits
  BY Letters, Constants DEF Emits, HandleAgentJobSSHDebug
<1> QED
  BY <1>1, <1>2, QuietStep DEF Served, Types, ChannelsTypeOK

\* The result of an agent that was removed is lost.
LEMMA LostServes ==
    ASSUME Types, NEW a \in Agents, NEW j \in Jobs, JobDoneByUnregistered(a, j)
    PROVE  Served
<1> USE DEF queueVars, registryVars, controlVars, Emit, EmitNothing, Silent
<1>1. UNCHANGED <<waitingJobs, jobRunning, registeredClients, containers, toAgent>>
  BY DEF JobDoneByUnregistered
<1>2. Emits
  BY Letters, Constants DEF Emits, JobDoneByUnregistered
<1> QED
  BY <1>1, <1>2, QuietStep DEF Served, Types, ChannelsTypeOK

\* An agent answers a ping.
LEMMA PongServes ==
    ASSUME Types, NEW a \in Agents, HandlePong(a)
    PROVE  Served
<1> USE DEF queueVars, registryVars, controlVars, Emit, EmitNothing, Silent
<1>1. UNCHANGED <<waitingJobs, jobRunning, registeredClients, containers, toAgent>>
  BY DEF HandlePong
<1>2. Emits
  BY Letters, Constants DEF Emits, HandlePong
<1> QED
  BY <1>1, <1>2, QuietStep DEF Served, Types, ChannelsTypeOK

\* A round of pings begins.
LEMMA BeginServes ==
    ASSUME Types, BeginPing
    PROVE  Served
<1> USE DEF queueVars, registryVars, controlVars, Emit, EmitNothing, Silent
<1>1. UNCHANGED <<waitingJobs, jobRunning, registeredClients, containers, toAgent>>
  BY DEF BeginPing
<1>2. Emits
  BY Letters, Constants DEF Emits, BeginPing
<1> QED
  BY <1>1, <1>2, QuietStep DEF Served, Types, ChannelsTypeOK

\* An agent is pinged.
LEMMA PingAgentServes ==
    ASSUME Types, NEW a \in Agents, PingAgent(a)
    PROVE  Served
<1> USE DEF queueVars, registryVars, controlVars, Emit, EmitNothing, Silent
<1>1. UNCHANGED <<waitingJobs, jobRunning, registeredClients, containers, toAgent>>
  BY DEF PingAgent
<1>2. Emits
  BY Letters, Constants DEF Emits, PingAgent
<1> QED
  BY <1>1, <1>2, QuietStep DEF Served, Types, ChannelsTypeOK

\* An agent is set aside.
LEMMA SetAsideServes ==
    ASSUME Types, NEW a \in Agents, SetAside(a)
    PROVE  Served
<1> USE DEF queueVars, registryVars, controlVars, Emit, EmitNothing, Silent
<1>1. UNCHANGED <<waitingJobs, jobRunning, registeredClients, containers, toAgent>>
  BY DEF SetAside
<1>2. Emits
  BY Letters, Constants DEF Emits, SetAside
<1> QED
  BY <1>1, <1>2, QuietStep DEF Served, Types, ChannelsTypeOK

\* update_queue ends.
LEMMA EndServes ==
    ASSUME Types, EndUpdateQueue
    PROVE  Served
<1> USE DEF queueVars, registryVars, controlVars, Emit, EmitNothing, Silent
<1>1. UNCHANGED <<waitingJobs, jobRunning, registeredClients, containers, toAgent>>
  BY DEF EndUpdateQueue, SendContainerUpdate, Types, BackendTypes
<1>2. Emits
  BY Letters, Constants DEF Emits, EndUpdateQueue, SendContainerUpdate, Types, BackendTypes
<1> QED
  BY <1>1, <1>2, QuietStep DEF Served, Types, ChannelsTypeOK

\* A client says hello.
LEMMA HelloServes ==
    ASSUME Types, NEW c \in Addresses, HandleClientHello(c)
    PROVE  Served
<1> USE DEF queueVars, registryVars, controlVars, Emit, EmitNothing, Silent
<1>1. UNCHANGED <<waitingJobs, jobRunning, containers, toAgent>> /\ registeredClients' = registeredClients \cup {c}
  BY DEF HandleClientHello
<1>2. Emits
  BY Letters, Constants DEF Emits, HandleClientHello, SendContainerUpdate, Types, BackendTypes
<1> QED
  BY <1>1, <1>2 DEF Served, Types, ChannelsTypeOK, BackendTypes, Keeps, InHands, IsWaiting

\* A job is queued.
LEMMA NewJobServes ==
    ASSUME Types, NEW c \in Addresses, NEW j \in Jobs, HandleClientNewJob(c, j)
    PROVE  Served
<1> USE DEF queueVars, registryVars, controlVars, Emit, EmitNothing, Silent
<1>1. UNCHANGED <<jobRunning, registeredClients, containers, toAgent>> /\ waitingJobs' = Append(waitingJobs, j)
  BY DEF HandleClientNewJob
<1>2. Emits
  BY Letters DEF Emits, HandleClientNewJob
<1>3. waitingJobs' \in Seq(Jobs) /\ Range(waitingJobs) \subseteq Range(waitingJobs') /\ j \in Range(waitingJobs')
  BY <1>1, ChannelSent DEF Types, BackendTypes, Has, Range
<1> QED
  BY <1>1, <1>2, <1>3 DEF Served, Types, ChannelsTypeOK, BackendTypes, Keeps, InHands, IsWaiting

\* A job is killed: it is answered if it waits.
LEMMA KillServes ==
    ASSUME Types, NEW c \in Addresses, NEW i \in Ids, HandleClientKillJob(c, <<c, i>>)
    PROVE  Served
<1> USE DEF queueVars, registryVars, controlVars, Emit, EmitNothing, Silent
<1> DEFINE j == <<c, i>>
<1>1. j \in Jobs /\ j[1] = c /\ j[2] = i
  BY Constants
<1> HIDE DEF j
<1>2. CASE KillWaitingJob(c, j)
  <2>1. PICK k \in DOMAIN waitingJobs : waitingJobs[k] = j /\ waitingJobs' = RemoveAt(waitingJobs, k)
    BY <1>2 DEF KillWaitingJob, Without
  <2>2. /\ UNCHANGED <<jobRunning, registeredClients, containers, toAgent>>
        /\ clientOut'.to = {c} /\ clientOut'.msg = Message("job_done", j)
    BY <1>2 DEF KillWaitingJob
  <2>3. waitingJobs' \in Seq(Jobs) /\ \A m \in Jobs : IsWaiting(m) => IsWaiting(m)' \/ m = j
    BY <2>1, Removal DEF IsWaiting, Types, BackendTypes
  <2>4. AsReceived(clientOut'.msg) = ForJob("job_done", j[2]) /\ Emits
    BY <1>1, <2>2, Letters DEF Emits
  <2> QED
    BY <1>1, <2>2, <2>3, <2>4 DEF Served, Types, ChannelsTypeOK, BackendTypes, Keeps, InHands
<1>3. CASE KillRunningJob(c, j)
  <2>1. /\ UNCHANGED <<waitingJobs, jobRunning, registeredClients, containers>> /\ jobRunning[j] # NoAgent
        /\ SendToAgent(jobRunning[j], Message("kill_job", j))
    BY <1>3 DEF KillRunningJob
  <2>2. Emits
    BY <1>3, Letters DEF Emits, KillRunningJob
  <2>3. jobRunning[j] \in Agents /\ Message("kill_job", j) \in BackendToAgent
    BY <1>1, <2>1, Letters DEF Types, BackendTypes
  <2> QED
    BY <2>1, <2>2, <2>3, QuietStep, ToAgentSent DEF Served
<1>4. CASE KillUnknownJob(c, j)
  <2>1. UNCHANGED <<waitingJobs, jobRunning, registeredClients, containers, toAgent>>
    BY <1>4 DEF KillUnknownJob
  <2>2. Emits
    BY <1>4, Letters DEF Emits, KillUnknownJob
  <2> QED
    BY <2>1, <2>2, QuietStep DEF Served, Types, ChannelsTypeOK
<1> QED
  BY <1>2, <1>3, <1>4 DEF HandleClientKillJob, j

\* An agent says hello.
LEMMA AgentHelloServes ==
    ASSUME Types, NEW a \in Agents, HandleAgentHello(a)
    PROVE  Served
<1> USE DEF queueVars, registryVars, controlVars, Emit, EmitNothing, Silent
<1>1. UNCHANGED <<waitingJobs, jobRunning, registeredClients, toAgent>> /\ containers' = containers \cup Offers[a]
  BY DEF HandleAgentHello
<1>2. Emits
  BY Letters DEF Emits, HandleAgentHello
<1> QED
  BY <1>1, <1>2, Constants DEF Served, Types, ChannelsTypeOK, BackendTypes, Keeps, InHands, IsWaiting

\* A result is handed over.
LEMMA DoneServes ==
    ASSUME Types, NEW a \in Agents, NEW j \in Jobs, JobDoneByRegistered(a, j)
    PROVE  Served
<1> USE DEF queueVars, registryVars, controlVars, Emit, EmitNothing, Silent
<1>1. /\ UNCHANGED <<waitingJobs, registeredClients, containers, toAgent>>
      /\ jobRunning' = [jobRunning EXCEPT ![j] = NoAgent]
      /\ clientOut'.to = {Owner[j]} /\ clientOut'.msg = Message("job_done", j)
  BY DEF JobDoneByRegistered
<1>2. Emits /\ AsReceived(clientOut'.msg) = ForJob("job_done", j[2]) /\ j[1] \in clientOut'.to
  BY <1>1, Letters, Constants DEF Emits
<1>3. \A k \in Jobs : k # j => jobRunning'[k] = jobRunning[k]
  BY <1>1 DEF Types, BackendTypes
<1> QED
  BY <1>1, <1>2, <1>3 DEF Served, Types, ChannelsTypeOK, BackendTypes, Keeps, InHands, IsWaiting

\* A job is assigned.
LEMMA AssignServes ==
    ASSUME Types, NEW a \in Agents, AssignJob(a)
    PROVE  Served
<1> USE DEF queueVars, registryVars, controlVars, Emit, EmitNothing, Silent
<1>1. PICK i \in DOMAIN waitingJobs :
        /\ waitingJobs' = RemoveAt(waitingJobs, i) /\ jobRunning' = [jobRunning EXCEPT ![waitingJobs[i]] = a]
        /\ SendToAgent(a, Message("new_job", waitingJobs[i]))
  BY DEF AssignJob, Without
<1>2. PICK j \in Jobs : j = waitingJobs[i]
  BY DEF Types, BackendTypes
<1>3. UNCHANGED <<registeredClients, containers>> /\ Emits
  BY Letters DEF AssignJob, Emits
<1>4. toAgent' \in [Agents -> Seq(BackendToAgent)]
  BY <1>1, <1>2, Letters, ToAgentSent
<1>5. waitingJobs' \in Seq(Jobs) /\ \A m \in Jobs : IsWaiting(m) => IsWaiting(m)' \/ m = j
  BY <1>1, <1>2, Removal DEF IsWaiting, Types, BackendTypes
<1>6. /\ jobRunning' \in [Jobs -> Agents \cup {NoAgent}] /\ jobRunning'[j] = a /\ a # NoAgent
      /\ \A k \in Jobs : k # j => jobRunning'[k] = jobRunning[k]
  BY <1>1, <1>2, Constants DEF Types, BackendTypes
<1> QED
  BY <1>3, <1>4, <1>5, <1>6 DEF Served, Types, BackendTypes, Keeps, InHands

\* An agent is removed: its jobs are queued again.
LEMMA RemoveServes ==
    ASSUME Types, NEW a \in Agents, RemoveAgent(a)
    PROVE  Served
<1> USE DEF queueVars, registryVars, controlVars, Emit, EmitNothing, Silent
<1> DEFINE T == JobsOn(a)
           n == Cardinality(T)
<1>1. PICK order \in Bijection(1..n, T) : waitingJobs' = waitingJobs \o order
  BY DEF RemoveAgent
<1>2. T \subseteq Jobs /\ n \in Nat /\ \A j \in Jobs : j \in T <=> jobRunning[j] = a
  <2>1. T \subseteq Jobs
    BY DEF JobsOn
  <2>2. IsFiniteSet(T)
    BY <2>1, Constants, FS_Subset
  <2> QED
    BY <2>1, <2>2, FS_CardinalityType DEF JobsOn
<1>3. /\ UNCHANGED <<registeredClients, containers, toAgent>> /\ Emits
      /\ jobRunning' = [j \in Jobs |-> IF jobRunning[j] = a THEN NoAgent ELSE jobRunning[j]]
  BY Letters DEF RemoveAgent, Emits
<1> HIDE DEF T, n
<1>4. order \in Seq(Jobs) /\ Range(order) = T
  BY <1>2 DEF Bijection, Injection, Surjection, Range
<1>5. waitingJobs' \in Seq(Jobs) /\ Range(waitingJobs') = Range(waitingJobs) \cup T
  BY <1>1, <1>4, RangeConcatenation DEF Types, BackendTypes
<1>6. \A j \in Jobs : InHands(j) => InHands(j)'
  BY <1>2, <1>3, <1>5 DEF InHands, IsWaiting
<1> QED
  BY <1>3, <1>5, <1>6 DEF Served, Types, ChannelsTypeOK, BackendTypes, Keeps

-----------------------------------------------------------------------------
(* Types.                                                                   *)

\* The fields of the messages of each channel
LEMMA MessageTypes ==
    /\ \A m \in ToBackendMessages : m.type \in {"new_job", "kill_job"} => m.id \in Ids
    /\ \A m \in AgentToBackend : m.type \in {"started", "ssh_debug", "done"} => m.job \in Jobs
    /\ \A m \in BackendToAgent : m.job \in Jobs
    /\ \A m \in InboxMessages :
          /\ m.type \in {"job_done", "job_started", "job_ssh_debug"} => m.id \in Ids /\ m = ForJob(m.type, m.id)
          /\ m.type = "update_containers" => m.containers \subseteq Env
    /\ \A i \in Ids : ForJob("new_job", i) \in ToBackendMessages /\ ForJob("kill_job", i) \in ToBackendMessages
    /\ \A t \in {"hello", "ping", "get_queue"} : Plain(t) \in ToBackendMessages
    /\ \A i \in Ids : ForJob("new_job", i) # Plain("hello") /\ ForJob("kill_job", i) # Plain("hello")
    /\ Plain("ping") # Plain("hello") /\ Plain("get_queue") # Plain("hello")
<1>1. /\ \A m \in ToBackendMessages : m.type \in {"new_job", "kill_job"} => m.id \in Ids
      /\ \A m \in AgentToBackend : m.type \in {"started", "ssh_debug", "done"} => m.job \in Jobs
      /\ \A m \in BackendToAgent : m.job \in Jobs
  BY DEF ToBackendMessages, AgentToBackend, BackendToAgent
<1>2. \A m \in InboxMessages :
        /\ m.type \in {"job_done", "job_started", "job_ssh_debug"} => m.id \in Ids /\ m = ForJob(m.type, m.id)
        /\ m.type = "update_containers" => m.containers \subseteq Env
  BY DEF InboxMessages, ForJob
<1>3. /\ \A i \in Ids : ForJob("new_job", i) \in ToBackendMessages /\ ForJob("kill_job", i) \in ToBackendMessages
      /\ \A t \in {"hello", "ping", "get_queue"} : Plain(t) \in ToBackendMessages
  BY DEF ToBackendMessages, ForJob, Plain
<1>4. \A t, u : Plain(t).type = t /\ (Plain(t) = Plain(u) => t = u)
  BY DEF Plain
<1>5. \A t, i : ForJob(t, i).type = t
  BY DEF ForJob
<1>6. /\ \A i \in Ids : ForJob("new_job", i) # Plain("hello") /\ ForJob("kill_job", i) # Plain("hello")
      /\ Plain("ping") # Plain("hello") /\ Plain("get_queue") # Plain("hello")
  BY <1>4, <1>5
<1> QED
  BY <1>1, <1>2, <1>3, <1>6

\* The handlers of a client's messages
LEMMA ClientMessageServes ==
    ASSUME Types, NEW c \in Addresses, HandleClientMessage(c)
    PROVE  Served
<1> DEFINE m == Head(toBackend[c])
<1>1. m \in ToBackendMessages
  BY DEF HandleClientMessage, Types, ConnectionTypes
<1>2. CASE m.type \in {"new_job", "kill_job"}
  <2>1. m.id \in Ids /\ <<c, m.id>> \in Jobs
    BY <1>1, <1>2, MessageTypes, Constants
  <2> QED
    BY <1>2, <2>1, RejectServes, NewJobServes, KillServes DEF HandleClientMessage
<1>3. CASE m.type \notin {"new_job", "kill_job"}
  BY <1>3, RejectServes, HelloServes, PingServes, GetQueueServes DEF HandleClientMessage
<1> QED
  BY <1>2, <1>3

\* The handlers of an agent's messages
LEMMA AgentMessageServes ==
    ASSUME Types, NEW a \in Agents, ReceiveFrom(a)
    PROVE  Served
<1> DEFINE m == Head(fromAgent[a])
<1>1. m \in AgentToBackend
  BY DEF ReceiveFrom, Types, ChannelsTypeOK
<1>2. CASE m.type \in {"started", "ssh_debug", "done"}
  <2>1. m.job \in Jobs
    BY <1>1, <1>2, MessageTypes
  <2> QED
    BY <1>2, <2>1, StartedServes, SSHServes, DoneServes, LostServes DEF ReceiveFrom, HandleAgentJobDone
<1>3. CASE m.type \notin {"started", "ssh_debug", "done"}
  BY <1>3, AgentHelloServes DEF ReceiveFrom
<1> QED
  BY <1>2, <1>3

\* The steps of update_queue and of the ping coroutine
LEMMA BackendServes ==
    ASSUME Types, UpdateQueue \/ DoPing
    PROVE  Served
BY EndServes, AssignServes, SetAsideServes, BeginServes, PingAgentServes, RemoveServes
   DEF UpdateQueue, DoPing

\* A message that the client can read is delivered.
LEMMA Delivered ==
    ASSUME Types, Emits, Deliver
    PROVE  inbox' \in [Addresses -> Seq(InboxMessages)]
BY DEF Types, ConnectionTypes, Emits, Deliver

\* A step of an agent keeps the types.
LEMMA AgentTypes ==
    ASSUME Types, NEW a \in Agents, AgentStep(a)
    PROVE  AgentsTypeOK' /\ ChannelsTypeOK'
<1> USE DEF Types, AgentsTypeOK, ChannelsTypeOK, Phases
<1>1. CASE AgentStart(a)
  <2>1. Message("hello", NoJob) \in AgentToBackend
    BY DEF Message, AgentToBackend
  <2> QED
    BY <1>1, <2>1 DEF AgentStart, SendToBackend
<1>2. CASE AgentReceiveJob(a)
  <2>1. Head(toAgent[a]).job \in Jobs /\ Tail(toAgent[a]) \in Seq(BackendToAgent)
    BY <1>2, MessageTypes DEF AgentReceiveJob
  <2>2. NoticesFor(a, Head(toAgent[a]).job) \subseteq Notices
    BY DEF NoticesFor
  <2> QED
    BY <1>2, <2>1, <2>2 DEF AgentReceiveJob
<1>3. CASE AgentReceiveKill(a)
  BY <1>3 DEF AgentReceiveKill
<1>4. ASSUME NEW n \in notices[a], AgentNotify(a, n) PROVE AgentsTypeOK' /\ ChannelsTypeOK'
  <2>1. n \in Notices /\ n \in AgentToBackend
    BY DEF Notices, AgentToBackend
  <2> QED
    BY <1>4, <2>1 DEF AgentNotify, SendToBackend
<1>5. ASSUME NEW j \in held[a], AgentAnswer(a, j) PROVE AgentsTypeOK' /\ ChannelsTypeOK'
  <2>1. Message("done", j) \in AgentToBackend
    BY DEF Message, AgentToBackend
  <2> QED
    BY <1>5, <2>1 DEF AgentAnswer, SendToBackend
<1>6. CASE AgentCrash(a)
  BY <1>6 DEF AgentCrash
<1> QED
  BY <1>1, <1>2, <1>3, <1>4, <1>5, <1>6 DEF AgentStep, AgentReceive

\* The client sends over its connection.
LEMMA SendingTypes ==
    ASSUME Types, NEW m \in ToBackendMessages, SendToBackendFrom(address, m)
    PROVE  toBackend' \in [Addresses -> Seq(ToBackendMessages)]
BY DEF Types, ConnectionTypes, SendToBackendFrom

\* Jobs that end leave the ssh threads in their type.
LEMMA EndJobsTypes ==
    ASSUME Types, NEW S, EndJobs(S)
    PROVE  sshThreads' \in [Ids -> [Calls -> Progress]]
BY DEF Types, CallTypes, EndJobs, Calls, Progress

\* A new connection keeps the types.
LEMMA ReconnectTypes ==
    ASSUME Types, Reconnect
    PROVE  /\ ConnectionTypes' /\ transactions' = {} /\ sshThreads' \in [Ids -> [Calls -> Progress]]
           /\ listening' \in BOOLEAN /\ clientPing' \in 0..(MaxClientPing + 1)
           /\ available' \subseteq Env /\ lastAttempt' \in 0..1
<1>1. address + 1 \in Addresses /\ address' = address + 1
  BY Constants DEF Reconnect, Types, ConnectionTypes, Addresses
<1>2. toBackend' \in [Addresses -> Seq(ToBackendMessages)]
  BY <1>1, MessageTypes DEF Reconnect, SendToBackendFrom, Types, ConnectionTypes
<1>3. inbox' \in [Addresses -> Seq(InboxMessages)]
  BY DEF Reconnect, Types, ConnectionTypes
<1>4. sshThreads' \in [Ids -> [Calls -> Progress]]
  BY EndJobsTypes DEF Reconnect
<1>5. ConnectionTypes'
  BY <1>1, <1>2, <1>3 DEF ConnectionTypes
<1>6. transactions' = {}
  BY DEF Reconnect
<1>7. listening' \in BOOLEAN /\ clientPing' \in 0..(MaxClientPing + 1)
  BY Constants DEF Reconnect, Types, LoopTypes
<1>8. available' \subseteq Env /\ lastAttempt' \in 0..1
  BY DEF Reconnect, Types, LoopTypes
<1> QED
  BY <1>4, <1>5, <1>6, <1>7, <1>8

\* A function updated at two places
LEMMA TwoUpdates ==
    ASSUME NEW D, NEW S, NEW f \in [D -> S], NEW a \in D, NEW b \in D, a # b, NEW x \in S, NEW y \in S
    PROVE  LET g == [f EXCEPT ![a] = x, ![b] = y] IN
           /\ g \in [D -> S] /\ g[a] = x /\ g[b] = y
           /\ \A c \in D \ {a, b} : g[c] = f[c]
OBVIOUS

\* A lost connection keeps the types: a prefix of what was sent arrives.
LEMMA LinkTypes ==
    ASSUME Types, LinkLost
    PROVE  ConnectionTypes'
<1>1. address + 1 \in Addresses /\ address' = address + 1 /\ address \in Addresses
  BY Constants DEF LinkLost, Types, ConnectionTypes, Addresses
<1>2. toBackend' \in [Addresses -> Seq(ToBackendMessages)]
  <2>1. PICK sent \in 0..Len(toBackend[address]) :
          toBackend' = [toBackend EXCEPT ![address] = <<>>,
               ![address + 1] = SubSeq(toBackend[address], sent + 1, Len(toBackend[address]))]
    BY DEF LinkLost
  <2> DEFINE rest == SubSeq(toBackend[address], sent + 1, Len(toBackend[address]))
  <2>2. rest \in Seq(ToBackendMessages)
    BY <1>1 DEF Types, ConnectionTypes
  <2>3. toBackend' = [toBackend EXCEPT ![address] = <<>>, ![address + 1] = rest]
    BY <2>1
  <2> HIDE DEF rest
  <2> QED
    <3>1. toBackend \in [Addresses -> Seq(ToBackendMessages)] /\ <<>> \in Seq(ToBackendMessages) /\ address # address + 1
      BY <1>1, Constants DEF ConnectionTypes, Types
    <3> QED
      BY <1>1, <2>2, <2>3, <3>1, TwoUpdates
<1>3. inbox' \in [Addresses -> Seq(InboxMessages)]
  <2>1. PICK received \in 0..Len(inbox[address]) :
          inbox' = [inbox EXCEPT ![address] = <<>>, ![address + 1] = SubSeq(inbox[address], 1, received)]
    BY DEF LinkLost
  <2> DEFINE rest == SubSeq(inbox[address], 1, received)
  <2>2. rest \in Seq(InboxMessages)
    BY <1>1 DEF Types, ConnectionTypes
  <2>3. inbox' = [inbox EXCEPT ![address] = <<>>, ![address + 1] = rest]
    BY <2>1
  <2> HIDE DEF rest
  <2> QED
    <3>1. inbox \in [Addresses -> Seq(InboxMessages)] /\ <<>> \in Seq(InboxMessages) /\ address # address + 1
      BY <1>1, Constants DEF ConnectionTypes, Types
    <3> QED
      BY <1>1, <2>2, <2>3, <3>1, TwoUpdates
<1> QED
  BY <1>1, <1>2, <1>3 DEF ConnectionTypes

\* The client reads a message.
LEMMA ReadTypes ==
    ASSUME Types, RunSocket, UNCHANGED bounds
    PROVE  ConnectionTypes' /\ LoopTypes' /\ CallTypes'
<1> DEFINE m == Head(inbox[address])
<1> USE DEF loopVars, jobVars, callbackVars, bounds, Received
<1>1. /\ inbox[address] # <<>> /\ inbox' = [inbox EXCEPT ![address] = Tail(@)]
      /\ UNCHANGED <<address, toBackend, created, requested, sshCalled, sshCalls, callbacks, bounds>>
  BY DEF RunSocket, Read, ReadJobDone, ReadJobStarted, ReadJobSSHDebug,
         ReadForUnknownTransaction, ReadPong, ReadUnknown, ReadUpdateContainers, ReadQueue
<1>2. m \in InboxMessages /\ ConnectionTypes'
  BY <1>1 DEF Types, ConnectionTypes
<1>3. /\ m.type \in {"job_done", "job_started", "job_ssh_debug"} => m.id \in Ids
      /\ m.type = "update_containers" => m.containers \subseteq Env
  BY <1>2, MessageTypes
<1>4. sshThreads' \in [Ids -> [Calls -> Progress]] /\ transactions' \subseteq transactions
  <2>1. CASE ReadJobDone
    BY <2>1, EndJobsTypes DEF ReadJobDone
  <2>2. CASE ReadJobSSHDebug
    BY <1>3, <2>2 DEF ReadJobSSHDebug, Types, CallTypes, Calls, Progress
  <2>3. CASE UNCHANGED <<sshThreads, transactions>>
    BY <2>3 DEF Types, CallTypes
  <2> QED
    BY <2>1, <2>2, <2>3 DEF RunSocket, ReadJobStarted, ReadForUnknownTransaction, ReadPong, ReadUnknown,
       ReadUpdateContainers, ReadQueue
<1>5. CallTypes'
  BY <1>1, <1>4 DEF Types, CallTypes
<1>6. LoopTypes'
  <2>1. clientPing' \in {0, clientPing} /\ lastAttempt' \in {0, lastAttempt} /\ listening' \in BOOLEAN
    BY DEF RunSocket, Types, LoopTypes, ReadJobDone, ReadJobStarted, ReadJobSSHDebug,
       ReadForUnknownTransaction, ReadPong, ReadUnknown, ReadUpdateContainers, ReadQueue
  <2>2. restarting' \in Nat
    BY DEF RunSocket, Types, LoopTypes, ReadJobDone, ReadJobStarted, ReadJobSSHDebug,
       ReadForUnknownTransaction, ReadPong, ReadUnknown, ReadUpdateContainers, ReadQueue
  <2>3. available' \subseteq Env
    BY <1>3 DEF RunSocket, Types, LoopTypes, ReadJobDone, ReadJobStarted, ReadJobSSHDebug,
       ReadForUnknownTransaction, ReadPong, ReadUnknown, ReadUpdateContainers, ReadQueue
  <2> QED
    BY <2>1, <2>2, <2>3, Constants DEF Types, LoopTypes
<1> QED
  BY <1>2, <1>5, <1>6

-----------------------------------------------------------------------------
\* Every step of the system keeps the types.
LEMMA TypesKept ==
    ASSUME Types, [Next]_vars
    PROVE  Types'
<1> USE DEF clientVars, connectionVars, loopVars, jobVars, callbackVars, bounds
<1>1. ASSUME Served, Deliver, ClientAtRest, UNCHANGED <<agentVars, toBackend>>,
             fromAgent' \in [Agents -> Seq(AgentToBackend)]
      PROVE  Types'
  <2>1. inbox' \in [Addresses -> Seq(InboxMessages)]
    BY <1>1, Delivered DEF Served
  <2> QED
    BY <1>1, <2>1 DEF Served, ClientAtRest, agentVars, Types, ChannelsTypeOK, AgentsTypeOK, ConnectionTypes,
       LoopTypes, CallTypes
<1>2. ASSUME NEW c \in Addresses, HandleClientMessage(c) PROVE Types'
  <2>1. Served /\ Deliver /\ ClientAtRest /\ UNCHANGED <<agentVars, fromAgent>>
    BY <1>2, ClientMessageServes DEF HandleClientMessage
  <2>2. toBackend' \in [Addresses -> Seq(ToBackendMessages)]
    BY <1>2 DEF HandleClientMessage, Types, ConnectionTypes
  <2>3. inbox' \in [Addresses -> Seq(InboxMessages)]
    BY <2>1, Delivered DEF Served
  <2> QED
    BY <2>1, <2>2, <2>3 DEF Served, ClientAtRest, agentVars, Types, ChannelsTypeOK, AgentsTypeOK,
       ConnectionTypes, LoopTypes, CallTypes
<1>3. ASSUME NEW a \in Agents, ReceiveFrom(a) PROVE Types'
  <2>1. fromAgent' \in [Agents -> Seq(AgentToBackend)]
    BY <1>3 DEF ReceiveFrom, Types, ChannelsTypeOK
  <2> QED
    BY <1>1, <1>3, <2>1, AgentMessageServes DEF ReceiveFrom
<1>4. ASSUME NEW a \in Agents, ReceivePong(a) PROVE Types'
  <2>1. Served
    BY <1>4, PongServes DEF ReceivePong
  <2> QED
    BY <1>4, <2>1 DEF ReceivePong, Served, ClientAtRest, agentVars, Types, ChannelsTypeOK, AgentsTypeOK,
       ConnectionTypes, LoopTypes, CallTypes
<1>5. CASE BackendStep
  BY <1>1, <1>5, BackendServes DEF BackendStep, Types, ChannelsTypeOK
<1>6. ASSUME NEW a \in Agents, AgentsStep(a) PROVE Types'
  BY <1>6, AgentTypes DEF AgentsStep, BackendAtRest, ClientAtRest, queueVars, registryVars, Types,
     BackendTypes, ConnectionTypes, LoopTypes, CallTypes
<1>7. ASSUME Others, ConnectionTypes', LoopTypes', CallTypes' PROVE Types'
  BY <1>7 DEF Others, BackendAtRest, queueVars, registryVars, agentVars, channels, Types, BackendTypes,
     ChannelsTypeOK, AgentsTypeOK
<1>8. ASSUME NEW i \in Ids, Request(i) PROVE Types'
  <2>1. ConnectionTypes' /\ LoopTypes'
    BY <1>8 DEF Request, Alone, RefuseJob, RequestJob, Types, ConnectionTypes, LoopTypes
  <2>2. ASSUME Alone(RefuseJob(i)) PROVE CallTypes'
    <3>1. sshCalled' \in [Ids -> BOOLEAN] /\ sshCalls' \in [Ids -> Nat] /\ callbacks' \in [Ids -> Nat]
      BY <2>2 DEF Alone, RefuseJob, Types, CallTypes
    <3> QED
      BY <2>2, <3>1 DEF Alone, RefuseJob, Types, CallTypes
  <2>3. ASSUME Alone(RequestJob(i)) PROVE CallTypes'
    BY <2>3 DEF Alone, RequestJob, Types, CallTypes
  <2>4. Others /\ (RefuseJob(i) \/ RequestJob(i)) /\ UNCHANGED bounds
    BY <1>8 DEF Request, Alone
  <2> QED
    BY <1>7, <1>8, <2>1, <2>2, <2>3, <2>4 DEF Request, Alone
<1>9. ASSUME NEW i \in Ids, AskKill(i) PROVE Types'
  <2>1. toBackend' \in [Addresses -> Seq(ToBackendMessages)]
    BY <1>9, SendingTypes, MessageTypes DEF AskKill, KillJob
  <2>2. ConnectionTypes' /\ LoopTypes' /\ CallTypes'
    BY <1>9, <2>1 DEF AskKill, KillJob, Types, ConnectionTypes, LoopTypes, CallTypes
  <2> QED
    BY <1>7, <1>9, <2>2 DEF AskKill
<1>10. CASE Alone(RunSocket)
  BY <1>7, <1>10, ReadTypes DEF Alone
<1>11. CASE Alone(HandleUnknown) \/ Alone(PingTooMany)
  <2>1. Reconnect /\ restarting' \in Nat /\ UNCHANGED bounds /\ Others
    BY <1>11 DEF Alone, HandleUnknown, PingTooMany, Types, LoopTypes
  <2>2. LoopTypes' /\ CallTypes' /\ ConnectionTypes'
    BY <2>1, ReconnectTypes DEF Reconnect, Types, LoopTypes, CallTypes
  <2> QED
    BY <1>7, <2>1, <2>2
<1>12. ASSUME NEW i \in Ids, Alone(CreateTransaction(i)) PROVE Types'
  <2>1. toBackend' \in [Addresses -> Seq(ToBackendMessages)]
    BY <1>12, SendingTypes, MessageTypes DEF Alone, CreateTransaction
  <2>2. ConnectionTypes' /\ LoopTypes' /\ CallTypes'
    BY <1>12, <2>1 DEF Alone, CreateTransaction, Types, ConnectionTypes, LoopTypes, CallTypes
  <2> QED
    BY <1>7, <1>12, <2>2 DEF Alone
<1>13. ASSUME NEW i \in Ids, Alone(CallBack(i)) PROVE Types'
  <2>1. ConnectionTypes' /\ LoopTypes' /\ CallTypes'
    BY <1>13 DEF Alone, CallBack, Types, ConnectionTypes, LoopTypes, CallTypes, Calls, Progress
  <2> QED
    BY <1>7, <1>13, <2>1 DEF Alone
<1>14. CASE PingTimer \/ QueueTimer
  <2>1. toBackend' \in [Addresses -> Seq(ToBackendMessages)]
    BY <1>14, SendingTypes, MessageTypes DEF PingTimer, QueueTimer, Alone, PingBackend, AskQueueUpdate
  <2>3. clientPing' \in 0..(MaxClientPing + 1) /\ lastAttempt' \in 0..1
    BY <1>14, Constants DEF PingTimer, QueueTimer, Alone, PingBackend, AskQueueUpdate, Types, LoopTypes
  <2>2. ConnectionTypes' /\ LoopTypes' /\ CallTypes'
    BY <1>14, <2>1, <2>3 DEF PingTimer, QueueTimer, Alone, PingBackend, AskQueueUpdate, Types,
       ConnectionTypes, LoopTypes, CallTypes
  <2> QED
    BY <1>7, <1>14, <2>2 DEF PingTimer, QueueTimer, Alone
<1>15. ASSUME NEW i \in Ids, NEW w \in Calls,
              Alone(TestCalled(i, w)) \/ Alone(SetCalled(i, w)) \/ Alone(CallSsh(i, w))
       PROVE  Types'
  <2>2. sshThreads' \in [Ids -> [Calls -> Progress]]
    <3>1. PICK p \in Progress : sshThreads' = [sshThreads EXCEPT ![i][w] = p]
      BY <1>15 DEF Alone, TestCalled, SetCalled, CallSsh, Progress
    <3> QED
      BY <3>1 DEF Types, CallTypes
  <2>3. sshCalled' \in [Ids -> BOOLEAN] /\ sshCalls' \in [Ids -> Nat]
    <3>1. CASE Alone(TestCalled(i, w))
      BY <3>1 DEF Alone, TestCalled, Types, CallTypes
    <3>2. CASE Alone(CallSsh(i, w))
      BY <3>2 DEF Alone, CallSsh, Types, CallTypes
    <3>3. CASE Alone(SetCalled(i, w))
      BY <3>3 DEF Alone, SetCalled, Types, CallTypes
    <3> QED
      BY <1>15, <3>1, <3>2, <3>3
  <2>1. ConnectionTypes' /\ LoopTypes' /\ CallTypes'
    BY <1>15, <2>2, <2>3 DEF Alone, TestCalled, SetCalled, CallSsh, Types, ConnectionTypes, LoopTypes, CallTypes
  <2> QED
    BY <1>7, <1>15, <2>1 DEF Alone
<1>16. CASE BreakLink
  <2>1. ConnectionTypes' /\ LoopTypes' /\ CallTypes'
    BY <1>16, LinkTypes DEF BreakLink, Alone, LinkLost, Types, LoopTypes, CallTypes
  <2> QED
    BY <1>7, <1>16, <2>1 DEF BreakLink, Alone
<1>17. CASE RestartBackend
  <2>1. ConnectionTypes' /\ LoopTypes' /\ CallTypes'
    <3>1. restarts' \in 0..MaxRestarts
      BY <1>17, Constants DEF RestartBackend, Types, CallTypes
    <3> QED
      BY <1>17, <3>1, LinkTypes DEF RestartBackend, LinkLost, Types, LoopTypes, CallTypes
  <2>2. BackendTypes'
    BY <1>17 DEF RestartBackend, BackendRestart, BackendTypes
  <2>3. AgentsTypeOK' /\ ChannelsTypeOK'
    BY <1>17 DEF RestartBackend, agentVars, Types, AgentsTypeOK, ChannelsTypeOK
  <2> QED
    BY <2>1, <2>2, <2>3 DEF Types
<1>18. CASE UNCHANGED vars
  BY <1>18 DEF vars, backendVars, queueVars, registryVars, agentVars, channels, Types, BackendTypes,
     ChannelsTypeOK, AgentsTypeOK, ConnectionTypes, LoopTypes, CallTypes
<1> QED
  BY <1>2, <1>3, <1>4, <1>5, <1>6, <1>8, <1>9, <1>10, <1>11, <1>12, <1>13, <1>14, <1>15, <1>16, <1>17, <1>18
     DEF Next, LoopStep, ThreadStep

\* The types hold at first.
LEMMA TypesInit ==
    ASSUME Init
    PROVE  Types
<1> USE DEF Init
<1>1. ChannelsTypeOK /\ AgentsTypeOK
  BY DEF ChannelsInit, AgentsInit, ChannelsTypeOK, AgentsTypeOK, Phases
<1>2. BackendTypes
  BY DEF BackendInit, BackendTypes
<1>3. ConnectionTypes
  BY Constants, MessageTypes DEF ClientInit, ConnectionTypes
<1>4. LoopTypes
  BY Constants DEF ClientInit, LoopTypes
<1>5. CallTypes
  BY Constants DEF ClientInit, CallTypes, Progress
<1> QED
  BY <1>1, <1>2, <1>3, <1>4, <1>5 DEF Types

\* The inductive invariant on the types: whatever a handler sends is a message
\* its reader handles, and names a job that was requested.
THEOREM TypesInvariant == Spec => []Types
BY TypesInit, TypesKept, PTL DEF Spec

\* The variables of the client, the backend and the agents stay in their types.
THEOREM TypeCorrect == Spec => []TypeOK
<1>1. Types => TypeOK
  BY DEF Types, TypeOK, BackendTypes, ConnectionTypes, LoopTypes, CallTypes
<1> QED
  BY <1>1, TypesInvariant, PTL

-----------------------------------------------------------------------------
(* Callbacks.                                                               *)

\* The variables OnceInv is about
OnceVars == <<created, transactions, requested, callbackVars>>

\* A job whose end starts has had none before.
LEMMA EndJobsOnce ==
    ASSUME Types, OnceInv, NEW S \in SUBSET transactions, EndJobs(S), transactions' = transactions \ S,
           UNCHANGED <<created, requested, sshCalled, sshCalls, callbacks>>
    PROVE  OnceInv'
<1> SUFFICES ASSUME NEW i \in Ids
             PROVE  (/\ sshCalled[i] => SshHeard(i) \/ sshThreads[i]["final"] = "set"
                     /\ sshThreads[i]["final"] = "over" \/ callbacks[i] > 0 => SshHeard(i)
                     /\ i \notin requested \/ i \in created \/ i \in transactions =>
                           sshThreads[i]["final"] = "none" /\ callbacks[i] = 0
                     /\ sshThreads[i]["final"] # "none" => callbacks[i] = 0
                     /\ ~(i \in created /\ i \in transactions)
                     /\ callbacks[i] <= 1)'
  BY DEF OnceInv
<1>1. CASE i \in S
  <2>1. sshThreads'[i]["final"] = "queued" /\ sshThreads'[i]["debug"] = sshThreads[i]["debug"]
    BY <1>1 DEF EndJobs, Types, CallTypes, Calls
  <2>2. i \in transactions /\ i \in requested /\ i \notin transactions'
    BY <1>1 DEF Types, CallTypes
  <2> QED
    BY <1>1, <2>1, <2>2 DEF OnceInv, SshHeard
<1>2. CASE i \notin S
  <2>1. sshThreads'[i] = sshThreads[i] /\ (i \in transactions' <=> i \in transactions)
    BY <1>2 DEF EndJobs
  <2> QED
    BY <2>1 DEF OnceInv, SshHeard
<1> QED
  BY <1>1, <1>2

\* A job_done ends a transaction, and starts the calls of its job.
LEMMA OnceReads ==
    ASSUME Types, OnceInv, RunSocket
    PROVE  OnceInv'
<1> USE DEF jobVars, callbackVars, Received
<1>1. Head(inbox[address]) \in InboxMessages
  BY DEF RunSocket, Read, Types, ConnectionTypes, ReadJobDone, ReadJobStarted, ReadJobSSHDebug,
         ReadForUnknownTransaction, ReadPong, ReadUnknown, ReadUpdateContainers, ReadQueue
<1>2. CASE ReadJobDone
  BY <1>2, EndJobsOnce DEF ReadJobDone
<1>3. CASE ReadJobSSHDebug
  <2>1. PICK i \in Ids : /\ sshThreads' = [sshThreads EXCEPT ![i]["debug"] = "queued"]
                          /\ sshThreads[i]["debug"] # "set"
    BY <1>1, <1>3, MessageTypes DEF ReadJobSSHDebug
  <2>2. \A k \in Ids : /\ sshThreads'[k]["final"] = sshThreads[k]["final"]
                        /\ sshThreads[k]["debug"] = "set" => sshThreads'[k]["debug"] = "set"
    BY <2>1 DEF Types, CallTypes, Calls
  <2> QED
    BY <1>3, <2>2 DEF ReadJobSSHDebug, OnceInv, SshHeard
<1>4. CASE UNCHANGED OnceVars
  BY <1>4 DEF OnceVars, OnceInv, SshHeard
<1> QED
  BY <1>2, <1>3, <1>4 DEF RunSocket, ReadJobStarted, ReadForUnknownTransaction, ReadPong, ReadUnknown,
     ReadUpdateContainers, ReadQueue, OnceVars

\* Every step of the system keeps OnceInv.
LEMMA OnceKept ==
    ASSUME Types, OnceInv, [Next]_vars
    PROVE  OnceInv'
<1> USE DEF clientVars, jobVars, callbackVars
<1>1. CASE UNCHANGED OnceVars
  BY <1>1 DEF OnceVars, OnceInv, SshHeard
<1>2. ASSUME NEW i \in Ids, RefuseJob(i) PROVE OnceInv'
  <2>1. /\ sshCalls'[i] = sshCalls[i] + 1 /\ callbacks'[i] = callbacks[i] + 1 /\ i \notin requested /\ i \in requested'
        /\ sshCalls[i] \in Nat
        /\ \A k \in Ids : k # i => /\ sshCalls'[k] = sshCalls[k] /\ callbacks'[k] = callbacks[k]
                                /\ sshCalled'[k] = sshCalled[k] /\ (k \in requested' <=> k \in requested)
    BY <1>2 DEF RefuseJob, Types, CallTypes
  <2>2. UNCHANGED <<created, transactions, sshThreads>> /\ i \notin created /\ i \notin transactions
    BY <1>2 DEF RefuseJob, Types, CallTypes
  <2> QED
    BY <2>1, <2>2 DEF OnceInv, SshHeard
<1>3. ASSUME NEW i \in Ids, RequestJob(i) PROVE OnceInv'
  <2>1. i \notin requested /\ i \notin transactions
    BY <1>3 DEF RequestJob, Types, CallTypes
  <2> QED
    BY <1>3, <2>1 DEF RequestJob, OnceInv, SshHeard
<1>4. ASSUME NEW i \in Ids, CreateTransaction(i) PROVE OnceInv'
  BY <1>4 DEF CreateTransaction, OnceInv, SshHeard, Types, CallTypes
<1>5. CASE RunSocket
  BY <1>5, OnceReads
<1>6. CASE Reconnect
  BY <1>6, EndJobsOnce DEF Reconnect
<1>7. ASSUME NEW i \in Ids, NEW w \in Calls, TestCalled(i, w) PROVE OnceInv'
  <2>1. /\ w = "final" \/ sshThreads'[i]["final"] = sshThreads[i]["final"]
        /\ \A k \in Ids : k # i => sshThreads'[k] = sshThreads[k]
        /\ w = "final" => sshThreads'[i]["final"] = IF sshCalled[i] THEN "over" ELSE "passed"
    BY <1>7 DEF TestCalled, Types, CallTypes, Calls
  <2>2. /\ w = "final" => sshThreads[i]["final"] = "queued"
        /\ sshThreads[i]["debug"] = "set" => sshThreads'[i]["debug"] = "set"
    BY <1>7 DEF TestCalled, Types, CallTypes, Calls
  <2> QED
    BY <1>7, <2>1, <2>2 DEF TestCalled, OnceInv, SshHeard
<1>8. ASSUME NEW i \in Ids, NEW w \in Calls, CallSsh(i, w) PROVE OnceInv'
  <2>1. /\ w = "final" \/ sshThreads'[i]["final"] = sshThreads[i]["final"]
        /\ \A k \in Ids : k # i => sshThreads'[k] = sshThreads[k]
        /\ w = "final" => sshThreads'[i]["final"] = "over" /\ sshThreads[i]["final"] = "set"
    BY <1>8 DEF CallSsh, Types, CallTypes, Calls
  <2>2. /\ sshCalls'[i] > 0
        /\ \A k \in Ids : k # i => sshCalls'[k] = sshCalls[k]
    BY <1>8 DEF CallSsh, Types, CallTypes
  <2> QED
    BY <1>8, <2>1, <2>2 DEF CallSsh, OnceInv, SshHeard
<1>9. ASSUME NEW i \in Ids, CallBack(i) PROVE OnceInv'
  <2>1. /\ sshThreads[i]["final"] = "over" /\ sshThreads'[i]["final"] = "none"
        /\ \A k \in Ids : k # i => sshThreads'[k] = sshThreads[k]
    BY <1>9 DEF CallBack, Types, CallTypes, Calls
  <2>3. sshThreads'[i]["debug"] = sshThreads[i]["debug"]
    BY <1>9 DEF CallBack, Types, CallTypes, Calls
  <2>2. callbacks[i] = 0 /\ callbacks'[i] = 1 /\ \A k \in Ids : k # i => callbacks'[k] = callbacks[k]
    BY <1>9, <2>1 DEF CallBack, Types, CallTypes, OnceInv
  <2> QED
    BY <1>9, <2>1, <2>2, <2>3 DEF CallBack, OnceInv, SshHeard
<1>17. ASSUME NEW i \in Ids, NEW w \in Calls, SetCalled(i, w) PROVE OnceInv'
  <2>1. /\ sshThreads'[i][w] = "set" /\ sshThreads[i][w] = "passed"
        /\ \A k \in Calls : k # w => sshThreads'[i][k] = sshThreads[i][k]
        /\ \A k \in Ids : k # i => sshThreads'[k] = sshThreads[k] /\ sshCalled'[k] = sshCalled[k]
    BY <1>17 DEF SetCalled, Types, CallTypes
  <2>2. w = "final" \/ w = "debug"
    BY <1>17 DEF Calls
  <2>3. CASE w = "final"
    <3>1. sshThreads'[i]["final"] = "set" /\ sshThreads'[i]["debug"] = sshThreads[i]["debug"]
      BY <2>1, <2>3 DEF Calls
    <3> QED
      BY <1>17, <2>1, <2>3, <3>1 DEF SetCalled, OnceInv, SshHeard
  <2>4. CASE w = "debug"
    <3>1. sshThreads'[i]["debug"] = "set" /\ sshThreads'[i]["final"] = sshThreads[i]["final"]
      BY <2>1, <2>4 DEF Calls
    <3> QED
      BY <1>17, <2>1, <2>4, <3>1 DEF SetCalled, OnceInv, SshHeard
  <2> QED
    BY <2>2, <2>3, <2>4
<1>10. ASSUME NEW i \in Ids, Request(i) PROVE OnceInv'
  BY <1>2, <1>3, <1>10 DEF Request, Alone
<1>11. ASSUME NEW i \in Ids, AskKill(i) PROVE OnceInv'
  BY <1>1, <1>11 DEF AskKill, KillJob, OnceVars
<1>12. CASE LoopStep
  BY <1>4, <1>5, <1>6, <1>9, <1>12 DEF LoopStep, Alone, HandleUnknown, PingTooMany
<1>13. CASE ThreadStep
  BY <1>7, <1>8, <1>13, <1>17 DEF ThreadStep, Alone
<1>14. CASE PingTimer \/ QueueTimer \/ BreakLink \/ RestartBackend
  BY <1>1, <1>14 DEF PingTimer, QueueTimer, BreakLink, RestartBackend, Alone, PingBackend, AskQueueUpdate,
     LinkLost, OnceVars
<1>15. ASSUME ClientAtRest PROVE OnceInv'
  BY <1>1, <1>15 DEF ClientAtRest, OnceVars
<1>16. CASE UNCHANGED vars
  BY <1>1, <1>16 DEF vars, OnceVars
<1> QED
  BY <1>10, <1>11, <1>12, <1>13, <1>14, <1>15, <1>16
     DEF Next, HandleClientMessage, ReceiveFrom, ReceivePong, BackendStep, AgentsStep

\* The callback of each job is called once at most, whatever answers, aborts,
\* kills and reconnections it meets, and not before its ssh callback has been
\* called or is about to be by the thread of a session.
THEOREM OneCallback == Spec => []CalledBackOnce
<1>1. Init => OnceInv
  BY DEF Init, ClientInit, OnceInv, SshHeard, Calls
<1>2. OnceInv => CalledBackOnce
  BY DEF OnceInv, SshHeard, CalledBackOnce
<1> QED
  BY <1>1, <1>2, OnceKept, TypesInvariant, PTL DEF Spec

-----------------------------------------------------------------------------
(* Transactions.                                                            *)

\* The job of i over the current connection is on its way, in the hands of the
\* backend, or answered.
Cared(i) ==
    \/ On(address, ForJob("new_job", i))
    \/ InHands(<<address, i>>)
    \/ InInbox(ForJob("job_done", i))

\* NoOrphanTransaction in terms of Cared and Forgotten
LEMMA OrphanIs == NoOrphanTransaction <=> \A i \in transactions : Cared(i) \/ Forgotten
BY DEF NoOrphanTransaction, Cared, InHands

\* Which clients are registered only changes when one says hello.
LEMMA RegisteredStay ==
    ASSUME Types
    PROVE  /\ \A a \in Agents : ReceiveFrom(a) => UNCHANGED registeredClients
           /\ BackendStep => UNCHANGED registeredClients
           /\ \A c \in Addresses : HandleClientMessage(c) =>
                IF Head(toBackend[c]).type = "hello" THEN registeredClients' = registeredClients \cup {c}
                                                     ELSE UNCHANGED registeredClients
<1> USE DEF registryVars
<1>1. ASSUME NEW a \in Agents, ReceiveFrom(a) PROVE UNCHANGED registeredClients
  BY <1>1 DEF ReceiveFrom, HandleAgentHello, HandleAgentJobStarted, HandleAgentJobSSHDebug, HandleAgentJobDone,
     JobDoneByRegistered, JobDoneByUnregistered
<1>2. ASSUME BackendStep PROVE UNCHANGED registeredClients
  BY <1>2 DEF BackendStep, UpdateQueue, DoPing, EndUpdateQueue, AssignJob, SetAside, BeginPing, PingAgent, RemoveAgent
<1>3. ASSUME NEW c \in Addresses, HandleClientMessage(c)
      PROVE  IF Head(toBackend[c]).type = "hello" THEN registeredClients' = registeredClients \cup {c}
                                                  ELSE UNCHANGED registeredClients
  BY <1>3 DEF HandleClientMessage, RejectUnregistered, HandleClientHello, HandleClientPing, HandleClientGetQueue,
     HandleClientNewJob, HandleClientKillJob, KillWaitingJob, KillRunningJob, KillUnknownJob
<1> QED
  BY <1>1, <1>2, <1>3

\* A step of the backend hands a job over to the next place, or its answer
\* reaches the inbox.
LEMMA HandedOver ==
    ASSUME Types, Served, Deliver, UNCHANGED address, NEW i \in Ids, InHands(<<address, i>>)
    PROVE  InHands(<<address, i>>)' \/ InInbox(ForJob("job_done", i))'
<1> DEFINE j == <<address, i>>
<1>1. j \in Jobs /\ j[1] = address /\ j[2] = i
  BY Constants DEF Types, ConnectionTypes
<1>2. CASE InHands(j)'
  BY <1>2
<1>3. CASE j[1] \in clientOut'.to /\ AsReceived(clientOut'.msg) = ForJob("job_done", j[2])
  <2>1. inbox'[address] = Append(inbox[address], ForJob("job_done", i)) /\ inbox[address] \in Seq(InboxMessages)
    BY <1>1, <1>3 DEF Deliver, Types, ConnectionTypes
  <2>2. ForJob("job_done", i) \in InboxMessages
    BY <1>1, Letters
  <2>3. Has(inbox'[address], ForJob("job_done", i))
    BY <2>1, <2>2, ChannelSent
  <2> QED
    BY <2>3 DEF Has, InInbox
<1> QED
  BY <1>1, <1>2, <1>3 DEF Served, Keeps

\* What is in the inbox stays there, when the backend writes to it.
LEMMA StaysInInbox ==
    ASSUME Types, Emits, Deliver, UNCHANGED address, NEW m, InInbox(m)
    PROVE  InInbox(m)'
<1>1. address \in Addresses /\ inbox[address] \in Seq(InboxMessages) /\ Has(inbox[address], m)
  BY DEF Types, ConnectionTypes, InInbox, Has
<1>2. CASE inbox' = inbox
  BY <1>2 DEF InInbox
<1>3. CASE inbox' = [inbox EXCEPT ![address] = Append(@, AsReceived(clientOut'.msg))]
  <2>1. inbox'[address] = Append(inbox[address], AsReceived(clientOut'.msg))
    BY <1>1, <1>3 DEF Types, ConnectionTypes
  <2>2. Has(inbox'[address], m)
    BY <1>1, <2>1, ChannelSent DEF Emits
  <2> QED
    BY <2>2 DEF Has, InInbox
<1> QED
  BY <1>2, <1>3 DEF Deliver

\* A message from an agent, or a step of the backend by itself
LEMMA BackendOrphan ==
    ASSUME Types, OrphanInv, Served, Deliver, ClientAtRest, UNCHANGED <<toBackend, registeredClients>>
    PROVE  OrphanInv'
<1> USE DEF jobVars
<1>1. UNCHANGED <<address, toBackend, registeredClients, transactions>>
  BY DEF ClientAtRest
<1>2. \A m : On(address, m)' <=> On(address, m)
  BY <1>1 DEF On
<1>3. HelloFirst'
  BY <1>1, <1>2 DEF OrphanInv, HelloFirst, On
<1>4. ASSUME NEW i \in transactions, Cared(i) PROVE Cared(i)'
  <2>1. i \in Ids
    BY DEF Types, CallTypes
  <2>2. CASE On(address, ForJob("new_job", i))
    BY <1>2, <2>2 DEF Cared
  <2>3. CASE InHands(<<address, i>>)
    BY <1>1, <2>1, <2>3, HandedOver DEF Cared
  <2>4. CASE InInbox(ForJob("job_done", i))
    BY <1>1, <2>4, StaysInInbox DEF Cared, Served
  <2> QED
    BY <1>4, <2>2, <2>3, <2>4 DEF Cared
<1>5. Forgotten' <=> Forgotten
  BY <1>1, <1>2 DEF Forgotten
<1> QED
  BY <1>1, <1>3, <1>4, <1>5, OrphanIs DEF OrphanInv, NoOrphanTransaction, Cared, InHands

\* What the messages over a connection are
LEMMA Kinds ==
    \A m \in ToBackendMessages :
        /\ m.type = "hello" <=> m = Plain("hello")
        /\ m.type = "new_job" <=> \E i \in Ids : m = ForJob("new_job", i)
        /\ m.type = "new_job" => m = ForJob("new_job", m.id)
BY DEF ToBackendMessages, Plain, ForJob

\* A message of the client
LEMMA MessageOrphan ==
    ASSUME Types, OrphanInv, NEW c \in Addresses, HandleClientMessage(c)
    PROVE  OrphanInv'
<1> USE DEF jobVars
<1> DEFINE m == Head(toBackend[c])
<1>1. /\ Served /\ Deliver /\ UNCHANGED <<address, transactions>> /\ address \in Addresses
      /\ toBackend[c] # <<>> /\ toBackend' = [toBackend EXCEPT ![c] = Tail(@)]
  BY ClientMessageServes DEF HandleClientMessage, ClientAtRest, Types, ConnectionTypes
<1>2. /\ toBackend[c] \in Seq(ToBackendMessages) /\ m \in ToBackendMessages
      /\ toBackend'[c] = Tail(toBackend[c]) /\ \A b \in Addresses : b # c => toBackend'[b] = toBackend[b]
      /\ c \in Nat /\ address \in Nat /\ Addresses \subseteq Nat
  BY <1>1, Constants DEF Types, ConnectionTypes
<1>3. ~(c > address)
  BY <1>1 DEF OrphanInv, HelloFirst
<1>4. registeredClients' = IF m.type = "hello" THEN registeredClients \cup {c} ELSE registeredClients
  BY RegisteredStay
<1>5. \A b \in Addresses : b > address' => toBackend'[b] = <<>> /\ b \notin registeredClients'
  BY <1>1, <1>2, <1>3, <1>4 DEF OrphanInv, HelloFirst
<1>6. ASSUME NEW i \in transactions, InHands(<<address, i>>) \/ InInbox(ForJob("job_done", i)) PROVE Cared(i)'
  <2>1. i \in Ids
    BY DEF Types, CallTypes
  <2> QED
    BY <1>1, <1>6, <2>1, HandedOver, StaysInInbox DEF Cared, Served
<1>7. CASE c # address
  <2>1. toBackend'[address] = toBackend[address] /\ (address \in registeredClients' <=> address \in registeredClients)
    BY <1>1, <1>2, <1>4, <1>7
  <2>2. \A n : On(address, n)' <=> On(address, n)
    BY <1>1, <2>1 DEF On
  <2>3. HelloFirst'
    BY <1>1, <1>5, <2>1, <2>2 DEF OrphanInv, HelloFirst
  <2>4. Forgotten' <=> Forgotten
    BY <1>1, <2>1, <2>2 DEF Forgotten
  <2>5. \A i \in transactions' : Cared(i)' \/ Forgotten'
    BY <1>1, <1>6, <2>2, <2>4, OrphanIs DEF OrphanInv, Cared
  <2> QED
    BY <2>3, <2>5 DEF OrphanInv, NoOrphanTransaction, Cared, InHands
<1>8. CASE c = address
  <2>1. /\ \A n : On(address, n) <=> Has(toBackend[address], n)
        /\ \A n : On(address, n)' <=> Has(Tail(toBackend[address]), n)
    BY <1>1, <1>2, <1>8 DEF On, Has
  <2>2. \A n : On(address, n) <=> On(address, n)' \/ n = m
    BY <1>1, <1>2, <1>8, <2>1, ChannelRead
  <2>3. ~On(address, Plain("hello"))' /\ \A k \in DOMAIN toBackend'[address'] : toBackend'[address'][k] # Plain("hello")
    <3>1. Once(toBackend[address], Plain("hello"))
      BY DEF OrphanInv, HelloFirst, Once
    <3>2. Has(toBackend[address], Plain("hello")) => m = Plain("hello")
      BY <1>2, <1>8 DEF OrphanInv, HelloFirst, Has
    <3>3. ~Has(Tail(toBackend[address]), Plain("hello"))
      BY <1>1, <1>2, <1>8, <3>1, <3>2, ChannelRead
    <3> QED
      BY <1>1, <1>2, <1>8, <2>1, <3>3 DEF Has
  <2>4. HelloFirst'
    BY <1>5, <2>3 DEF HelloFirst
  <2>5. ASSUME NEW i \in transactions PROVE Cared(i)' \/ Forgotten'
    <3>1. i \in Ids
      BY DEF Types, CallTypes
    <3>2. CASE m.type = "hello"
      <4>1. On(address, Plain("hello")) /\ m # ForJob("new_job", i)
        BY <1>2, <2>2, <3>1, <3>2, Kinds, MessageTypes
      <4>2. On(address, ForJob("new_job", i))
        BY <4>1 DEF OrphanInv, HelloFirst
      <4> QED
        BY <2>2, <4>1, <4>2 DEF Cared
    <3>3. CASE m.type # "hello" /\ address \notin registeredClients
      BY <1>1, <1>4, <2>3, <3>3 DEF Forgotten
    <3>4. CASE m.type # "hello" /\ address \in registeredClients
      <4>1. Cared(i)
        BY <3>4, OrphanIs DEF OrphanInv, Forgotten
      <4>2. CASE On(address, ForJob("new_job", i)) /\ m # ForJob("new_job", i)
        BY <2>2, <4>2 DEF Cared
      <4>3. CASE m = ForJob("new_job", i)
        <5>1. m.type = "new_job" /\ m.id = i
          BY <4>3 DEF ForJob
        <5>2. HandleClientNewJob(c, <<c, i>>)
          BY <1>8, <3>4, <5>1 DEF HandleClientMessage, RejectUnregistered
        <5>3. waitingJobs' = Append(waitingJobs, <<c, i>>) /\ <<c, i>> \in Jobs
          BY <3>1, <5>2, Constants DEF HandleClientNewJob
        <5>4. Has(waitingJobs', <<c, i>>)
          BY <5>3, ChannelSent DEF Types, BackendTypes
        <5> QED
          BY <1>1, <1>8, <5>4 DEF Cared, InHands, IsWaiting, Has, Range
      <4> QED
        BY <1>6, <4>1, <4>2, <4>3 DEF Cared
    <3> QED
      BY <3>2, <3>3, <3>4
  <2> QED
    BY <1>1, <2>4, <2>5 DEF OrphanInv, NoOrphanTransaction, Cared, InHands
<1> QED
  BY <1>7, <1>8

\* The variables OrphanInv is about
OrphanVars == <<address, toBackend, inbox, transactions, waitingJobs, jobRunning, registeredClients>>

\* A step of the callbacks of the client changes nothing.
LEMMA OrphanFrame ==
    ASSUME OrphanInv, UNCHANGED OrphanVars
    PROVE  OrphanInv'
BY DEF OrphanVars, OrphanInv, HelloFirst, NoOrphanTransaction, On, InInbox, IsWaiting, Forgotten

\* The client sends a message other than hello, and may open a transaction
\* with it.
LEMMA SendingOrphan ==
    ASSUME Types, OrphanInv, NEW m \in ToBackendMessages, m # Plain("hello"), SendToBackendFrom(address, m),
           UNCHANGED <<address, inbox, waitingJobs, jobRunning, registeredClients>>,
           \A i \in transactions' : i \in transactions \/ m = ForJob("new_job", i)
    PROVE  OrphanInv'
<1>1. /\ address \in Addresses /\ toBackend[address] \in Seq(ToBackendMessages)
      /\ toBackend'[address] = Append(toBackend[address], m)
      /\ \A b \in Addresses : b # address => toBackend'[b] = toBackend[b]
      /\ address \in Nat /\ Addresses \subseteq Nat
  BY Constants DEF Types, ConnectionTypes, SendToBackendFrom
<1>2. \A n : On(address, n)' <=> On(address, n) \/ n = m
  BY SMTT(20), <1>1, ChannelSent DEF On, Has
<1>3. \A k \in DOMAIN toBackend'[address] : toBackend'[address][k] = Plain("hello") => k = 1
  BY <1>1 DEF OrphanInv, HelloFirst
<1>4. HelloFirst'
  BY <1>1, <1>2, <1>3 DEF OrphanInv, HelloFirst
<1>5. Forgotten' <=> Forgotten
  BY <1>2 DEF Forgotten
<1>6. \A i : Cared(i) => Cared(i)'
  BY <1>2 DEF Cared, InHands, IsWaiting, InInbox
<1>7. \A i \in transactions' : Cared(i)' \/ Forgotten'
  BY <1>2, <1>5, <1>6, OrphanIs DEF OrphanInv, Cared
<1> QED
  BY <1>4, <1>7 DEF OrphanInv, NoOrphanTransaction, Cared, InHands

\* The client reads a message: an answer ends its transaction.
LEMMA ReadingOrphan ==
    ASSUME Types, OrphanInv, RunSocket, UNCHANGED <<waitingJobs, jobRunning, registeredClients>>
    PROVE  OrphanInv'
<1> DEFINE m == Head(inbox[address])
<1> USE DEF loopVars, jobVars, callbackVars, Received
<1>1. /\ inbox[address] # <<>> /\ inbox' = [inbox EXCEPT ![address] = Tail(@)]
      /\ UNCHANGED <<address, toBackend>>
      /\ transactions' \subseteq transactions
      /\ m.type = "job_done" => m.id \notin transactions'
  BY DEF RunSocket, Read, ReadJobDone, ReadJobStarted, ReadJobSSHDebug,
         ReadForUnknownTransaction, ReadPong, ReadUnknown, ReadUpdateContainers, ReadQueue
<1>2. /\ inbox[address] \in Seq(InboxMessages) /\ inbox'[address] = Tail(inbox[address])
  BY <1>1 DEF Types, ConnectionTypes
<1>3. \A n : InInbox(n) <=> InInbox(n)' \/ n = m
  <2>1. \A n : InInbox(n) <=> Has(inbox[address], n)
    BY DEF InInbox, Has
  <2>2. \A n : InInbox(n)' <=> Has(Tail(inbox[address]), n)
    BY <1>1, <1>2 DEF InInbox, Has
  <2>3. \A n : Has(inbox[address], n) <=> Has(Tail(inbox[address]), n) \/ n = Head(inbox[address])
    BY <1>1, <1>2, ChannelRead
  <2> QED
    BY <2>1, <2>2, <2>3
<1>4. \A n : On(address, n)' <=> On(address, n)
  BY <1>1 DEF On
<1>5. HelloFirst'
  BY <1>1, <1>4 DEF OrphanInv, HelloFirst, On
<1>6. ASSUME NEW i \in transactions' PROVE Cared(i)' \/ Forgotten'
  <2>1. m # ForJob("job_done", i)
    BY <1>1 DEF ForJob
  <2> QED
    BY <1>1, <1>3, <1>4, <2>1, OrphanIs DEF OrphanInv, Cared, InHands, IsWaiting, Forgotten
<1> QED
  BY <1>5, <1>6 DEF OrphanInv, NoOrphanTransaction, Cared, InHands

\* A new connection has no transaction.
LEMMA ReconnectOrphan ==
    ASSUME Types, OrphanInv, Reconnect, UNCHANGED registeredClients
    PROVE  OrphanInv'
<1>1. /\ transactions' = {} /\ address' = address + 1 /\ address' \in Addresses
      /\ toBackend' = [toBackend EXCEPT ![address + 1] = Append(@, Plain("hello"))]
      /\ address \in Nat /\ Addresses \subseteq Nat
  BY ReconnectTypes, Constants DEF Reconnect, SendToBackendFrom, Types, ConnectionTypes
<1>2. toBackend[address + 1] = <<>> /\ address + 1 \notin registeredClients
  BY <1>1 DEF OrphanInv, HelloFirst
<1>3. toBackend'[address'] = <<Plain("hello")>>
  BY <1>1, <1>2 DEF Types, ConnectionTypes
<1>4. \A c \in Addresses : c > address' => toBackend'[c] = <<>> /\ c \notin registeredClients'
  BY <1>1 DEF Types, ConnectionTypes, OrphanInv, HelloFirst
<1> QED
  BY <1>1, <1>2, <1>3, <1>4 DEF OrphanInv, HelloFirst, NoOrphanTransaction

\* The link is lost: if hello is still to come, so is all that was sent
\* after it; if not, the backend does not know the new address.
LEMMA LinkOrphan ==
    ASSUME Types, OrphanInv, LinkLost, registeredClients' \subseteq registeredClients
    PROVE  OrphanInv'
<1> USE DEF jobVars
<1>1. PICK sent \in 0..Len(toBackend[address]) :
        toBackend' = [toBackend EXCEPT ![address] = <<>>,
             ![address + 1] = SubSeq(toBackend[address], sent + 1, Len(toBackend[address]))]
  BY DEF LinkLost
<1>2. /\ address' = address + 1 /\ address' \in Addresses /\ address \in Addresses
      /\ address \in Nat /\ Addresses \subseteq Nat /\ transactions' = transactions
  BY LinkTypes, Constants DEF LinkLost, Types, ConnectionTypes
<1> DEFINE s == toBackend[address]
           r == SubSeq(s, sent + 1, Len(s))
<1>3. s \in Seq(ToBackendMessages)
  BY <1>2 DEF Types, ConnectionTypes
<1>4. r \in Seq(ToBackendMessages) /\ DOMAIN r = 1..(Len(s) - sent) /\ \A k \in DOMAIN r : k + sent \in DOMAIN s /\ r[k] = s[k + sent]
  BY SMTT(20), <1>3, SubSeqProperties
<1>5. toBackend' = [toBackend EXCEPT ![address] = <<>>, ![address + 1] = r]
  BY <1>1
<1>6. sent \in Nat /\ DOMAIN s = 1..Len(s) /\ Len(s) \in Nat
  BY <1>3
<1> HIDE DEF r
<1>7. /\ toBackend'[address'] = r
      /\ \A c \in Addresses : c > address' => toBackend'[c] = toBackend[c]
  <2>1. toBackend \in [Addresses -> Seq(ToBackendMessages)] /\ <<>> \in Seq(ToBackendMessages) /\ address # address + 1
    BY <1>2 DEF Types, ConnectionTypes
  <2> QED
    BY <1>2, <1>4, <1>5, <2>1, TwoUpdates
<1>8. address' \notin registeredClients' /\ \A c \in Addresses : c > address' => toBackend'[c] = <<>> /\ c \notin registeredClients'
  BY <1>2, <1>7 DEF OrphanInv, HelloFirst
<1>9. ASSUME NEW k \in DOMAIN r, r[k] = Plain("hello") PROVE k = 1 /\ sent = 0
  <2>1. k + sent = 1
    BY <1>4, <1>9 DEF OrphanInv, HelloFirst
  <2> QED
    BY <1>4, <1>6, <2>1
<1>10. CASE Has(r, Plain("hello"))
  <2>1. sent = 0
    BY <1>9, <1>10 DEF Has
  <2>2. \A n : Has(s, n) => Has(r, n)
    BY <1>4, <1>6, <2>1 DEF Has
  <2>3. On(address, Plain("hello"))
    BY <1>4, <1>10 DEF Has, On
  <2>4. \A i \in transactions' : On(address, ForJob("new_job", i))'
    BY <1>2, <1>7, <2>2, <2>3 DEF OrphanInv, HelloFirst, On, Has
  <2>5. HelloFirst'
    BY <1>7, <1>8, <1>9, <2>4 DEF HelloFirst
  <2> QED
    BY <2>4, <2>5 DEF OrphanInv, NoOrphanTransaction
<1>11. CASE ~Has(r, Plain("hello"))
  <2>1. ~On(address, Plain("hello"))'
    BY <1>7, <1>11 DEF On, Has
  <2>2. HelloFirst'
    BY <1>7, <1>8, <1>11, <2>1 DEF HelloFirst, Has
  <2>3. Forgotten'
    BY <1>8, <2>1 DEF Forgotten
  <2> QED
    BY <2>2, <2>3 DEF OrphanInv, NoOrphanTransaction
<1> QED
  BY <1>10, <1>11

\* Every step of the system keeps OrphanInv.
LEMMA OrphanKept ==
    ASSUME Types, OrphanInv, [Next]_vars
    PROVE  OrphanInv'
<1> USE DEF clientVars, connectionVars, jobVars, callbackVars, Others, BackendAtRest, queueVars, registryVars
<1>1. ASSUME NEW c \in Addresses, HandleClientMessage(c) PROVE OrphanInv'
  BY <1>1, MessageOrphan
<1>2. ASSUME NEW a \in Agents, ReceiveFrom(a) PROVE OrphanInv'
  BY <1>2, AgentMessageServes, RegisteredStay, BackendOrphan DEF ReceiveFrom
<1>3. ASSUME NEW a \in Agents, ReceivePong(a) \/ AgentsStep(a) PROVE OrphanInv'
  BY <1>3, OrphanFrame DEF ReceivePong, HandlePong, AgentsStep, ClientAtRest, OrphanVars
<1>4. CASE BackendStep
  BY <1>4, BackendServes, RegisteredStay, BackendOrphan DEF BackendStep
<1>5. ASSUME NEW i \in Ids, Request(i) PROVE OrphanInv'
  BY <1>5, OrphanFrame DEF Request, Alone, RefuseJob, RequestJob, OrphanVars
<1>6. ASSUME NEW i \in Ids, AskKill(i) PROVE OrphanInv'
  <2>1. ForJob("kill_job", i) \in ToBackendMessages /\ ForJob("kill_job", i) # Plain("hello")
    BY MessageTypes
  <2> QED
    BY <1>6, <2>1, SendingOrphan DEF AskKill, KillJob
<1>7. CASE Alone(RunSocket)
  BY <1>7, ReadingOrphan DEF Alone
<1>8. CASE Alone(HandleUnknown) \/ Alone(PingTooMany)
  BY <1>8, ReconnectOrphan DEF Alone, HandleUnknown, PingTooMany
<1>9. ASSUME NEW i \in Ids, Alone(CreateTransaction(i)) PROVE OrphanInv'
  <2>1. ForJob("new_job", i) \in ToBackendMessages /\ ForJob("new_job", i) # Plain("hello")
    BY MessageTypes
  <2>2. \A k \in transactions' : k \in transactions \/ ForJob("new_job", i) = ForJob("new_job", k)
    BY <1>9 DEF Alone, CreateTransaction
  <2> QED
    BY <1>9, <2>1, <2>2, SendingOrphan DEF Alone, CreateTransaction
<1>10. ASSUME NEW i \in Ids, Alone(CallBack(i)) PROVE OrphanInv'
  BY <1>10, OrphanFrame DEF Alone, CallBack, OrphanVars
<1>11. CASE PingTimer \/ QueueTimer
  <2>1. PICK m \in {Plain("ping"), Plain("get_queue")} :
          SendToBackendFrom(address, m) /\ UNCHANGED <<address, inbox, transactions>> /\ Others
    BY <1>11 DEF PingTimer, QueueTimer, Alone, PingBackend, AskQueueUpdate
  <2>2. m \in ToBackendMessages /\ m # Plain("hello")
    BY <2>1, MessageTypes
  <2> QED
    BY <2>1, <2>2, SendingOrphan
<1>12. CASE ThreadStep
  BY <1>12, OrphanFrame DEF ThreadStep, Alone, TestCalled, SetCalled, CallSsh, OrphanVars
<1>13. CASE BreakLink \/ RestartBackend
  <2>1. LinkLost /\ registeredClients' \subseteq registeredClients
    BY <1>13 DEF BreakLink, Alone, RestartBackend, BackendRestart
  <2> QED
    BY <2>1, LinkOrphan
<1>14. CASE UNCHANGED vars
  BY <1>14, OrphanFrame DEF vars, backendVars, OrphanVars
<1> QED
  BY <1>1, <1>2, <1>3, <1>4, <1>5, <1>6, <1>7, <1>8, <1>9, <1>10, <1>11, <1>12, <1>13, <1>14
     DEF Next, LoopStep

\* The first connection starts with hello.
LEMMA OrphanInit ==
    ASSUME Init
    PROVE  OrphanInv
<1>1. /\ address = 1 /\ 1 \in Addresses /\ transactions = {} /\ registeredClients = {}
      /\ toBackend = [c \in Addresses |-> IF c = address THEN <<Plain("hello")>> ELSE <<>>]
  BY Constants DEF Init, ClientInit, BackendInit
<1>2. toBackend[address] = <<Plain("hello")>> /\ \A c \in Addresses : c > address => toBackend[c] = <<>>
  BY <1>1, Constants
<1> QED
  BY <1>1, <1>2 DEF OrphanInv, HelloFirst, NoOrphanTransaction

\* The job of a transaction is on its way, in the hands of the backend or
\* answered, unless the backend has forgotten the client.
THEOREM TransactionsCaredFor == Spec => []NoOrphanTransaction
<1>1. OrphanInv => NoOrphanTransaction
  BY DEF OrphanInv
<1> QED
  BY <1>1, OrphanInit, OrphanKept, TypesInvariant, PTL DEF Spec
=============================================================================
