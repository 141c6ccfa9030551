---------------------------- MODULE DockerProofs ----------------------------
(***************************************************************************)
(* Proofs about DockerAgent, for any number of jobs, ports and student     *)
(* containers, and whatever kills, time limits and failures: the account   *)
(* of the ssh ports; the life of the containers and what is said of their  *)
(* end; and that the agent implements AgentContract.                       *)
(***************************************************************************)
EXTENDS DockerAgent, QueueLemmas, FiniteSetTheorems, TLAPS

-----------------------------------------------------------------------------
(* The ssh ports.                                                           *)

\* The types of the variables that the account of the ports rests on.
PortTypes ==
    /\ toAgent \in [Agents -> Seq(BackendToAgent)]
    /\ docker \in [Containers -> {"absent", "created", "up", "down", "removed"}]
    /\ events \in [Containers -> Seq({"oom", "die"})]
    /\ task \in [Jobs -> {"none", "received", "preparing", "starting", "refused", "over", "failed"}]
    /\ talk \in [Jobs -> {"no", "attaching", "talking", "over"}]
    /\ closing \in [Jobs -> {"no", "waiting", "deleting", "over"}]
    /\ port \in [Jobs -> Ports \cup {NoPort}]
    /\ debugPort \in [Jobs -> Ports \cup {NoPort}]
    /\ sshPorts \subseteq Ports

\* A job is sent once, and read once: handle_new_job is not called twice for it.
Asks(m, j) == m = Message("new_job", j)
SentOnce(j) ==
    /\ j \notin given => task[j] = "none"
    /\ \A k \in DOMAIN toAgent[Self] :
         Asks(toAgent[Self][k], j) =>
           /\ j \in given /\ task[j] = "none"
           /\ \A l \in DOMAIN toAgent[Self] : Asks(toAgent[Self][l], j) => l = k

\* The death of a container is known to docker, and not to the agent yet.
Dying(c) == \E k \in DOMAIN events[c] : events[c][k] = "die"
HasRun(c) == docker[c] \in {"up", "down", "removed"}
HasEnded(c) == docker[c] \in {"down", "removed"}

\* What handle_new_job, the container and the port of a job have to do with one
\* another: the port of a container is the one its handler took, until the death
\* of the container has been handled.
PortOf(j) ==
    /\ task[j] \in {"none", "received"} => port[j] = NoPort
    /\ task[j] \in {"none", "received", "preparing"} => docker[j] = "absent"
    /\ task[j] \in {"refused", "failed"} => docker[j] \in {"absent", "created"}
    /\ task[j] = "starting" => docker[j] # "absent"
    /\ talk[j] # "no" => task[j] = "over" /\ HasRun(j)
    /\ HasRun(j) => task[j] = "starting" \/ talk[j] # "no"
    /\ task[j] = "starting" /\ docker[j] = "created" => debugPort[j] = port[j]
    /\ docker[j] = "up" => debugPort[j] = port[j]
    /\ Dying(j) => HasEnded(j) /\ debugPort[j] = port[j]
    /\ \A k \in DOMAIN events[j] : events[j][k] = "die" => k = Len(events[j])
    /\ j \in ending \/ closing[j] # "no" => HasEnded(j)

\* A port is free, or belongs to one job.
Account(p) ==
    IF p \in sshPorts THEN \A j \in Jobs : ~Holds(j, p)
    ELSE \E j \in Jobs : \A i \in Jobs : Holds(i, p) <=> i = j

\* The inductive invariant.
PortInv ==
    /\ PortTypes
    /\ \A j \in Jobs : SentOnce(j) /\ PortOf(j)
    /\ \A p \in Ports : Account(p)

-----------------------------------------------------------------------------
\* What the assumptions on the constants give.
LEMMA Names ==
    /\ Self \in Agents /\ Jobs \subseteq Containers /\ Students \subseteq Containers
    /\ Students \cap Jobs = {} /\ NoPort \notin Ports
BY DockerAgentAssumption, AgentsAssumption, StudentsAssumption DEF Containers

\* A step that PortOf and Holds do not see.
Same(i) ==
    /\ task'[i] = task[i] /\ port'[i] = port[i] /\ debugPort'[i] = debugPort[i]
    /\ talk'[i] = talk[i] /\ closing'[i] = closing[i]
    /\ docker'[i] = docker[i] /\ events'[i] = events[i]
    /\ i \in ending' => i \in ending

\* Such a step keeps the relation of a job to its port.
LEMMA SameKeeps ==
    ASSUME NEW i \in Jobs, PortOf(i), Same(i)
    PROVE  PortOf(i)' /\ \A p : Holds(i, p)' <=> Holds(i, p)
BY DEF Same, PortOf, Holds, Dying, HasRun, HasEnded

\* A step that sends and reads no message of the backend.
LEMMA SentFrame ==
    ASSUME NEW i \in Jobs, SentOnce(i), toAgent' = toAgent, given' = given,
           task'[i] = task[i] \/ (task[i] # "none" /\ task'[i] # "none")
    PROVE  SentOnce(i)'
BY DEF SentOnce, Asks, Message

\* The account of a port that nobody takes or gives back.
LEMMA AccountSame ==
    ASSUME NEW p \in Ports, Account(p), p \in sshPorts' <=> p \in sshPorts,
           \A i \in Jobs : Holds(i, p)' <=> Holds(i, p)
    PROVE  Account(p)'
BY DEF Account

\* A job takes a free port.
LEMMA AccountTaken ==
    ASSUME NEW p \in sshPorts, Account(p), p \notin sshPorts', NEW j \in Jobs, Holds(j, p)',
           \A i \in Jobs \ {j} : Holds(i, p)' <=> Holds(i, p)
    PROVE  Account(p)'
<1>1. \A i \in Jobs : Holds(i, p)' <=> i = j
  BY DEF Account
<1> QED
  BY <1>1 DEF Account

\* A job gives back the port it holds.
LEMMA AccountReturned ==
    ASSUME NEW p \in Ports, Account(p), p \in sshPorts', NEW j \in Jobs, Holds(j, p), ~Holds(j, p)',
           \A i \in Jobs \ {j} : Holds(i, p)' <=> Holds(i, p)
    PROVE  Account(p)'
BY DEF Account

\* A step that moves no port.
LEMMA NoPortMoves ==
    ASSUME PortInv, PortTypes', sshPorts' = sshPorts,
           \A i \in Jobs : SentOnce(i)',
           \A i \in Jobs : PortOf(i)' /\ \A p \in Ports : Holds(i, p)' <=> Holds(i, p)
    PROVE  PortInv'
<1>1. \A p \in Ports : Account(p)'
  BY AccountSame DEF PortInv
<1> QED
  BY <1>1 DEF PortInv

\* A step about the job j, which moves no port either.
LEMMA JobMoves ==
    ASSUME PortInv, PortTypes', sshPorts' = sshPorts, NEW j \in Jobs,
           \A i \in Jobs : SentOnce(i)',
           \A i \in Jobs \ {j} : Same(i),
           PortOf(j)', \A p \in Ports : Holds(j, p)' <=> Holds(j, p)
    PROVE  PortInv'
<1>1. \A i \in Jobs \ {j} : PortOf(i)' /\ \A p : Holds(i, p)' <=> Holds(i, p)
  BY SameKeeps DEF PortInv
<1>2. \A i \in Jobs : PortOf(i)' /\ \A p \in Ports : Holds(i, p)' <=> Holds(i, p)
  BY <1>1
<1> QED
  BY <1>2, NoPortMoves

\* A step that the account does not see.
LEMMA NothingMoves ==
    ASSUME PortInv, PortTypes', sshPorts' = sshPorts,
           \A i \in Jobs : SentOnce(i)', \A i \in Jobs : Same(i)
    PROVE  PortInv'
BY SameKeeps, NoPortMoves DEF PortInv

\* Reading and writing a queue of messages.
LEMMA Dequeued ==
    ASSUME NEW S, NEW q \in Seq(S), q # <<>>
    PROVE  /\ Tail(q) \in Seq(S) /\ 1 \in DOMAIN q /\ q[1] = Head(q) /\ Len(Tail(q)) = Len(q) - 1
           /\ \A k \in DOMAIN Tail(q) : k \in Nat /\ k + 1 \in DOMAIN q /\ k + 1 # 1 /\ Tail(q)[k] = q[k + 1]
OBVIOUS

\* An event or a message is added behind the others.
LEMMA Enqueued ==
    ASSUME NEW S, NEW q \in Seq(S), NEW m \in S
    PROVE  /\ Append(q, m) \in Seq(S) /\ Len(Append(q, m)) = Len(q) + 1
           /\ \A k \in DOMAIN Append(q, m) :
                (k \in DOMAIN q /\ Append(q, m)[k] = q[k]) \/ (k = Len(q) + 1 /\ Append(q, m)[k] = m)
OBVIOUS

-----------------------------------------------------------------------------
(* The messages of the backend.                                             *)

\* The backend sends a job it has not sent before.
LEMMA SendNewJobKeeps ==
    ASSUME PortInv, NEW j \in Jobs, SendNewJob(j)
    PROVE  PortInv'
<1>0. PortTypes /\ Self \in Agents
  BY Names DEF PortInv
<1> DEFINE m == Message("new_job", j)
           q == toAgent[Self]
<1>1. m \in BackendToAgent /\ q \in Seq(BackendToAgent)
  BY <1>0 DEF PortTypes, Message, BackendToAgent
<1>2. toAgent' = [toAgent EXCEPT ![Self] = Append(q, m)]
  BY DEF SendNewJob, SendToAgent
<1>3. PortTypes'
  BY <1>0, <1>1, <1>2 DEF SendNewJob, PortTypes, dockerVars, daemon, jobs, ownPorts, talks, closings
<1>4. toAgent'[Self] = Append(q, m)
  BY <1>0, <1>2 DEF PortTypes
<1>5. given' = given \cup {j} /\ j \notin given /\ task' = task
  BY DEF SendNewJob, jobs
<1>6. ASSUME NEW i \in Jobs PROVE SentOnce(i)'
  <2>1. SentOnce(i)
    BY DEF PortInv
  <2>2. i \notin given' => task'[i] = "none"
    BY <1>5, <2>1 DEF SentOnce
  <2>3. ASSUME NEW k \in DOMAIN Append(q, m), Asks(Append(q, m)[k], i),
               NEW l \in DOMAIN Append(q, m), Asks(Append(q, m)[l], i)
        PROVE  i \in given' /\ task'[i] = "none" /\ l = k
    <3>1. CASE i = j
      <4>1. \A n \in DOMAIN q : ~Asks(q[n], i)
        BY <1>5, <2>1, <3>1 DEF SentOnce
      <4>2. k = Len(q) + 1 /\ l = Len(q) + 1
        BY <1>1, <2>3, <4>1, Enqueued
      <4> QED
        BY <1>5, <2>1, <3>1, <4>2 DEF SentOnce
    <3>2. CASE i # j
      <4>1. ~Asks(m, i)
        BY <3>2 DEF Asks, Message
      <4>2. /\ k \in DOMAIN q /\ Append(q, m)[k] = q[k]
            /\ l \in DOMAIN q /\ Append(q, m)[l] = q[l]
        BY <1>1, <2>3, <4>1, Enqueued
      <4> QED
        BY <1>5, <2>1, <2>3, <4>2 DEF SentOnce
    <3> QED
      BY <3>1, <3>2
  <2> QED
    BY <1>4, <2>2, <2>3 DEF SentOnce
<1>7. \A i \in Jobs : Same(i)
  BY DEF SendNewJob, Same, dockerVars, daemon, jobs, dicts, ownPorts, talks, closings
<1> QED
  BY <1>3, <1>6, <1>7, NothingMoves DEF SendNewJob, ownPorts

\* Asking for a kill is no new job.
LEMMA SendKillJobKeeps ==
    ASSUME PortInv, NEW j \in Jobs, SendKillJob(j)
    PROVE  PortInv'
<1>0. PortTypes /\ Self \in Agents
  BY Names DEF PortInv
<1> DEFINE m == Message("kill_job", j)
           q == toAgent[Self]
<1>1. m \in BackendToAgent /\ q \in Seq(BackendToAgent)
  BY <1>0 DEF PortTypes, Message, BackendToAgent
<1>2. toAgent' = [toAgent EXCEPT ![Self] = Append(q, m)]
  BY DEF SendKillJob, SendToAgent
<1>3. PortTypes'
  BY <1>0, <1>1, <1>2 DEF SendKillJob, PortTypes, dockerVars, daemon, jobs, ownPorts, talks, closings
<1>4. toAgent'[Self] = Append(q, m)
  BY <1>0, <1>2 DEF PortTypes
<1>5. given' = given /\ task' = task
  BY DEF SendKillJob, jobs
<1>6. ASSUME NEW i \in Jobs PROVE SentOnce(i)'
  <2>1. SentOnce(i) /\ ~Asks(m, i)
    BY DEF PortInv, Asks, Message
  <2>2. ASSUME NEW k \in DOMAIN Append(q, m), Asks(Append(q, m)[k], i)
        PROVE  k \in DOMAIN q /\ Append(q, m)[k] = q[k]
    BY <1>1, <2>1, <2>2, Enqueued
  <2> QED
    BY <1>4, <1>5, <2>1, <2>2 DEF SentOnce
<1>7. \A i \in Jobs : Same(i)
  BY DEF SendKillJob, Same, dockerVars, daemon, jobs, dicts, ownPorts, talks, closings
<1> QED
  BY <1>3, <1>6, <1>7, NothingMoves DEF SendKillJob, ownPorts

\* A message has left the queue.
LEMMA ReceiveSent ==
    ASSUME PortInv, NEW j \in Jobs, NEW type, Receive(type, j), given' = given
    PROVE  /\ toAgent' \in [Agents -> Seq(BackendToAgent)]
           /\ \A i \in Jobs :
                /\ (~(type = "new_job" /\ i = j) /\ task'[i] = task[i]) => SentOnce(i)'
                /\ (type = "new_job" /\ i = j) =>
                     /\ task[i] = "none"
                     /\ task'[i] # "none" => SentOnce(i)'
<1>0. PortTypes /\ Self \in Agents
  BY Names DEF PortInv
<1> DEFINE q == toAgent[Self]
<1>1. q \in Seq(BackendToAgent) /\ q # <<>> /\ Head(q) = Message(type, j)
  BY <1>0 DEF PortTypes, Receive
<1>2. toAgent' = [toAgent EXCEPT ![Self] = Tail(q)]
  BY DEF Receive
<1>3. toAgent' \in [Agents -> Seq(BackendToAgent)] /\ toAgent'[Self] = Tail(q)
  BY <1>0, <1>1, <1>2, Dequeued DEF PortTypes
<1>4. ASSUME NEW i \in Jobs, ~(type = "new_job" /\ i = j), task'[i] = task[i] PROVE SentOnce(i)'
  <2>1. SentOnce(i)
    BY DEF PortInv
  <2>2. \A k \in DOMAIN Tail(q) : k \in Nat /\ k + 1 \in DOMAIN q /\ Tail(q)[k] = q[k + 1]
    BY <1>1, Dequeued
  <2>3. ASSUME NEW k \in DOMAIN Tail(q), Asks(Tail(q)[k], i),
               NEW l \in DOMAIN Tail(q), Asks(Tail(q)[l], i)
        PROVE  i \in given /\ task[i] = "none" /\ l = k
    <3>1. k + 1 \in DOMAIN q /\ Asks(q[k + 1], i) /\ l + 1 \in DOMAIN q /\ Asks(q[l + 1], i)
      BY <2>2, <2>3
    <3>2. i \in given /\ task[i] = "none" /\ l + 1 = k + 1
      BY <2>1, <3>1 DEF SentOnce
    <3> QED
      BY <2>2, <3>2
  <2> QED
    BY <1>3, <1>4, <2>1, <2>3 DEF SentOnce
<1>5. ASSUME type = "new_job" PROVE task[j] = "none" /\ (task'[j] # "none" => SentOnce(j)')
  <2>1. SentOnce(j) /\ 1 \in DOMAIN q /\ Asks(q[1], j)
    BY <1>1, <1>5, Dequeued DEF PortInv, Asks
  <2>2. j \in given /\ task[j] = "none" /\ \A l \in DOMAIN q : Asks(q[l], j) => l = 1
    BY <2>1 DEF SentOnce
  <2>3. \A k \in DOMAIN Tail(q) : k + 1 \in DOMAIN q /\ k + 1 # 1 /\ Tail(q)[k] = q[k + 1]
    BY <1>1, Dequeued
  <2>4. \A k \in DOMAIN Tail(q) : ~Asks(Tail(q)[k], j)
    BY <2>2, <2>3
  <2> QED
    BY <1>3, <2>2, <2>4 DEF SentOnce
<1> QED
  BY <1>3, <1>4, <1>5

\* handle_new_job starts: the job leaves the channel for good.
LEMMA ReadBackendKeeps ==
    ASSUME PortInv, NEW j \in Jobs, ReadBackend(j)
    PROVE  PortInv'
<1>0. PortTypes /\ \A i \in Jobs : PortOf(i)
  BY DEF PortInv
<1>1. CASE ReceiveNewJob(j)
  <2>1. Receive("new_job", j) /\ given' = given /\ task' = [task EXCEPT ![j] = "received"]
    BY <1>1 DEF ReceiveNewJob, environment
  <2>2. task'[j] = "received" /\ \A i \in Jobs \ {j} : task'[i] = task[i]
    BY <1>0, <2>1 DEF PortTypes
  <2>3. /\ toAgent' \in [Agents -> Seq(BackendToAgent)] /\ task[j] = "none"
        /\ \A i \in Jobs : SentOnce(i)'
    BY <2>1, <2>2, ReceiveSent
  <2>4. PortTypes'
    BY <1>0, <1>1, <2>1, <2>3 DEF ReceiveNewJob, PortTypes, dockerVars, daemon, ownPorts, talks, closings
  <2>5. /\ UNCHANGED <<port, debugPort, sshPorts, talk, closing, docker, events, ending>>
    BY <1>1 DEF ReceiveNewJob, dockerVars, daemon, dicts, ownPorts, talks, closings
  <2>6. \A i \in Jobs \ {j} : Same(i)
    BY <2>2, <2>5 DEF Same
  <2>7. PortOf(j)'
    BY <1>0, <2>2, <2>3, <2>5 DEF PortOf, HasRun, HasEnded, Dying
  <2>8. \A p : Holds(j, p)' <=> Holds(j, p)
    BY <2>2, <2>3, <2>5 DEF Holds
  <2> QED
    BY <2>3, <2>4, <2>5, <2>6, <2>7, <2>8, JobMoves
<1>2. CASE HandleKillJob(j)
  <2>1. Receive("kill_job", j) /\ given' = given
    BY <1>2 DEF HandleKillJob, environment
  <2>2. UNCHANGED <<task, port, debugPort, sshPorts, talk, closing, docker, events, ending>>
    BY <1>2 DEF HandleKillJob, daemon, jobs, ownPorts, talks, closings
  <2>3. toAgent' \in [Agents -> Seq(BackendToAgent)] /\ \A i \in Jobs : SentOnce(i)'
    BY <2>1, <2>2, ReceiveSent
  <2>4. PortTypes'
    BY <1>0, <2>2, <2>3 DEF PortTypes
  <2>5. \A i \in Jobs : Same(i)
    BY <2>2 DEF Same
  <2> QED
    BY <2>2, <2>3, <2>4, <2>5, NothingMoves
<1> QED
  BY <1>1, <1>2 DEF ReadBackend

-----------------------------------------------------------------------------
(* handle_new_job.                                                          *)

\* handle_new_job takes a port, and gives it back on each path that fails and
\* cleans up; the unexpected failures leave it taken.
LEMMA NewJobKeeps ==
    ASSUME PortInv, NEW j \in Jobs, NewJobStep(j) \/ PrepareFails(j)
    PROVE  PortInv'
<1>0. /\ PortTypes /\ PortOf(j) /\ NoPort \notin Ports /\ j \in Containers
      /\ \A i \in Jobs : SentOnce(i) /\ PortOf(i)
  BY Names DEF PortInv
<1>1. ASSUME toAgent' = toAgent, given' = given, UNCHANGED <<port, debugPort, sshPorts, talk, closing, docker, events, ending>>,
             NEW r \in {"preparing", "starting", "refused", "over", "failed"}, task' = [task EXCEPT ![j] = r],
             task[j] # "none",
             PortOf(j)', \A p \in Ports : Holds(j, p)' <=> Holds(j, p)
      PROVE  PortInv'
  <2>1. task'[j] = r /\ \A i \in Jobs \ {j} : task'[i] = task[i]
    BY <1>0, <1>1 DEF PortTypes
  <2>2. \A i \in Jobs : SentOnce(i)'
    BY <1>0, <1>1, <2>1, SentFrame
  <2>3. PortTypes'
    BY <1>0, <1>1 DEF PortTypes
  <2>4. \A i \in Jobs \ {j} : Same(i)
    BY <1>1, <2>1 DEF Same
  <2> QED
    BY <1>1, <2>2, <2>3, <2>4, JobMoves
<1>2. CASE RefuseJob(j)
  <2>1. /\ toAgent' = toAgent /\ given' = given /\ UNCHANGED <<port, debugPort, sshPorts, talk, closing, docker, events, ending>>
        /\ task[j] = "received" /\ task' = [task EXCEPT ![j] = "over"] /\ task'[j] = "over"
    BY <1>0, <1>2 DEF RefuseJob, PortTypes, dockerVars, daemon, environment, dicts, ownPorts, talks, closings
  <2>2. PortOf(j)'
    BY <1>0, <2>1 DEF PortOf, HasRun, HasEnded, Dying
  <2>3. \A p \in Ports : Holds(j, p)' <=> Holds(j, p)
    BY <1>0, <2>1 DEF PortOf, Holds
  <2> QED
    BY <1>1, <2>1, <2>2, <2>3
<1>3. CASE CreateFails(j)
  <2>1. /\ toAgent' = toAgent /\ given' = given /\ UNCHANGED <<port, debugPort, sshPorts, talk, closing, docker, events, ending>>
        /\ task[j] = "preparing" /\ task' = [task EXCEPT ![j] = "refused"] /\ task'[j] = "refused"
    BY <1>0, <1>3 DEF CreateFails, PortTypes, dockerVars, daemon, environment, dicts, ownPorts, talks, closings
  <2>2. PortOf(j)'
    BY <1>0, <2>1 DEF PortOf, HasRun, HasEnded, Dying
  <2>3. \A p \in Ports : Holds(j, p)' <=> Holds(j, p)
    BY <1>0, <2>1 DEF PortOf, Holds
  <2> QED
    BY <1>1, <2>1, <2>2, <2>3
<1>4. CASE PrepareFails(j)
  <2>1. /\ toAgent' = toAgent /\ given' = given /\ UNCHANGED <<port, debugPort, sshPorts, talk, closing, docker, events, ending>>
        /\ task[j] = "preparing" /\ task' = [task EXCEPT ![j] = "failed"] /\ task'[j] = "failed"
    BY <1>0, <1>4 DEF PrepareFails, PortTypes, channels, dockerVars, daemon, environment, dicts, ownPorts, talks, closings
  <2>2. PortOf(j)'
    BY <1>0, <2>1 DEF PortOf, HasRun, HasEnded, Dying
  <2>3. \A p \in Ports : Holds(j, p)' <=> Holds(j, p)
    BY <1>0, <2>1 DEF PortOf, Holds
  <2> QED
    BY <1>1, <2>1, <2>2, <2>3
<1>5. CASE StartFails(j)
  <2>1. /\ toAgent' = toAgent /\ given' = given /\ UNCHANGED <<port, debugPort, sshPorts, talk, closing, docker, events, ending>>
        /\ task[j] = "starting" /\ docker[j] = "created"
        /\ task' = [task EXCEPT ![j] = "refused"] /\ task'[j] = "refused"
    BY <1>0, <1>5 DEF StartFails, StartMayFail, Starting, PortTypes, dockerVars, daemon, environment, dicts, ownPorts, talks, closings
  <2>2. PortOf(j)'
    BY <1>0, <2>1 DEF PortOf, HasRun, HasEnded, Dying
  <2>3. \A p \in Ports : Holds(j, p)' <=> Holds(j, p)
    BY <1>0, <2>1 DEF PortOf, Holds
  <2> QED
    BY <1>1, <2>1, <2>2, <2>3
<1>6. CASE Created(j)
  <2>1. /\ toAgent' = toAgent /\ given' = given /\ UNCHANGED <<port, sshPorts, talk, closing, events, ending>>
        /\ task[j] = "preparing" /\ task' = [task EXCEPT ![j] = "starting"]
        /\ docker' = [docker EXCEPT ![j] = "created"] /\ debugPort' = [debugPort EXCEPT ![j] = port[j]]
    BY <1>6 DEF Created, Becomes, channels, environment, talks, closings
  <2>2. /\ task'[j] = "starting" /\ docker'[j] = "created" /\ debugPort'[j] = port[j]
        /\ \A i \in Jobs \ {j} : Same(i)
    BY <1>0, <2>1, Names DEF PortTypes, Same
  <2>3. PortTypes'
    BY <1>0, <2>1 DEF PortTypes
  <2>4. \A i \in Jobs : SentOnce(i)'
    BY <1>0, <2>1, <2>2, SentFrame DEF Same
  <2>5. PortOf(j)'
    BY <1>0, <2>1, <2>2 DEF PortOf, HasRun, HasEnded, Dying
  <2>6. \A p \in Ports : Holds(j, p)' <=> Holds(j, p)
    BY <1>0, <2>1, <2>2 DEF PortOf, Holds
  <2> QED
    BY <2>1, <2>2, <2>3, <2>4, <2>5, <2>6, JobMoves
<1>7. CASE Started(j)
  <2>1. /\ toAgent' = toAgent /\ given' = given /\ UNCHANGED <<port, debugPort, sshPorts, closing, docker, events, ending>>
        /\ task[j] = "starting" /\ docker[j] # "created" /\ task' = [task EXCEPT ![j] = "over"]
        /\ talk' = [talk EXCEPT ![j] = "attaching"]
    BY <1>7 DEF Started, Starting, dockerVars, daemon, environment, dicts, ownPorts, closings
  <2>2. /\ task'[j] = "over" /\ talk'[j] = "attaching"
        /\ \A i \in Jobs \ {j} : Same(i)
    BY <1>0, <2>1 DEF PortTypes, Same
  <2>3. PortTypes'
    BY <1>0, <2>1 DEF PortTypes
  <2>4. \A i \in Jobs : SentOnce(i)'
    BY <1>0, <2>1, <2>2, SentFrame DEF Same
  <2>5. docker[j] \in {"up", "down", "removed"}
    BY <1>0, <2>1 DEF PortTypes, PortOf
  <2>6. PortOf(j)'
    BY <1>0, <2>1, <2>2, <2>5 DEF PortOf, HasRun, HasEnded, Dying
  <2>7. \A p \in Ports : Holds(j, p)' <=> Holds(j, p)
    BY <1>0, <2>1, <2>2 DEF PortOf, Holds
  <2> QED
    BY <2>1, <2>2, <2>3, <2>4, <2>6, <2>7, JobMoves
<1>8. CASE AcceptJob(j)
  <2>1. PICK q \in IF j \in DebugJobs THEN sshPorts ELSE {NoPort} :
          port' = [port EXCEPT ![j] = q] /\ sshPorts' = sshPorts \ {q}
    BY <1>8 DEF AcceptJob
  <2>2. /\ toAgent' = toAgent /\ given' = given /\ UNCHANGED <<debugPort, talk, closing, docker, events, ending>>
        /\ task[j] = "received" /\ task' = [task EXCEPT ![j] = "preparing"]
    BY <1>8 DEF AcceptJob, channels, dockerVars, daemon, environment, dicts, talks, closings
  <2>3. q \in Ports \cup {NoPort}
    BY <1>0, <2>1 DEF PortTypes
  <2>4. /\ task'[j] = "preparing" /\ port'[j] = q
        /\ \A i \in Jobs \ {j} : Same(i)
    BY <1>0, <2>1, <2>2, <2>3 DEF PortTypes, Same
  <2>5. PortTypes'
    BY <1>0, <2>1, <2>2, <2>3 DEF PortTypes
  <2>6. \A i \in Jobs : SentOnce(i)'
    BY <1>0, <2>2, <2>4, SentFrame DEF Same
  <2>7. PortOf(j)'
    BY <1>0, <2>2, <2>4 DEF PortOf, HasRun, HasEnded, Dying
  <2>8. \A p : ~Holds(j, p) /\ (Holds(j, p)' <=> p = q)
    BY <1>0, <2>2, <2>4 DEF PortOf, Holds
  <2>9. \A i \in Jobs \ {j} : PortOf(i)' /\ \A p : Holds(i, p)' <=> Holds(i, p)
    BY <1>0, <2>4, SameKeeps
  <2>10. ASSUME NEW p \in Ports PROVE Account(p)'
    <3>1. Account(p)
      BY DEF PortInv
    <3>2. CASE p = q
      <4>1. q \in sshPorts
        BY <1>0, <2>1, <3>2
      <4>2. Holds(j, p)' /\ p \notin sshPorts'
        BY <2>1, <2>8, <3>2
      <4> QED
        BY <2>9, <3>1, <3>2, <4>1, <4>2, AccountTaken
    <3>3. CASE p # q
      <4>1. p \in sshPorts' <=> p \in sshPorts
        BY <2>1, <3>3
      <4>2. \A i \in Jobs : Holds(i, p)' <=> Holds(i, p)
        BY <2>8, <2>9, <3>3
      <4> QED
        BY <3>1, <4>1, <4>2, AccountSame
    <3> QED
      BY <3>2, <3>3
  <2> QED
    BY <2>5, <2>6, <2>7, <2>9, <2>10 DEF PortInv
<1>9. CASE CleanUp(j)
  <2>1. /\ toAgent' = toAgent /\ given' = given /\ UNCHANGED <<port, debugPort, talk, closing, docker, events, ending>>
        /\ task[j] = "refused"
    BY <1>9 DEF CleanUp, channels, dockerVars, daemon, environment, dicts, talks, closings
  <2>2. CASE task' = [task EXCEPT ![j] = "failed"] /\ UNCHANGED sshPorts
    <3>1. task'[j] = "failed"
      BY <1>0, <2>2 DEF PortTypes
    <3>2. PortOf(j)'
      BY <1>0, <2>1, <3>1 DEF PortOf, HasRun, HasEnded, Dying
    <3>3. \A p \in Ports : Holds(j, p)' <=> Holds(j, p)
      BY <1>0, <2>1, <3>1 DEF PortOf, Holds
    <3> QED
      BY <1>1, <2>1, <2>2, <3>2, <3>3
  <2>3. CASE sshPorts' = Returned(port[j]) /\ task' = [task EXCEPT ![j] = "over"]
    <3>1. /\ task'[j] = "over"
          /\ \A i \in Jobs \ {j} : Same(i)
      BY <1>0, <2>1, <2>3 DEF PortTypes, Same
    <3>2. PortTypes'
      BY <1>0, <2>1, <2>3 DEF PortTypes, Returned
    <3>3. \A i \in Jobs : SentOnce(i)'
      BY <1>0, <2>1, <3>1, SentFrame DEF Same
    <3>4. PortOf(j)'
      BY <1>0, <2>1, <3>1 DEF PortOf, HasRun, HasEnded, Dying
    <3>5. \A p : (Holds(j, p) <=> p = port[j]) /\ ~Holds(j, p)'
      BY <1>0, <2>1, <3>1 DEF PortOf, Holds, HasRun
    <3>6. \A i \in Jobs \ {j} : PortOf(i)' /\ \A p : Holds(i, p)' <=> Holds(i, p)
      BY <1>0, <3>1, SameKeeps
    <3>7. ASSUME NEW p \in Ports PROVE Account(p)'
      <4>1. Account(p)
        BY DEF PortInv
      <4>2. CASE p = port[j]
        <5>1. p \in sshPorts' /\ Holds(j, p) /\ ~Holds(j, p)'
          BY <1>0, <2>3, <3>5, <4>2 DEF Returned
        <5> QED
          BY <3>6, <4>1, <5>1, AccountReturned
      <4>3. CASE p # port[j]
        <5>1. p \in sshPorts' <=> p \in sshPorts
          BY <2>3, <4>3 DEF Returned
        <5>2. \A i \in Jobs : Holds(i, p)' <=> Holds(i, p)
          BY <3>5, <3>6, <4>3
        <5> QED
          BY <4>1, <5>1, <5>2, AccountSame
      <4> QED
        BY <4>2, <4>3
    <3> QED
      BY <3>2, <3>3, <3>4, <3>6, <3>7 DEF PortInv
  <2> QED
    BY <1>9, <2>2, <2>3 DEF CleanUp
<1> QED
  BY <1>2, <1>3, <1>4, <1>5, <1>6, <1>7, <1>8, <1>9 DEF NewJobStep

-----------------------------------------------------------------------------
(* Conversations, and what happens to containers.                           *)

\* Steps after which the messages and the handlers of jobs are as before.
LEMMA Aside ==
    ASSUME PortInv, toAgent' = toAgent, given' = given,
           UNCHANGED <<task, port, debugPort, sshPorts>>
    PROVE  \A i \in Jobs : SentOnce(i)'
BY SentFrame DEF PortInv

\* Talking with the container touches no port.
LEMMA TalkKeeps ==
    ASSUME PortInv, NEW j \in Jobs,
           Attach(j) \/ AttachFails(j) \/ ReadResult(j) \/ ReadGarbage(j) \/ ReadEOF(j) \/ ReadSshKey(j)
    PROVE  PortInv'
<1>0. PortTypes /\ \A i \in Jobs : PortOf(i)
  BY DEF PortInv
<1>1. toAgent' = toAgent /\ given' = given /\ UNCHANGED <<task, port, debugPort, sshPorts, closing, docker, events, ending>>
  BY DEF Attach, AttachFails, ReadResult, ReadGarbage, ReadEOF, EndTalk, ReadSshKey, TalkUnchanged,
         dockerVars, daemon, environment, jobs, dicts, ownPorts, closings
<1>2. talk' = talk \/ \E r \in {"talking", "over"} : talk[j] # "no" /\ talk' = [talk EXCEPT ![j] = r]
  BY DEF Attach, AttachFails, ReadResult, ReadGarbage, ReadEOF, EndTalk, ReadSshKey, talks
<1>3. \A i \in Jobs : SentOnce(i)'
  BY <1>1, Aside
<1>4. CASE talk' = talk
  BY <1>0, <1>1, <1>3, <1>4, NothingMoves DEF Same, PortTypes
<1>5. CASE talk' # talk
  <2>1. PICK r \in {"talking", "over"} : talk[j] # "no" /\ talk' = [talk EXCEPT ![j] = r]
    BY <1>2, <1>5
  <2>2. talk'[j] # "no" /\ \A i \in Jobs \ {j} : Same(i)
    BY <1>0, <1>1, <2>1 DEF PortTypes, Same
  <2>3. PortTypes'
    BY <1>0, <1>1, <2>1 DEF PortTypes
  <2>4. PortOf(j)' /\ \A p \in Ports : Holds(j, p)' <=> Holds(j, p)
    BY <1>0, <1>1, <2>1, <2>2 DEF PortOf, Holds, HasRun, HasEnded, Dying
  <2> QED
    BY <1>1, <1>3, <2>2, <2>3, <2>4, JobMoves
<1> QED
  BY <1>4, <1>5

\* What docker, the watcher and the events of a container change: neither the
\* handler of a job nor its port, and it does not begin to run.
Quiet == UNCHANGED <<toAgent, given, task, port, debugPort, sshPorts, talk, closing, ending>>

\* What docker does to a container while no death is announced.
LEMMA QuietKeeps ==
    ASSUME PortInv, Quiet, NEW c \in Containers,
           docker' \in [Containers -> {"absent", "created", "up", "down", "removed"}],
           events' \in [Containers -> Seq({"oom", "die"})],
           \A d \in Containers \ {c} : docker'[d] = docker[d] /\ events'[d] = events[d],
           c \in Jobs => PortOf(c)'
    PROVE  PortInv'
<1>1. \A i \in Jobs : SentOnce(i)'
  BY Aside DEF Quiet
<1>2. PortTypes'
  BY DEF Quiet, PortTypes, PortInv
<1>3. \A i \in Jobs \ {c} : Same(i)
  BY Names DEF Quiet, Same
<1>4. CASE c \in Jobs
  <2>1. \A p \in Ports : Holds(c, p)' <=> Holds(c, p)
    BY DEF Quiet, Holds
  <2> QED
    BY <1>1, <1>2, <1>3, <1>4, <2>1, JobMoves DEF Quiet
<1>5. CASE c \notin Jobs
  BY <1>1, <1>2, <1>3, <1>5, NothingMoves DEF Quiet
<1> QED
  BY <1>4, <1>5

\* A container that is up ends.
LEMMA EndKeeps ==
    ASSUME PortInv, Quiet, NEW c \in Containers, docker[c] = "up",
           NEW state \in {"down", "removed"}, Becomes(c, state), Emit(c, "die")
    PROVE  PortInv'
<1>0. PortTypes /\ \A i \in Jobs : PortOf(i)
  BY DEF PortInv
<1> DEFINE q == events[c]
<1>1. q \in Seq({"oom", "die"}) /\ events' = [events EXCEPT ![c] = Append(q, "die")]
  BY <1>0 DEF PortTypes, Emit
<1>2. Append(q, "die") \in Seq({"oom", "die"}) /\ Len(Append(q, "die")) = Len(q) + 1
  BY <1>1, Enqueued
<1>3. /\ docker' \in [Containers -> {"absent", "created", "up", "down", "removed"}]
      /\ events' \in [Containers -> Seq({"oom", "die"})]
      /\ docker'[c] = state /\ events'[c] = Append(q, "die")
      /\ \A d \in Containers \ {c} : docker'[d] = docker[d] /\ events'[d] = events[d]
  BY <1>0, <1>1, <1>2 DEF PortTypes, Becomes
<1>4. ASSUME c \in Jobs PROVE PortOf(c)'
  <2>1. ~Dying(c) /\ debugPort[c] = port[c] /\ PortOf(c) /\ HasRun(c)
    BY <1>0, <1>4 DEF PortOf, HasRun, HasEnded
  <2>2. \A k \in DOMAIN Append(q, "die") : Append(q, "die")[k] = "die" => k = Len(Append(q, "die"))
    BY <1>1, <1>2, <2>1, Enqueued DEF Dying
  <2>3. \A k \in DOMAIN events'[c] : events'[c][k] = "die" => k = Len(events'[c])
    BY <1>3, <2>2
  <2> QED
    BY <1>3, <2>1, <2>3 DEF PortOf, HasRun, HasEnded, Quiet
<1> QED
  BY <1>3, <1>4, QuietKeeps

\* Docker, the killer threads and the events: a container that dies has its port.
LEMMA ContainerKeeps ==
    ASSUME PortInv, NEW c \in Containers,
           ContainerStep(c) \/ EndContainer(c) \/ ExhaustMemory(c)
    PROVE  PortInv'
<1>0. PortTypes /\ \A i \in Jobs : PortOf(i)
  BY DEF PortInv
<1>1. Quiet
  BY DEF ContainerStep, EndContainer, ExhaustMemory, Quiet, DockerStarts, KillContainer, Watch, TimeOut, HandleOOM,
         channels, environment, jobs, dicts, ownPorts, talks, closings, agentState
<1>2. CASE docker' = docker /\ events' = events
  BY <1>0, <1>1, <1>2, QuietKeeps, SameKeeps DEF PortTypes, Same, Quiet
<1>3. CASE DockerStarts(c)
  <2>1. Starting(c) /\ docker[c] = "created" /\ docker' = [docker EXCEPT ![c] = "up"] /\ events' = events
    BY <1>3 DEF DockerStarts, Becomes
  <2>2. /\ docker' \in [Containers -> {"absent", "created", "up", "down", "removed"}]
        /\ docker'[c] = "up" /\ \A d \in Containers \ {c} : docker'[d] = docker[d]
    BY <1>0, <2>1 DEF PortTypes
  <2>3. ASSUME c \in Jobs PROVE PortOf(c)'
    <3>1. task[c] = "starting" /\ PortOf(c)
      BY <1>0, <2>1, <2>3 DEF Starting
    <3> QED
      BY <1>1, <2>1, <2>2, <3>1 DEF PortOf, HasRun, HasEnded, Dying, Quiet
  <2>4. events' \in [Containers -> Seq({"oom", "die"})]
    BY <1>0, <2>1 DEF PortTypes
  <2> QED
    BY <1>1, <2>1, <2>2, <2>3, <2>4, QuietKeeps
<1>4. CASE KillContainer(c)
  <2>1. (docker[c] = "up" /\ Becomes(c, "down") /\ Emit(c, "die")) \/ (docker' = docker /\ events' = events)
    BY <1>4 DEF KillContainer, RunKill, End, daemon
  <2> QED
    BY <1>1, <1>2, <2>1, EndKeeps
<1>5. CASE Watch(c)
  BY <1>2, <1>5 DEF Watch, WatcherStep, RegisterContainer, AnswerStatus, PassStatus, dockerVars, daemon
<1>6. CASE TimeOut(c)
  BY <1>2, <1>6 DEF TimeOut, KillItWithFire, daemon
<1>7. CASE HandleOOM(c)
  <2> DEFINE q == events[c]
  <2>1. q \in Seq({"oom", "die"}) /\ q # <<>> /\ Head(q) = "oom"
    BY <1>0, <1>7 DEF HandleOOM, ReadEvent, PortTypes
  <2>2. docker' = docker /\ events' = [events EXCEPT ![c] = Tail(q)]
    BY <1>7 DEF HandleOOM, ReadEvent
  <2>3. events' \in [Containers -> Seq({"oom", "die"})] /\ events'[c] = Tail(q)
        /\ \A d \in Containers \ {c} : events'[d] = events[d]
    BY <1>0, <2>1, <2>2, Dequeued DEF PortTypes
  <2>4. docker' \in [Containers -> {"absent", "created", "up", "down", "removed"}]
    BY <1>0, <2>2 DEF PortTypes
  <2>5. ASSUME c \in Jobs PROVE PortOf(c)'
    <3>1. PortOf(c)
      BY <1>0, <2>5
    <3>2. \A k \in DOMAIN Tail(q) : k + 1 \in DOMAIN q /\ Tail(q)[k] = q[k + 1] /\ k \in Nat
      BY <2>1, Dequeued
    <3>3. Len(Tail(q)) = Len(q) - 1
      BY <2>1, Dequeued
    <3>4. Dying(c)' => Dying(c)
      BY <2>3, <3>2 DEF Dying
    <3>5. ASSUME NEW k \in DOMAIN Tail(q), Tail(q)[k] = "die" PROVE k = Len(Tail(q))
      <4>1. k + 1 = Len(q)
        BY <3>1, <3>2, <3>5 DEF PortOf
      <4> QED
        BY <2>1, <3>2, <3>3, <3>5, <4>1
    <3> QED
      BY <1>1, <2>2, <2>3, <3>1, <3>4, <3>5 DEF PortOf, HasRun, HasEnded, Quiet
  <2> QED
    BY <1>1, <2>2, <2>3, <2>4, <2>5, QuietKeeps
<1>8. CASE EndContainer(c)
  BY <1>1, <1>8, EndKeeps DEF EndContainer, EndByItself, End
<1>9. CASE ExhaustMemory(c)
  <2> DEFINE q == events[c]
  <2>1. docker[c] = "up" /\ docker' = docker /\ q = <<>> /\ events' = [events EXCEPT ![c] = Append(q, "oom")]
    BY <1>9 DEF ExhaustMemory, OutOfMemory, Emit
  <2>2. q \in Seq({"oom", "die"})
    BY <1>0 DEF PortTypes
  <2>3. /\ events' \in [Containers -> Seq({"oom", "die"})] /\ events'[c] = Append(q, "oom")
        /\ \A d \in Containers \ {c} : events'[d] = events[d]
    BY <1>0, <2>1, <2>2, Enqueued DEF PortTypes
  <2>4. docker' \in [Containers -> {"absent", "created", "up", "down", "removed"}]
    BY <1>0, <2>1 DEF PortTypes
  <2>5. ASSUME c \in Jobs PROVE PortOf(c)'
    <3>1. PortOf(c)
      BY <1>0, <2>5
    <3>2. \A k \in DOMAIN Append(q, "oom") : Append(q, "oom")[k] = "oom"
      BY <2>1, <2>2, Enqueued
    <3>3. ~Dying(c)' /\ \A k \in DOMAIN events'[c] : events'[c][k] # "die"
      BY <2>3, <3>2 DEF Dying
    <3> QED
      BY <1>1, <2>1, <3>1, <3>3 DEF PortOf, HasRun, HasEnded, Quiet
  <2> QED
    BY <1>1, <2>1, <2>3, <2>4, <2>5, QuietKeeps
<1> QED
  BY <1>3, <1>4, <1>5, <1>6, <1>7, <1>8, <1>9 DEF ContainerStep

-----------------------------------------------------------------------------
(* The ends of containers as the agent handles them, and student containers. *)

\* Nothing follows the last event.
LEMMA OneLeft ==
    ASSUME NEW S, NEW q \in Seq(S), Len(q) = 1
    PROVE  DOMAIN Tail(q) = {}
<1>1. q # <<>> /\ \A k \in DOMAIN q : k = 1
  OBVIOUS
<1>2. \A k \in DOMAIN Tail(q) : FALSE
  BY <1>1, Dequeued
<1> QED
  BY <1>2

\* The death of a container of a job is read: the port it had is free again.
LEMMA ClosingP1Keeps ==
    ASSUME PortInv, NEW j \in Jobs, JobClosingP1(j)
    PROVE  PortInv'
<1>0. PortTypes /\ PortOf(j) /\ NoPort \notin Ports /\ j \in Containers
  BY Names DEF PortInv
<1> DEFINE q == events[j]
<1>1. q \in Seq({"oom", "die"}) /\ q # <<>> /\ Head(q) = "die"
  BY <1>0 DEF JobClosingP1, ReadEvent, PortTypes
<1>2. /\ toAgent' = toAgent /\ given' = given /\ UNCHANGED <<task, port, talk, closing, docker>>
      /\ events' = [events EXCEPT ![j] = Tail(q)]
      /\ sshPorts' = Returned(debugPort[j]) /\ debugPort' = [debugPort EXCEPT ![j] = NoPort]
      /\ ending' = ending \cup {j}
  BY DEF JobClosingP1, ReadEvent, channels, environment, jobs, talks, closings
<1>3. 1 \in DOMAIN q /\ q[1] = "die" /\ Tail(q) \in Seq({"oom", "die"}) /\ Len(Tail(q)) = Len(q) - 1
  BY <1>1, Dequeued
<1>4. HasEnded(j) /\ debugPort[j] = port[j] /\ Len(q) = 1
  BY <1>0, <1>3 DEF PortOf, Dying
<1>5. DOMAIN Tail(q) = {}
  BY <1>1, <1>4, OneLeft
<1>6. /\ debugPort'[j] = NoPort /\ events'[j] = Tail(q)
      /\ \A i \in Jobs \ {j} : Same(i)
  BY <1>0, <1>2, Names DEF PortTypes, Same
<1>7. PortTypes'
  BY <1>0, <1>2, <1>3 DEF PortTypes, Returned
<1>8. \A i \in Jobs : SentOnce(i)'
  BY <1>2, SentFrame DEF PortInv
<1>9. PortOf(j)'
  BY <1>0, <1>2, <1>4, <1>5, <1>6 DEF PortOf, HasRun, HasEnded, Dying
<1>10. \A p \in Ports : (Holds(j, p) <=> p = port[j]) /\ ~Holds(j, p)'
  BY <1>0, <1>2, <1>4, <1>6 DEF PortOf, Holds, HasRun, HasEnded
<1>11. \A i \in Jobs \ {j} : PortOf(i)' /\ \A p : Holds(i, p)' <=> Holds(i, p)
  BY <1>6, SameKeeps DEF PortInv
<1>12. ASSUME NEW p \in Ports PROVE Account(p)'
  <2>1. Account(p)
    BY DEF PortInv
  <2>2. CASE p = port[j]
    <3>1. p \in sshPorts' /\ Holds(j, p) /\ ~Holds(j, p)'
      BY <1>0, <1>2, <1>4, <1>10, <2>2 DEF Returned
    <3> QED
      BY <1>11, <2>1, <3>1, AccountReturned
  <2>3. CASE p # port[j]
    <3>1. p \in sshPorts' <=> p \in sshPorts
      BY <1>2, <1>4, <2>3 DEF Returned
    <3>2. \A i \in Jobs : Holds(i, p)' <=> Holds(i, p)
      BY <1>10, <1>11, <2>3
    <3> QED
      BY <2>1, <3>1, <3>2, AccountSame
  <2> QED
    BY <2>2, <2>3
<1> QED
  BY <1>7, <1>8, <1>9, <1>11, <1>12 DEF PortInv

\* The two phases of the end of a job: only the first moves a port.
LEMMA ClosingKeeps ==
    ASSUME PortInv, NEW j \in Jobs, ClosingStep(j)
    PROVE  PortInv'
<1>0. PortTypes /\ PortOf(j) /\ j \in Containers
  BY Names DEF PortInv
<1>1. ASSUME toAgent' = toAgent, given' = given, UNCHANGED <<task, port, debugPort, sshPorts, talk, events>>,
             ending' \subseteq ending, HasEnded(j),
             NEW r \in {"waiting", "deleting", "over"}, closing' = [closing EXCEPT ![j] = r],
             docker' = docker \/ docker' = [docker EXCEPT ![j] = "removed"]
      PROVE  PortInv'
  <2>1. closing'[j] = r /\ HasEnded(j)' /\ HasRun(j)' /\ docker'[j] # "up" /\ HasRun(j)
    BY <1>0, <1>1 DEF PortTypes, HasEnded, HasRun
  <2>2. \A i \in Jobs \ {j} : Same(i)
    BY <1>0, <1>1, Names DEF PortTypes, Same
  <2>3. PortTypes'
    BY <1>0, <1>1 DEF PortTypes
  <2>4. \A i \in Jobs : SentOnce(i)'
    BY <1>1, Aside
  <2>5. Dying(j)' <=> Dying(j)
    BY <1>1 DEF Dying
  <2>6. docker'[j] \in {"down", "removed"} /\ docker[j] \in {"down", "removed"}
    BY <1>1, <2>1 DEF HasEnded
  <2>7. PortOf(j)'
    BY <1>0, <1>1, <2>1, <2>5, <2>6 DEF PortOf
  <2>8. \A p \in Ports : Holds(j, p)' <=> Holds(j, p)
    BY <1>1 DEF Holds
  <2> QED
    BY <1>1, <2>2, <2>3, <2>4, <2>7, <2>8, JobMoves
<1>2. CASE JobClosingP1(j)
  BY <1>2, ClosingP1Keeps
<1>3. CASE JobClosingP2(j)
  <2>1. j \in ending /\ ending' = ending \ {j}
    BY <1>3 DEF JobClosingP2, ReadStatus
  <2>2. \E r \in {"waiting", "deleting"} : closing' = [closing EXCEPT ![j] = r]
    BY <1>3 DEF JobClosingP2
  <2>3. toAgent' = toAgent /\ given' = given /\ UNCHANGED <<task, port, debugPort, sshPorts, talk, events, docker>>
    BY <1>3 DEF JobClosingP2, channels, dockerVars, daemon, environment, jobs, ownPorts, talks
  <2>4. HasEnded(j)
    BY <1>0, <2>1 DEF PortOf
  <2> QED
    BY <1>1, <2>1, <2>2, <2>3, <2>4
<1>4. CASE TakeResult(j)
  <2>1. closing[j] = "waiting" /\ closing' = [closing EXCEPT ![j] = "deleting"]
    BY <1>4 DEF TakeResult
  <2>2. toAgent' = toAgent /\ given' = given /\ UNCHANGED <<task, port, debugPort, sshPorts, talk, events, docker, ending>>
    BY <1>4 DEF TakeResult, channels, dockerVars, daemon, environment, jobs, dicts, ownPorts, talks
  <2>3. HasEnded(j)
    BY <1>0, <2>1 DEF PortOf
  <2> QED
    BY <1>1, <2>1, <2>2, <2>3
<1>5. CASE SendResult(j) \/ DeleteFails(j)
  <2>1. /\ closing[j] = "deleting" /\ closing' = [closing EXCEPT ![j] = "over"]
        /\ docker' = [docker EXCEPT ![j] = "removed"]
    BY <1>5 DEF SendResult, DeleteFails, Becomes
  <2>2. toAgent' = toAgent /\ given' = given /\ UNCHANGED <<task, port, debugPort, sshPorts, talk, events, ending>>
    BY <1>5 DEF SendResult, DeleteFails, channels, environment, jobs, dicts, ownPorts, talks
  <2>3. HasEnded(j)
    BY <1>0, <2>1 DEF PortOf
  <2> QED
    BY <1>1, <2>1, <2>2, <2>3
<1> QED
  BY <1>2, <1>3, <1>4, <1>5 DEF ClosingStep

\* Student containers have no port of their own.
LEMMA StudentKeeps ==
    ASSUME PortInv, NEW s \in Students, ReadRunStudent(s) \/ StudentStep(s) \/ CloseContainer(s)
    PROVE  PortInv'
<1>0. PortTypes /\ s \in Containers /\ s \notin Jobs
  BY Names DEF PortInv
<1>1. toAgent' = toAgent /\ given' = given /\ UNCHANGED <<task, port, debugPort, sshPorts, talk, closing>>
  BY DEF ReadRunStudent, TalkUnchanged, StudentStep, RefuseStudent, CreateStudent, StudentStartFails, StudentStarted,
         StudentClosingP1, StudentClosingP2, CloseContainer, channels, environment, jobs, ownPorts, talks, closings, agentState
<1>2. \A i \in Jobs : SentOnce(i)'
  BY <1>1, Aside
<1>3. ASSUME \A c \in Containers \ {s} : docker'[c] = docker[c] /\ events'[c] = events[c],
             docker' \in [Containers -> {"absent", "created", "up", "down", "removed"}],
             events' \in [Containers -> Seq({"oom", "die"})],
             ending' \subseteq ending \cup {s}
      PROVE  PortInv'
  <2>1. PortTypes'
    BY <1>0, <1>1, <1>3 DEF PortTypes
  <2>2. \A i \in Jobs : Same(i)
    BY <1>0, <1>1, <1>3, Names DEF Same
  <2> QED
    BY <1>1, <1>2, <2>1, <2>2, NothingMoves
<1>4. CASE docker' = docker /\ events' = events /\ ending' = ending
  BY <1>0, <1>3, <1>4 DEF PortTypes
<1>5. CASE ReadRunStudent(s)
  BY <1>4, <1>5 DEF ReadRunStudent, TalkUnchanged, dockerVars, daemon, dicts
<1>6. CASE RefuseStudent(s) \/ StudentStartFails(s) \/ StudentStarted(s)
  BY <1>4, <1>6 DEF RefuseStudent, StudentStartFails, StudentStarted, dockerVars, daemon, dicts
<1>7. CASE CreateStudent(s)
  <2>1. docker' = [docker EXCEPT ![s] = "created"] /\ events' = events /\ ending' = ending
    BY <1>7 DEF CreateStudent, Becomes
  <2> QED
    BY <1>0, <1>3, <2>1 DEF PortTypes
<1>8. CASE StudentClosingP1(s)
  <2> DEFINE q == events[s]
  <2>1. events' = [events EXCEPT ![s] = Tail(q)] /\ docker' = docker /\ ending' = ending \cup {s} /\ q # <<>>
    BY <1>8 DEF StudentClosingP1, ReadEvent
  <2>2. q \in Seq({"oom", "die"})
    BY <1>0 DEF PortTypes
  <2>3. Tail(q) \in Seq({"oom", "die"})
    BY <2>1, <2>2, Dequeued
  <2> QED
    BY <1>0, <1>3, <2>1, <2>3 DEF PortTypes
<1>9. CASE StudentClosingP2(s)
  <2>1. docker' = [docker EXCEPT ![s] = "removed"] /\ events' = events /\ ending' = ending \ {s}
    BY <1>9 DEF StudentClosingP2, ReadStatus, Becomes
  <2> QED
    BY <1>0, <1>3, <2>1 DEF PortTypes
<1>10. CASE CloseContainer(s)
  <2>1. \/ docker[s] = "up" /\ Becomes(s, "removed") /\ Emit(s, "die")
        \/ docker' = docker /\ events' = events
    BY <1>10 DEF CloseContainer, RunClose, End, daemon
  <2>2. ending' = ending
    BY <1>10 DEF CloseContainer, agentState, dicts
  <2> QED
    BY <1>1, <1>4, <2>1, <2>2, <1>0, EndKeeps DEF Quiet
<1> QED
  BY <1>5, <1>6, <1>7, <1>8, <1>9, <1>10 DEF StudentStep

-----------------------------------------------------------------------------
\* Every port is free at first.
LEMMA InitPorts == Init => PortInv
<1> SUFFICES ASSUME Init PROVE PortInv
  OBVIOUS
<1>1. /\ toAgent = [a \in Agents |-> <<>>] /\ docker = [c \in Containers |-> "absent"]
      /\ events = [c \in Containers |-> <<>>] /\ given = {} /\ ending = {} /\ sshPorts = Ports
      /\ task = [j \in Jobs |-> "none"] /\ port = [j \in Jobs |-> NoPort] /\ debugPort = [j \in Jobs |-> NoPort]
      /\ talk = [j \in Jobs |-> "no"] /\ closing = [j \in Jobs |-> "no"]
  BY DEF Init, ChannelsInit, DockerInit
<1>2. PortTypes
  BY <1>1 DEF PortTypes
<1>3. ASSUME NEW j \in Jobs PROVE SentOnce(j) /\ PortOf(j) /\ \A p \in Ports : ~Holds(j, p)
  <2>1. SentOnce(j)
    BY <1>1, Names DEF SentOnce
  <2>2. events[j] = <<>> /\ docker[j] = "absent"
    BY <1>1, Names
  <2>3. PortOf(j)
    BY <1>1, <2>2 DEF PortOf, Dying, HasRun, HasEnded
  <2> QED
    BY <1>1, <2>1, <2>3 DEF Holds
<1>4. \A p \in Ports : Account(p)
  BY <1>1, <1>3 DEF Account
<1> QED
  BY <1>2, <1>3, <1>4 DEF PortInv

\* The inductive invariant: whatever the order of docker's events, kills and
\* failures, the container of a job has the port its handler took, until its
\* death has been handled, once; and each port is free or held by one job.
THEOREM PortInvariant == Spec => []PortInv
<1>1. Init => PortInv
  BY InitPorts
<1>2. PortInv /\ [Next]_vars => PortInv'
  <2> SUFFICES ASSUME PortInv, [Next]_vars PROVE PortInv'
    OBVIOUS
  <2>1. CASE UNCHANGED vars
    <3>1. UNCHANGED <<toAgent, given, task, port, debugPort, sshPorts, talk, closing, docker, events, ending>>
      BY <2>1 DEF vars, channels, dockerVars, daemon, environment, jobs, dicts, ownPorts, talks, closings
    <3>2. \A i \in Jobs : SentOnce(i)' /\ Same(i)
      BY <3>1, Aside DEF Same
    <3>3. PortTypes'
      BY <3>1 DEF PortInv, PortTypes
    <3>4. sshPorts' = sshPorts /\ (\A i \in Jobs : SentOnce(i)') /\ (\A i \in Jobs : Same(i))
      BY <3>1, <3>2
    <3> QED
      BY <3>3, <3>4, NothingMoves
  <2>2. CASE Start
    <3>1. UNCHANGED <<toAgent, given, task, port, debugPort, sshPorts, talk, closing, docker, events, ending>>
      BY <2>2 DEF Start, dockerVars, daemon, jobs, dicts, ownPorts, talks, closings
    <3>2. \A i \in Jobs : SentOnce(i)' /\ Same(i)
      BY <3>1, Aside DEF Same
    <3>3. PortTypes'
      BY <3>1 DEF PortInv, PortTypes
    <3>4. sshPorts' = sshPorts /\ (\A i \in Jobs : SentOnce(i)') /\ (\A i \in Jobs : Same(i))
      BY <3>1, <3>2
    <3> QED
      BY <3>3, <3>4, NothingMoves
  <2>3. ASSUME NEW j \in Jobs,
               \/ SendNewJob(j) \/ SendKillJob(j)
               \/ ReadBackend(j) \/ NewJobStep(j) \/ PrepareFails(j)
               \/ Attach(j) \/ AttachFails(j)
               \/ ReadResult(j) \/ ReadGarbage(j) \/ ReadEOF(j) \/ ReadSshKey(j)
               \/ ClosingStep(j)
        PROVE  PortInv'
    BY <2>3, SendNewJobKeeps, SendKillJobKeeps, ReadBackendKeeps, NewJobKeeps, TalkKeeps, ClosingKeeps
  <2>4. ASSUME NEW s \in Students, ReadRunStudent(s) \/ StudentStep(s) \/ CloseContainer(s)
        PROVE  PortInv'
    BY <2>4, StudentKeeps
  <2>5. ASSUME NEW c \in Containers, ContainerStep(c) \/ EndContainer(c) \/ ExhaustMemory(c)
        PROVE  PortInv'
    BY <2>5, ContainerKeeps
  <2> QED
    BY <2>1, <2>2, <2>3, <2>4, <2>5 DEF Next
<1> QED
  BY <1>1, <1>2, PTL DEF Spec

\* No ssh port is shared or lost but by the failures no handler expects, on any
\* of the four paths that give it back, and for any number of jobs at once.
THEOREM PortsSafe == Spec => []PortsAccountedFor
<1>1. PortInv => PortsAccountedFor
  <2> SUFFICES ASSUME PortInv PROVE PortsAccountedFor
    OBVIOUS
  <2>1. ASSUME NEW p \in Ports
        PROVE  Cardinality({j \in Jobs : Holds(j, p)}) = IF p \in sshPorts THEN 0 ELSE 1
    <3>1. Account(p)
      BY DEF PortInv
    <3>2. CASE p \in sshPorts
      <4>1. {j \in Jobs : Holds(j, p)} = {}
        BY <3>1, <3>2 DEF Account
      <4> QED
        BY <3>2, <4>1, FS_EmptySet
    <3>3. CASE p \notin sshPorts
      <4>1. PICK j \in Jobs : \A i \in Jobs : Holds(i, p) <=> i = j
        BY <3>1, <3>3 DEF Account
      <4>2. {i \in Jobs : Holds(i, p)} = {j}
        BY <4>1
      <4> QED
        BY <3>3, <4>2, FS_Singleton
    <3> QED
      BY <3>2, <3>3
  <2>2. ASSUME NEW j \in Jobs, docker[j] = "up", port[j] # NoPort
        PROVE  Holds(j, port[j])
    <3>1. PortOf(j) /\ HasRun(j)
      BY <2>2 DEF PortInv, HasRun
    <3> QED
      BY <2>2, <3>1 DEF PortOf, Holds
  <2> QED
    BY <2>1, <2>2 DEF PortsAccountedFor
<1> QED
  BY <1>1, PortInvariant, PTL

-----------------------------------------------------------------------------
(* The life of a container, and what is said of its end.                    *)

\* The status of the container is in the pipeline, or has come out of it.
Status(c, k) == Has(pipe[c], k)
Checked(c, k) == [container |-> c, result |-> k] \in checked

\* Nothing is said of the end of a container yet.
Unsaid(c) ==
    /\ \A k \in Killings : ~Status(c, k) /\ ~Checked(c, k)
    /\ verdict[c] = "none"
    /\ c \in Jobs => closing[c] = "no"

\* A container is known to the agent from its creation until its death has been
\* handled; its status goes once through the pipeline after that.
Life(c) ==
    /\ docker[c] = "absent" => c \notin running /\ c \notin killCalls /\ killed[c] = "none"
    /\ docker[c] \in {"absent", "created"} => events[c] = <<>> /\ pipe[c] = <<>> /\ c \notin watching
    /\ docker[c] = "up" => c \in running
    /\ ~HasEnded(c) => died[c] = "no"
    /\ Has(events[c], "die") => HasEnded(c)
    /\ c \in running /\ HasEnded(c) => Has(events[c], "die")
    /\ Once(events[c], "die")
    /\ c \in running \/ ~HasRun(c) => Unsaid(c)
    /\ c \in ending => HasEnded(c) /\ verdict[c] = "none" /\ (c \in Jobs => closing[c] = "no")
    /\ \A k \in Killings :
         /\ Once(pipe[c], k)
         /\ Status(c, k) \/ Checked(c, k) => c \in ending
         /\ \A m \in Killings : (Status(c, k) \/ Checked(c, k)) /\ (Status(c, m) \/ Checked(c, m)) => k = m
         /\ ~(Status(c, k) /\ Checked(c, k))

\* The agent has killed the container, or is about to.
Doomed(c) == died[c] = "killed" \/ (c \in killCalls /\ docker[c] \in {"created", "up"})

\* That it has is remembered wherever the report of the end has got to.
Remembered(c) ==
    Doomed(c) =>
        /\ c \in running => killed[c] # "none" \/ c \in hadError
        /\ Status(c, "none") => c \in hadError
        /\ ~Checked(c, "none")
        /\ verdict[c] # "own" /\ (c \in Jobs => closing[c] # "waiting")

\* The messages of the agent about a job
Said(type, j) == Has(fromAgent[Self], Message(type, j))
Notified(j) == Said("started", j) \/ Said("ssh_debug", j)

\* An answered job has ended, or has no container that ran.
Answered(j) ==
    /\ task[j] # "none" => phase = "up"
    /\ j \in running <=> j \in studentsFor
    /\ docker[j] = "absent" => j \notin containerForJob
    /\ docker[j] = "created" => j \in running
    /\ closing[j] # "no" => HasEnded(j) /\ j \notin running /\ j \notin ending
    /\ Said("done", j) =>
         /\ closing[j] = "over" \/ (task[j] \in {"refused", "over", "failed"} /\ talk[j] = "no")
         /\ j \notin running => killed[j] = "none" /\ j \notin containerForJob
    /\ Notified(j) => talk[j] # "no"
    /\ j \notin running => debugPort[j] = NoPort
    /\ port[j] # NoPort \/ debugPort[j] # NoPort => j \in DebugJobs

\* A student container is answered once, and only once it has ended.
Served(s) ==
    /\ request[s] \in {"none", "creating"} => docker[s] = "absent"
    /\ request[s] = "starting" => docker[s] # "absent" /\ (docker[s] = "created" => s \in running)
    /\ docker[s] = "created" => s \notin killCalls
    /\ request[s] # "none" => talk[Parent[s]] \in {"talking", "over"}
    /\ s \in closeCalls => HasEnded(Parent[s])
    /\ replies[s] \in {0, 1}
    /\ replies[s] = 1 =>
         /\ docker[s] \notin {"up", "down"} /\ s \notin ending
         /\ ~(s \in running /\ docker[s] = "removed")
         /\ docker[s] # "removed" => request[s] = "over"
    /\ (request[s] = "over" \/ docker[s] = "removed") /\ Listening(s) /\ docker[Parent[s]] = "up" =>
         replies[s] = 1 \/ docker[s] \in {"up", "down"}

\* The inductive invariant, next to PortInv
DockerInv ==
    /\ TypeOK
    /\ \A c \in Containers : Life(c) /\ Remembered(c)
    /\ \A j \in Jobs : Answered(j)
    /\ \A s \in Students : Served(s)


-----------------------------------------------------------------------------
(* Frames, and what a step does to a queue of messages or of events.        *)

\* A step that Life and Remembered do not see
SameLife(c) ==
    /\ docker'[c] = docker[c] /\ events'[c] = events[c] /\ died'[c] = died[c] /\ pipe'[c] = pipe[c]
    /\ killed'[c] = killed[c] /\ verdict'[c] = verdict[c] /\ (c \in Jobs => closing'[c] = closing[c])
    /\ c \in running' <=> c \in running
    /\ c \in ending' <=> c \in ending
    /\ c \in killCalls' <=> c \in killCalls
    /\ c \in watching' <=> c \in watching
    /\ c \in hadError' <=> c \in hadError
    /\ \A k \in Killings : Checked(c, k)' <=> Checked(c, k)

\* A step that Answered does not see
SameAnswered(j) ==
    /\ task'[j] = task[j] /\ docker'[j] = docker[j] /\ closing'[j] = closing[j] /\ talk'[j] = talk[j]
    /\ killed'[j] = killed[j] /\ port'[j] = port[j] /\ debugPort'[j] = debugPort[j] /\ phase' = phase
    /\ j \in running' <=> j \in running
    /\ j \in ending' <=> j \in ending
    /\ j \in studentsFor' <=> j \in studentsFor
    /\ j \in containerForJob' <=> j \in containerForJob
    /\ Said("done", j)' <=> Said("done", j)
    /\ Notified(j)' <=> Notified(j)

\* A step that Served does not see
SameServed(s) ==
    /\ docker'[s] = docker[s] /\ request'[s] = request[s] /\ replies'[s] = replies[s]
    /\ docker'[Parent[s]] = docker[Parent[s]] /\ talk'[Parent[s]] = talk[Parent[s]]
    /\ s \in running' <=> s \in running
    /\ s \in ending' <=> s \in ending
    /\ s \in killCalls' <=> s \in killCalls
    /\ s \in closeCalls' <=> s \in closeCalls

\* Such steps keep what is said of each.
LEMMA LifeFrame ==
    ASSUME NEW c \in Containers, Life(c), Remembered(c), SameLife(c)
    PROVE  Life(c)' /\ Remembered(c)'
<1>1. /\ HasEnded(c)' <=> HasEnded(c)
      /\ HasRun(c)' <=> HasRun(c)
      /\ Doomed(c)' <=> Doomed(c)
      /\ \A k \in Killings : Status(c, k)' <=> Status(c, k)
  BY DEF SameLife, HasEnded, HasRun, Doomed, Status
<1>2. Unsaid(c)' <=> Unsaid(c)
  BY <1>1 DEF SameLife, Unsaid
<1>3. Life(c)'
  BY <1>1, <1>2 DEF SameLife, Life
<1>4. Remembered(c)'
  BY <1>1 DEF SameLife, Remembered, Killings
<1> QED
  BY <1>3, <1>4

\* A step that changes nothing Answered looks at keeps it,
LEMMA AnsweredFrame ==
    ASSUME NEW j \in Jobs, Answered(j), SameAnswered(j)
    PROVE  Answered(j)'
BY DEF SameAnswered, Answered, HasEnded

\* and likewise for Served.
LEMMA ServedFrame ==
    ASSUME NEW s \in Students, Served(s), SameServed(s)
    PROVE  Served(s)'
BY DEF SameServed, Served, Listening, HasEnded

\* A step about the grading container that asked for the student container
LEMMA ParentFrame ==
    ASSUME NEW s \in Students, Served(s),
           docker'[s] = docker[s], request'[s] = request[s], replies'[s] = replies[s],
           s \in running' <=> s \in running, s \in ending' <=> s \in ending,
           s \in killCalls' <=> s \in killCalls, s \in closeCalls' => s \in closeCalls \/ HasEnded(Parent[s])',
           HasEnded(Parent[s]) => HasEnded(Parent[s])',
           request[s] # "none" => talk'[Parent[s]] \in {"talking", "over"},
           talk'[Parent[s]] = "talking" /\ docker'[Parent[s]] = "up" =>
             request[s] = "none" \/ (talk[Parent[s]] = "talking" /\ docker[Parent[s]] = "up")
    PROVE  Served(s)'
BY DEF Served, Listening

\* What the proofs below start from
Known == PortInv /\ DockerInv

\* A step about the container c
LEMMA OneLife ==
    ASSUME DockerInv, TypeOK', NEW c \in Containers, Life(c)', Remembered(c)',
           \A d \in Containers \ {c} : SameLife(d),
           \A j \in Jobs : Answered(j)', \A s \in Students : Served(s)'
    PROVE  DockerInv'
<1>1. \A d \in Containers \ {c} : Life(d)' /\ Remembered(d)'
  BY LifeFrame DEF DockerInv
<1> QED
  BY <1>1 DEF DockerInv

\* A step about no container
LEMMA NoLife ==
    ASSUME DockerInv, TypeOK', \A c \in Containers : SameLife(c),
           \A j \in Jobs : Answered(j)', \A s \in Students : Served(s)'
    PROVE  DockerInv'
BY LifeFrame DEF DockerInv

\* The agent sends a message.
LEMMA AgentSends ==
    ASSUME DockerInv, NEW m \in AgentToBackend, SendToBackend(Self, m)
    PROVE  /\ fromAgent' \in [Agents -> Seq(AgentToBackend)]
           /\ \A type, j : Said(type, j)' <=> Said(type, j) \/ m = Message(type, j)
<1>1. Self \in Agents /\ fromAgent[Self] \in Seq(AgentToBackend) /\ fromAgent \in [Agents -> Seq(AgentToBackend)]
  BY Names DEF DockerInv, TypeOK, ChannelsTypeOK
<1>2. fromAgent' = [fromAgent EXCEPT ![Self] = Append(fromAgent[Self], m)]
  BY DEF SendToBackend
<1>3. Append(fromAgent[Self], m) \in Seq(AgentToBackend)
  BY <1>1, ChannelSent
<1>4. fromAgent'[Self] = Append(fromAgent[Self], m) /\ fromAgent' \in [Agents -> Seq(AgentToBackend)]
  BY <1>1, <1>2, <1>3
<1>5. \A n : Has(Append(fromAgent[Self], m), n) <=> Has(fromAgent[Self], n) \/ n = m
  BY <1>1, ChannelSent
<1> QED
  BY <1>4, <1>5 DEF Said, Notified

\* Its messages about jobs are different messages.
LEMMA Messages ==
    /\ \A type, other, j, i : Message(type, j) = Message(other, i) <=> type = other /\ j = i
    /\ \A j \in Jobs : /\ Message("done", j) \in AgentToBackend /\ Message("started", j) \in AgentToBackend
                       /\ Message("ssh_debug", j) \in AgentToBackend
    /\ Message("hello", NoJob) \in AgentToBackend
BY DEF Message, AgentToBackend

\* A message is pushed into the pipeline,
LEMMA Pushed ==
    ASSUME DockerInv, NEW c \in Containers, NEW m \in {"register"} \cup Killings, Push(c, m)
    PROVE  /\ pipe' \in [Containers -> Seq({"register"} \cup Killings)] /\ pipe'[c] # <<>>
           /\ \A d \in Containers \ {c} : pipe'[d] = pipe[d]
           /\ \A k \in Killings : Status(c, k)' <=> Status(c, k) \/ k = m
           /\ \A k \in Killings : Once(pipe[c], k) /\ (k = m => ~Status(c, k)) => Once(pipe'[c], k)
<1> DEFINE S == {"register"} \cup Killings
<1>1. pipe \in [Containers -> Seq(S)] /\ pipe' = [pipe EXCEPT ![c] = Append(@, m)] /\ m \in S
  BY DEF DockerInv, TypeOK, WatchersTypeOK, Push
<1> HIDE DEF S
<1>2. pipe[c] \in Seq(S) /\ pipe'[c] = Append(pipe[c], m) /\ \A d \in Containers \ {c} : pipe'[d] = pipe[d]
  BY <1>1
<1>3. /\ pipe'[c] \in Seq(S) /\ pipe'[c] # <<>>
      /\ \A k : Has(pipe'[c], k) <=> Has(pipe[c], k) \/ k = m
      /\ \A k : Once(pipe[c], k) /\ (k = m => ~Has(pipe[c], k)) => Once(pipe'[c], k)
  BY <1>1, <1>2, ChannelSent
<1>4. pipe' \in [Containers -> Seq(S)]
  BY <1>1, <1>3
<1> QED
  BY <1>2, <1>3, <1>4 DEF S, Status

\* and pulled out of it.
LEMMA Pulled ==
    ASSUME DockerInv, NEW c \in Containers, Pull(c)
    PROVE  /\ pipe' \in [Containers -> Seq({"register"} \cup Killings)] /\ Head(pipe[c]) \in {"register"} \cup Killings
           /\ \A d \in Containers \ {c} : pipe'[d] = pipe[d]
           /\ pipe[c] # <<>>
           /\ \A k \in Killings : Status(c, k) <=> Status(c, k)' \/ k = Head(pipe[c])
           /\ \A k \in Killings : Once(pipe[c], k) => Once(pipe'[c], k) /\ (k = Head(pipe[c]) => ~Status(c, k)')
<1> DEFINE S == {"register"} \cup Killings
<1>1. pipe \in [Containers -> Seq(S)] /\ pipe' = [pipe EXCEPT ![c] = Tail(@)] /\ pipe[c] # <<>>
  BY DEF DockerInv, TypeOK, WatchersTypeOK, Pull
<1> HIDE DEF S
<1>2. pipe[c] \in Seq(S) /\ pipe'[c] = Tail(pipe[c]) /\ \A d \in Containers \ {c} : pipe'[d] = pipe[d]
  BY <1>1
<1>3. /\ pipe'[c] \in Seq(S) /\ Head(pipe[c]) \in S
      /\ \A k : Has(pipe[c], k) <=> Has(pipe'[c], k) \/ k = Head(pipe[c])
      /\ \A k : Once(pipe[c], k) => Once(pipe'[c], k)
      /\ \A k : Once(pipe[c], k) /\ k = Head(pipe[c]) => ~Has(pipe'[c], k)
  BY <1>1, <1>2, ChannelRead
<1>4. pipe' \in [Containers -> Seq(S)]
  BY <1>1, <1>3
<1> QED
  BY <1>1, <1>2, <1>3, <1>4 DEF S, Status

\* An event happens,
LEMMA Emitted ==
    ASSUME DockerInv, NEW c \in Containers, NEW event \in {"oom", "die"}, Emit(c, event)
    PROVE  /\ events' \in [Containers -> Seq({"oom", "die"})]
           /\ \A d \in Containers \ {c} : events'[d] = events[d]
           /\ Has(events'[c], "die") <=> Has(events[c], "die") \/ event = "die"
           /\ Once(events[c], "die") /\ (event = "die" => ~Has(events[c], "die")) => Once(events'[c], "die")
<1> DEFINE S == {"oom", "die"}
<1>1. events \in [Containers -> Seq(S)] /\ events' = [events EXCEPT ![c] = Append(@, event)] /\ event \in S
  BY DEF DockerInv, TypeOK, DockerTypeOK, Emit
<1> HIDE DEF S
<1>2. events[c] \in Seq(S) /\ events'[c] = Append(events[c], event) /\ \A d \in Containers \ {c} : events'[d] = events[d]
  BY <1>1
<1>3. /\ events'[c] \in Seq(S)
      /\ \A k : Has(events'[c], k) <=> Has(events[c], k) \/ k = event
      /\ \A k : Once(events[c], k) /\ (k = event => ~Has(events[c], k)) => Once(events'[c], k)
  BY <1>1, <1>2, ChannelSent
<1>4. events' \in [Containers -> Seq(S)]
  BY <1>1, <1>3
<1> QED
  BY <1>2, <1>3, <1>4 DEF S

\* and the agent hears of it.
LEMMA Heard ==
    ASSUME DockerInv, NEW c \in Containers, NEW event, ReadEvent(c, event)
    PROVE  /\ events' \in [Containers -> Seq({"oom", "die"})]
           /\ \A d \in Containers \ {c} : events'[d] = events[d]
           /\ events[c] # <<>> /\ Has(events[c], event)
           /\ Has(events[c], "die") <=> Has(events'[c], "die") \/ event = "die"
           /\ Once(events[c], "die") => Once(events'[c], "die") /\ (event = "die" => ~Has(events'[c], "die"))
<1> DEFINE S == {"oom", "die"}
<1>1. /\ events \in [Containers -> Seq(S)] /\ events' = [events EXCEPT ![c] = Tail(@)]
      /\ events[c] # <<>> /\ Head(events[c]) = event
  BY DEF DockerInv, TypeOK, DockerTypeOK, ReadEvent
<1> HIDE DEF S
<1>2. events[c] \in Seq(S) /\ events'[c] = Tail(events[c]) /\ \A d \in Containers \ {c} : events'[d] = events[d]
  BY <1>1
<1>3. /\ events'[c] \in Seq(S) /\ Has(events[c], event)
      /\ \A k : Has(events[c], k) <=> Has(events'[c], k) \/ k = event
      /\ \A k : Once(events[c], k) => Once(events'[c], k)
      /\ \A k : Once(events[c], k) /\ k = event => ~Has(events'[c], k)
  BY <1>1, <1>2, ChannelRead
<1>4. events' \in [Containers -> Seq(S)]
  BY <1>1, <1>3
<1> QED
  BY <1>1, <1>2, <1>3, <1>4 DEF S

-----------------------------------------------------------------------------
(* The agent starts; the backend sends jobs and kills.                      *)

\* The agent says hello.
LEMMA StartInv ==
    ASSUME Known, Start
    PROVE  DockerInv'
<1> USE DEF Known
<1>1. /\ phase' = "up" /\ Message("hello", NoJob) \in AgentToBackend
      /\ UNCHANGED <<toAgent, dockerVars, pipeline, given, kills, jobs, dicts, ownPorts, talks, closings, loop, studentTasks>>
  BY Messages DEF Start
<1>2. /\ fromAgent' \in [Agents -> Seq(AgentToBackend)]
      /\ \A type \in {"done", "started", "ssh_debug"}, j \in Jobs : Said(type, j)' <=> Said(type, j)
  BY <1>1, AgentSends, Messages DEF Start
<1>3. TypeOK'
  BY <1>1, <1>2 DEF DockerInv, TypeOK, ChannelsTypeOK, DockerTypeOK, WatchersTypeOK,
     dockerVars, daemon, pipeline, jobs, dicts, ownPorts, talks, closings, studentTasks
<1>4. \A c \in Containers : SameLife(c)
  BY <1>1 DEF SameLife, Checked, dockerVars, daemon, pipeline, dicts, closings
<1>5. \A j \in Jobs : Answered(j)'
  BY <1>1, <1>2 DEF DockerInv, Answered, Notified, HasEnded, dockerVars, daemon, jobs, dicts, ownPorts, talks, closings
<1>6. \A s \in Students : SameServed(s)
  BY <1>1 DEF SameServed, dockerVars, daemon, dicts, talks, studentTasks
<1> QED
  BY <1>3, <1>4, <1>5, <1>6, NoLife, ServedFrame DEF DockerInv

\* A message to the agent
LEMMA SendInv ==
    ASSUME Known, NEW j \in Jobs, SendNewJob(j) \/ SendKillJob(j)
    PROVE  DockerInv'
<1> USE DEF Known
<1>1. /\ given' \subseteq Jobs /\ kills' \in 0..MaxKills
      /\ \E m \in BackendToAgent : SendToAgent(Self, m)
      /\ UNCHANGED <<fromAgent, dockerVars, pipeline, phase, jobs, dicts, ownPorts, talks, closings, loop, studentTasks>>
  BY DockerAgentAssumption DEF SendNewJob, SendKillJob, DockerInv, TypeOK, Message, BackendToAgent
<1>2. toAgent' \in [Agents -> Seq(BackendToAgent)]
  <2>1. PICK m \in BackendToAgent : toAgent' = [toAgent EXCEPT ![Self] = Append(toAgent[Self], m)]
    BY <1>1 DEF SendToAgent
  <2>2. toAgent \in [Agents -> Seq(BackendToAgent)] /\ toAgent[Self] \in Seq(BackendToAgent)
    BY Names DEF DockerInv, TypeOK, ChannelsTypeOK
  <2>3. Append(toAgent[Self], m) \in Seq(BackendToAgent)
    BY <2>2, ChannelSent
  <2> QED
    BY <2>1, <2>2, <2>3
<1>3. TypeOK'
  BY <1>1, <1>2 DEF DockerInv, TypeOK, ChannelsTypeOK, DockerTypeOK, WatchersTypeOK,
     dockerVars, daemon, pipeline, jobs, dicts, ownPorts, talks, closings, studentTasks
<1>4. \A c \in Containers : SameLife(c)
  BY <1>1 DEF SameLife, Checked, dockerVars, daemon, pipeline, dicts, closings
<1>5. \A i \in Jobs : SameAnswered(i)
  BY <1>1 DEF SameAnswered, Said, Notified, dockerVars, daemon, jobs, dicts, ownPorts, talks, closings
<1>6. \A s \in Students : SameServed(s)
  BY <1>1 DEF SameServed, dockerVars, daemon, dicts, talks, studentTasks
<1> QED
  BY <1>3, <1>4, <1>5, <1>6, NoLife, AnsweredFrame, ServedFrame DEF DockerInv

\* A message is read.
LEMMA ReceiveTypes ==
    ASSUME Known, NEW j \in Jobs, NEW type, Receive(type, j)
    PROVE  toAgent' \in [Agents -> Seq(BackendToAgent)] /\ phase = "up"
<1>1. Self \in Agents /\ toAgent \in [Agents -> Seq(BackendToAgent)]
  BY Names DEF Known, DockerInv, TypeOK, ChannelsTypeOK
<1>2. toAgent[Self] \in Seq(BackendToAgent) /\ toAgent[Self] # <<>> /\ toAgent' = [toAgent EXCEPT ![Self] = Tail(@)]
  BY <1>1 DEF Receive
<1>3. Tail(toAgent[Self]) \in Seq(BackendToAgent)
  BY <1>2, ChannelRead
<1> QED
  BY <1>1, <1>2, <1>3 DEF Receive

\* handle_new_job is called.
LEMMA ReceiveNewJobInv ==
    ASSUME Known, NEW j \in Jobs, ReceiveNewJob(j)
    PROVE  DockerInv'
<1> USE DEF Known
<1>1. /\ toAgent' \in [Agents -> Seq(BackendToAgent)] /\ phase = "up" /\ task' = [task EXCEPT ![j] = "received"]
      /\ task[j] = "none"
      /\ UNCHANGED <<fromAgent, dockerVars, pipeline, environment, port, dicts, ownPorts, talks, closings, loop, studentTasks>>
  BY ReceiveTypes, ReceiveSent DEF ReceiveNewJob, environment
<1>2. TypeOK'
  BY <1>1 DEF DockerInv, TypeOK, ChannelsTypeOK, DockerTypeOK, WatchersTypeOK,
     dockerVars, daemon, pipeline, environment, dicts, ownPorts, talks, closings, studentTasks
<1>3. \A c \in Containers : SameLife(c)
  BY <1>1 DEF SameLife, Checked, dockerVars, daemon, pipeline, dicts, closings
<1>4. \A i \in Jobs \ {j} : SameAnswered(i)
  BY <1>1 DEF SameAnswered, Said, Notified, dockerVars, daemon, environment, dicts, ownPorts, talks, closings, DockerInv, TypeOK
<1>5. task'[j] = "received"
  BY <1>1 DEF DockerInv, TypeOK
<1>6. /\ UNCHANGED <<fromAgent, phase, running, ending, studentsFor, containerForJob, docker, closing, talk, killed, port, debugPort>>
      /\ PortOf(j) /\ Answered(j)
  BY <1>1 DEF dockerVars, daemon, environment, dicts, ownPorts, talks, closings, DockerInv, PortInv
<1>7. Answered(j)'
  BY <1>1, <1>5, <1>6 DEF Answered, Said, Notified, HasEnded, PortOf
<1>8. \A s \in Students : SameServed(s)
  BY <1>1 DEF SameServed, dockerVars, daemon, dicts, talks, studentTasks
<1> QED
  BY <1>2, <1>3, <1>4, <1>7, <1>8, NoLife, AnsweredFrame, ServedFrame DEF DockerInv

-----------------------------------------------------------------------------
(* handle_new_job.                                                          *)

\* A step of handle_new_job that changes no container
LEMMA HandlerInv ==
    ASSUME Known, NEW j \in Jobs, NEW r \in {"preparing", "refused", "over", "failed"},
           task' = [task EXCEPT ![j] = r], task[j] # "none",
           UNCHANGED <<toAgent, dockerVars, pipeline, environment, dicts, debugPort, talks, closings, loop, studentTasks>>,
           fromAgent' \in [Agents -> Seq(AgentToBackend)], sshPorts' \subseteq Ports,
           port' \in [Jobs -> Ports \cup {NoPort}], \A i \in Jobs \ {j} : port'[i] = port[i],
           port'[j] # NoPort => j \in DebugJobs,
           \A i \in Jobs : Notified(i)' <=> Notified(i),
           \A i \in Jobs \ {j} : Said("done", i)' <=> Said("done", i),
           Said("done", j)' =>
             /\ closing[j] = "over" \/ (r \in {"refused", "over", "failed"} /\ talk[j] = "no")
             /\ j \notin running => killed[j] = "none" /\ j \notin containerForJob
    PROVE  DockerInv'
<1> USE DEF Known
<1>1. task'[j] = r /\ \A i \in Jobs \ {j} : task'[i] = task[i]
  BY DEF DockerInv, TypeOK
<1>2. TypeOK'
  BY DEF DockerInv, TypeOK, ChannelsTypeOK, DockerTypeOK, WatchersTypeOK,
     dockerVars, daemon, pipeline, environment, dicts, talks, closings, studentTasks
<1>3. \A c \in Containers : SameLife(c)
  BY DEF SameLife, Checked, dockerVars, daemon, pipeline, dicts, closings
<1>4. /\ UNCHANGED <<phase, running, ending, studentsFor, containerForJob, docker, closing, talk, killed, debugPort>>
      /\ Answered(j)
  BY DEF dockerVars, daemon, environment, dicts, talks, closings, DockerInv
<1>5. \A i \in Jobs \ {j} : SameAnswered(i)
  BY <1>1, <1>4 DEF SameAnswered
<1>6. Answered(j)'
  BY <1>1, <1>4 DEF Answered, HasEnded
<1>7. \A s \in Students : SameServed(s)
  BY DEF SameServed, dockerVars, daemon, dicts, talks, studentTasks
<1> QED
  BY <1>2, <1>3, <1>5, <1>6, <1>7, NoLife, AnsweredFrame, ServedFrame DEF DockerInv

\* The steps of handle_new_job that no container sees: a job is answered when
\* docker has no container for it, or has one that it will not start.
LEMMA NewJobInv ==
    ASSUME Known, NEW j \in Jobs,
           \/ RefuseJob(j) \/ AcceptJob(j) \/ PrepareFails(j) \/ CreateFails(j) \/ StartFails(j) \/ CleanUp(j)
    PROVE  DockerInv'
<1> USE DEF Known
<1>0. /\ PortOf(j) /\ Answered(j) /\ Life(j) /\ NoPort \notin Ports
      /\ port \in [Jobs -> Ports \cup {NoPort}] /\ sshPorts \subseteq Ports
      /\ fromAgent \in [Agents -> Seq(AgentToBackend)] /\ task \in [Jobs -> {"none", "received", "preparing", "starting", "refused", "over", "failed"}]
  BY Names DEF PortInv, DockerInv, TypeOK, ChannelsTypeOK
<1>1. ASSUME SendToBackend(Self, Message("done", j)) 
      PROVE  /\ fromAgent' \in [Agents -> Seq(AgentToBackend)]
             /\ \A i \in Jobs : Notified(i)' <=> Notified(i)
             /\ \A i \in Jobs \ {j} : Said("done", i)' <=> Said("done", i)
  BY <1>1, AgentSends, Messages DEF Notified
<1>2. ASSUME fromAgent' = fromAgent 
      PROVE  (\A type, i : Said(type, i)' <=> Said(type, i)) /\ (\A i \in Jobs : Notified(i)' <=> Notified(i))
  BY <1>2 DEF Said, Notified
<1>3. ASSUME task[j] \in {"received", "preparing"}
      PROVE  talk[j] = "no" /\ closing[j] # "over" /\ j \notin running /\ killed[j] = "none" /\ j \notin containerForJob
             /\ ~Said("done", j)
  BY <1>0, <1>3 DEF PortOf, Answered, Life, HasEnded
<1>4. CASE RefuseJob(j)
  <2>1. /\ task[j] = "received" /\ task' = [task EXCEPT ![j] = "over"] /\ SendToBackend(Self, Message("done", j))
        /\ UNCHANGED <<toAgent, dockerVars, pipeline, environment, port, dicts, ownPorts, talks, closings, loop, studentTasks>>
    BY <1>4 DEF RefuseJob, SendJobResult
  <2>2. sshPorts' \subseteq Ports /\ port' = port /\ debugPort' = debugPort
    BY <1>0, <2>1 DEF ownPorts
  <2> QED
    BY <1>0, <1>1, <1>3, <2>1, <2>2, HandlerInv DEF Answered
<1>5. CASE AcceptJob(j)
  <2>1. /\ task[j] = "received" /\ task' = [task EXCEPT ![j] = "preparing"]
        /\ UNCHANGED <<toAgent, dockerVars, pipeline, environment, dicts, debugPort, talks, closings, loop, studentTasks>>
        /\ fromAgent' = fromAgent
    BY <1>5 DEF AcceptJob, channels
  <2>2. PICK p \in IF j \in DebugJobs THEN sshPorts ELSE {NoPort} :
          port' = [port EXCEPT ![j] = p] /\ sshPorts' = sshPorts \ {p}
    BY <1>5 DEF AcceptJob
  <2>3. /\ port' \in [Jobs -> Ports \cup {NoPort}] /\ (port'[j] # NoPort => j \in DebugJobs)
        /\ \A i \in Jobs \ {j} : port'[i] = port[i]
        /\ sshPorts' \subseteq Ports
    BY <1>0, <2>2
  <2> QED
    BY <1>0, <1>2, <1>3, <2>1, <2>3, HandlerInv
<1>6. CASE PrepareFails(j)
  <2>1. /\ task[j] = "preparing" /\ task' = [task EXCEPT ![j] = "failed"] /\ fromAgent' = fromAgent
        /\ UNCHANGED <<toAgent, dockerVars, pipeline, environment, port, dicts, ownPorts, talks, closings, loop, studentTasks>>
    BY <1>6 DEF PrepareFails, channels
  <2>2. sshPorts' \subseteq Ports /\ port' = port /\ debugPort' = debugPort
    BY <1>0, <2>1 DEF ownPorts
  <2> QED
    BY <1>0, <1>2, <1>3, <2>1, <2>2, HandlerInv DEF Answered
<1>7. CASE CreateFails(j)
  <2>1. /\ task[j] = "preparing" /\ task' = [task EXCEPT ![j] = "refused"] /\ SendToBackend(Self, Message("done", j))
        /\ UNCHANGED <<toAgent, dockerVars, pipeline, environment, port, dicts, ownPorts, talks, closings, loop, studentTasks>>
    BY <1>7 DEF CreateFails, SendJobResult
  <2>2. sshPorts' \subseteq Ports /\ port' = port /\ debugPort' = debugPort
    BY <1>0, <2>1 DEF ownPorts
  <2> QED
    BY <1>0, <1>1, <1>3, <2>1, <2>2, HandlerInv DEF Answered
<1>8. CASE StartFails(j)
  <2>1. /\ task[j] = "starting" /\ docker[j] = "created" /\ task' = [task EXCEPT ![j] = "refused"]
        /\ SendToBackend(Self, Message("done", j))
        /\ UNCHANGED <<toAgent, dockerVars, pipeline, environment, port, dicts, ownPorts, talks, closings, loop, studentTasks>>
    BY <1>8 DEF StartFails, StartMayFail, Starting, SendJobResult
  <2>2. sshPorts' \subseteq Ports /\ port' = port /\ debugPort' = debugPort
    BY <1>0, <2>1 DEF ownPorts
  <2>3. j \in running /\ talk[j] = "no"
    BY <1>0, <2>1 DEF Answered, PortOf
  <2> QED
    BY <1>0, <1>1, <2>1, <2>2, <2>3, HandlerInv DEF Answered
<1>9. CASE CleanUp(j)
  <2>1. /\ task[j] = "refused" /\ fromAgent' = fromAgent
        /\ \E r \in {"over", "failed"} : task' = [task EXCEPT ![j] = r]
        /\ UNCHANGED <<toAgent, dockerVars, pipeline, environment, port, dicts, debugPort, talks, closings, loop, studentTasks>>
    BY <1>9 DEF CleanUp, channels
  <2>2. sshPorts' \subseteq Ports
    BY <1>0, <1>9 DEF CleanUp, Returned
  <2>3. talk[j] = "no"
    BY <1>0, <2>1 DEF PortOf
  <2> QED
    BY <1>0, <1>2, <2>1, <2>2, <2>3, HandlerInv DEF Answered
<1> QED
  BY <1>4, <1>5, <1>6, <1>7, <1>8, <1>9

\* Docker has created the container of a job, and the agent lists it.
LEMMA CreatedInv ==
    ASSUME Known, NEW j \in Jobs, Created(j)
    PROVE  DockerInv'
<1> USE DEF Known
<1>0. /\ PortOf(j) /\ Answered(j) /\ Life(j) /\ Remembered(j) /\ j \in Containers /\ task[j] = "preparing" /\ docker[j] = "absent"
      /\ Jobs \subseteq Containers
  BY Names DEF PortInv, DockerInv, Created, PortOf
<1>1. /\ docker' = [docker EXCEPT ![j] = "created"] /\ task' = [task EXCEPT ![j] = "starting"]
      /\ running' = running \cup {j} /\ containerForJob' = containerForJob \cup {j} /\ studentsFor' = studentsFor \cup {j}
      /\ debugPort' = [debugPort EXCEPT ![j] = port[j]]
      /\ UNCHANGED <<channels, events, died, killCalls, closeCalls, pipeline, environment, port>>
      /\ UNCHANGED <<ending, students, killed, sshPorts, talks, closings, loop, studentTasks>>
  BY DEF Created, Becomes
<1>2. /\ docker'[j] = "created" /\ task'[j] = "starting" /\ debugPort'[j] = port[j]
      /\ \A c \in Containers \ {j} : docker'[c] = docker[c]
      /\ \A i \in Jobs \ {j} : task'[i] = task[i] /\ debugPort'[i] = debugPort[i]
  <2>1. DOMAIN docker = Containers /\ DOMAIN task = Jobs /\ DOMAIN debugPort = Jobs
    BY DEF DockerInv, TypeOK, DockerTypeOK
  <2>2. docker'[j] = "created" /\ \A c \in Containers \ {j} : docker'[c] = docker[c]
    BY <1>0, <1>1, <2>1
  <2>3. task'[j] = "starting" /\ \A i \in Jobs \ {j} : task'[i] = task[i]
    BY <1>1, <2>1
  <2>4. debugPort'[j] = port[j] /\ \A i \in Jobs \ {j} : debugPort'[i] = debugPort[i]
    BY <1>1, <2>1
  <2> QED
    BY <2>2, <2>3, <2>4
<1>3. j \notin ending /\ j \notin running /\ j \notin killCalls /\ ~HasEnded(j) /\ ~HasRun(j) /\ closing[j] = "no"
  BY <1>0 DEF Life, HasEnded, HasRun, Answered
<1>4. TypeOK'
  BY <1>0, <1>1, <1>3 DEF DockerInv, TypeOK, ChannelsTypeOK, DockerTypeOK, WatchersTypeOK,
     channels, pipeline, environment, talks, closings, studentTasks
<1>5. \A c \in Containers \ {j} : SameLife(c)
  BY <1>1, <1>2 DEF SameLife, Checked, pipeline, closings
<1>6. Unsaid(j) /\ Unsaid(j)'
  BY <1>0, <1>1, <1>3 DEF Life, Unsaid, Status, Checked, pipeline, closings
<1>7. Life(j)'
  BY <1>0, <1>1, <1>2, <1>3, <1>6 DEF Life, Status, Checked, HasEnded, HasRun, pipeline, closings
<1>8. Remembered(j)'
  BY <1>0, <1>1, <1>2, <1>3, <1>7 DEF Remembered, Doomed, Life, HasEnded
<1>9. \A i \in Jobs \ {j} : SameAnswered(i)
  BY <1>0, <1>1, <1>2 DEF SameAnswered, Said, Notified, channels, environment, talks, closings
<1>10. ~Said("done", j) /\ ~Said("done", j)'
  BY <1>0, <1>1, <1>3 DEF Answered, Said, Notified, channels
<1>11. Answered(j)'
  BY <1>0, <1>1, <1>2, <1>3, <1>10 DEF Answered, Said, Notified, HasEnded, channels, environment, talks, closings
<1>12. ASSUME NEW s \in Students PROVE Served(s)'
  <2>1. s \in Containers /\ s # j /\ Parent[s] \in Jobs /\ Served(s)
    BY <1>0, Names, StudentsAssumption DEF DockerInv
  <2>2. /\ docker'[s] = docker[s] /\ request' = request /\ replies' = replies /\ talk' = talk /\ killCalls' = killCalls
        /\ closeCalls' = closeCalls /\ ending' = ending /\ (s \in running' <=> s \in running)
    BY <1>1, <1>2, <2>1 DEF talks, studentTasks
  <2>3. docker'[Parent[s]] # "up" \/ docker'[Parent[s]] = docker[Parent[s]]
    BY <1>0, <1>2, <2>1
  <2>4. HasEnded(Parent[s]) => HasEnded(Parent[s])'
    BY <1>0, <1>2, <1>3, <2>1 DEF HasEnded
  <2>5. (request[s] # "none" => talk[Parent[s]] \in {"talking", "over"})
    BY <2>1 DEF Served
  <2> QED
    BY <2>1, <2>2, <2>3, <2>4, <2>5, ParentFrame
<1> QED
  BY <1>0, <1>4, <1>5, <1>7, <1>8, <1>9, <1>11, <1>12, OneLife, AnsweredFrame DEF DockerInv

-----------------------------------------------------------------------------
(* Docker starts containers, and the agent talks with them.                 *)

\* The docker daemon starts a container.
LEMMA DockerStartsInv ==
    ASSUME Known, NEW c \in Containers, DockerStarts(c)
    PROVE  DockerInv'
<1> USE DEF Known
<1>0. /\ docker[c] = "created" /\ Starting(c) /\ Life(c) /\ Remembered(c) /\ Jobs \subseteq Containers
      /\ docker \in [Containers -> {"absent", "created", "up", "down", "removed"}]
  BY Names DEF DockerInv, DockerStarts, TypeOK, DockerTypeOK
<1>1. /\ docker' = [docker EXCEPT ![c] = "up"]
      /\ UNCHANGED <<channels, events, died, killCalls, closeCalls, pipeline, environment, jobs, dicts>>
      /\ UNCHANGED <<ownPorts, talks, closings, loop, studentTasks>>
  BY DEF DockerStarts, Becomes
<1>2. docker'[c] = "up" /\ \A d \in Containers \ {c} : docker'[d] = docker[d]
  BY <1>0, <1>1
<1>3. c \in running
  <2>1. CASE c \in Jobs
    BY <1>0, <2>1 DEF DockerInv, Answered
  <2>2. CASE c \in Students
    <3>1. request[c] = "starting" /\ Served(c)
      BY <1>0, <2>2, Names DEF Starting, DockerInv
    <3> QED
      BY <1>0, <3>1 DEF Served
  <2> QED
    BY <2>1, <2>2 DEF Containers
<1>4. TypeOK'
  BY <1>0, <1>1 DEF DockerInv, TypeOK, ChannelsTypeOK, DockerTypeOK, WatchersTypeOK,
     channels, pipeline, environment, jobs, dicts, ownPorts, talks, closings, studentTasks
<1>5. \A d \in Containers \ {c} : SameLife(d)
  BY <1>1, <1>2 DEF SameLife, Checked, pipeline, dicts, closings
<1>6. Unsaid(c) /\ Unsaid(c)'
  BY <1>0, <1>1, <1>3 DEF Life, Unsaid, Status, Checked, pipeline, closings
<1>7. UNCHANGED <<events, died, killCalls, pipe, checked, watching, hadError, running, ending, killed, verdict, closing>>
  BY <1>1 DEF pipeline, dicts, closings
<1>8. Life(c)'
  BY <1>0, <1>2, <1>3, <1>6, <1>7, ChannelEmpty DEF Life, Status, Checked, HasEnded, HasRun
<1>9. Remembered(c)'
  BY <1>0, <1>2, <1>3, <1>7 DEF Remembered, Doomed, Status, Checked
<1>10. ASSUME NEW j \in Jobs PROVE Answered(j)'
  <2>1. HasEnded(j)' <=> HasEnded(j)
    BY <1>0, <1>2 DEF HasEnded
  <2>2. (docker'[j] = "absent" => docker[j] = "absent") /\ (docker'[j] = "created" => docker[j] = "created")
    BY <1>0, <1>2
  <2> QED
    BY <1>1, <2>1, <2>2 DEF DockerInv, Answered, Said, Notified, channels, environment, jobs, dicts, ownPorts, talks, closings
<1>11. ASSUME NEW s \in Students PROVE Served(s)'
  <2>1. s \in Containers /\ Parent[s] \in Jobs /\ Served(s) /\ s \notin Jobs
    BY Names, StudentsAssumption DEF DockerInv
  <2>2. /\ request' = request /\ replies' = replies /\ talk' = talk /\ killCalls' = killCalls
        /\ closeCalls' = closeCalls /\ ending' = ending /\ running' = running
    BY <1>1 DEF talks, studentTasks, dicts
  <2>3. CASE s = c
    <3>1. docker'[s] = "up" /\ docker'[Parent[s]] = docker[Parent[s]] /\ docker[s] = "created" /\ s \in running
      BY <1>0, <1>2, <1>3, <2>1, <2>3
    <3>2. request[s] = "starting"
      BY <1>0, <2>1, <2>3 DEF Starting
    <3> QED
      BY <2>1, <2>2, <3>1, <3>2 DEF Served, Listening, HasEnded
  <2>4. CASE s # c
    <3>1. docker'[s] = docker[s] /\ (HasEnded(Parent[s]) => HasEnded(Parent[s])')
      BY <1>0, <1>2, <2>1, <2>4 DEF HasEnded
    <3>2. docker'[Parent[s]] = "up" => docker[Parent[s]] = "up" \/ talk[Parent[s]] = "no"
      <4>1. PortOf(Parent[s])
        BY <2>1 DEF PortInv
      <4> QED
        BY <1>0, <1>2, <2>1, <4>1 DEF PortOf, HasRun
    <3>3. request[s] # "none" => talk[Parent[s]] \in {"talking", "over"}
      BY <2>1 DEF Served
    <3> QED
      BY <2>1, <2>2, <3>1, <3>2, <3>3, ParentFrame
  <2> QED
    BY <2>3, <2>4
<1> QED
  BY <1>4, <1>5, <1>8, <1>9, <1>10, <1>11, OneLife

\* docker's start returns to handle_new_job.
LEMMA StartedInv ==
    ASSUME Known, NEW j \in Jobs, Started(j)
    PROVE  DockerInv'
<1> USE DEF Known
<1>0. /\ task[j] = "starting" /\ docker[j] # "created" /\ PortOf(j) /\ Answered(j) /\ Life(j) /\ Remembered(j) /\ j \in Containers
      /\ Jobs \subseteq Containers /\ talk[j] = "no"
      /\ pipe \in [Containers -> Seq({"register"} \cup Killings)] /\ talk \in [Jobs -> {"no", "attaching", "talking", "over"}]
      /\ task \in [Jobs -> {"none", "received", "preparing", "starting", "refused", "over", "failed"}]
  BY Names DEF PortInv, PortTypes, DockerInv, Started, Starting, PortOf, TypeOK, WatchersTypeOK
<1>1. /\ task' = [task EXCEPT ![j] = "over"] /\ talk' = [talk EXCEPT ![j] = "attaching"]
      /\ pipe' = [pipe EXCEPT ![j] = Append(@, "register")] /\ SendToBackend(Self, Message("started", j))
      /\ UNCHANGED <<toAgent, dockerVars, checked, watching, hadError, environment, port, dicts>>
      /\ UNCHANGED <<ownPorts, future, closings, loop, studentTasks>>
  BY DEF Started, Push
<1>2. /\ task'[j] = "over" /\ talk'[j] = "attaching"
      /\ \A i \in Jobs \ {j} : task'[i] = task[i] /\ talk'[i] = talk[i]
  BY <1>0, <1>1
<1>3. /\ pipe' \in [Containers -> Seq({"register"} \cup Killings)]
      /\ \A d \in Containers \ {j} : pipe'[d] = pipe[d]
      /\ \A k \in Killings : (Status(j, k)' <=> Status(j, k)) /\ (Once(pipe[j], k) => Once(pipe'[j], k))
  <2>1. Push(j, "register") /\ "register" \in {"register"} \cup Killings /\ "register" \notin Killings
    BY DEF Started, Killings
  <2> QED
    BY <1>0, <2>1, Pushed
<1>4. /\ fromAgent' \in [Agents -> Seq(AgentToBackend)]
      /\ \A i \in Jobs : (Said("done", i)' <=> Said("done", i)) /\ (Notified(i)' => Notified(i) \/ i = j)
      /\ \A i \in Jobs \ {j} : Notified(i)' <=> Notified(i)
  BY <1>1, AgentSends, Messages DEF Notified
<1>5. TypeOK'
  BY <1>0, <1>1, <1>3, <1>4 DEF DockerInv, TypeOK, ChannelsTypeOK, DockerTypeOK, WatchersTypeOK,
     dockerVars, daemon, environment, dicts, ownPorts, closings, studentTasks
<1>6. \A d \in Containers \ {j} : SameLife(d)
  BY <1>1, <1>3 DEF SameLife, Checked, dockerVars, daemon, dicts, closings
<1>7. UNCHANGED <<docker, events, died, killCalls, closeCalls, checked, watching, hadError, running, ending, killed, verdict, closing>>
  BY <1>1 DEF dockerVars, daemon, dicts, closings
<1>8. docker[j] \notin {"absent", "created"}
  BY <1>0 DEF PortOf
<1>9. \A k \in Killings : (Status(j, k)' <=> Status(j, k)) /\ (Checked(j, k)' <=> Checked(j, k))
  BY <1>3, <1>7 DEF Checked
<1>10. Unsaid(j) <=> Unsaid(j)'
  BY <1>7, <1>9 DEF Unsaid
<1>11. Life(j)'
  BY <1>0, <1>3, <1>7, <1>8, <1>9, <1>10 DEF Life, HasEnded, HasRun
<1>12. Remembered(j)'
  BY <1>0, <1>7, <1>9 DEF Remembered, Doomed, Killings
<1>13. ASSUME NEW i \in Jobs PROVE Answered(i)'
  <2>1. UNCHANGED <<phase, running, ending, studentsFor, containerForJob, docker, closing, killed, port, debugPort>> /\ Answered(i)
    BY <1>1 DEF DockerInv, dockerVars, daemon, environment, dicts, ownPorts, closings
  <2>2. CASE i = j
    BY <1>0, <1>2, <1>4, <2>1, <2>2 DEF Answered, HasEnded
  <2>3. CASE i # j
    BY <1>2, <1>4, <2>1, <2>3 DEF Answered, HasEnded
  <2> QED
    BY <2>2, <2>3
<1>14. ASSUME NEW s \in Students PROVE Served(s)'
  <2>1. Parent[s] \in Jobs /\ Served(s)
    BY StudentsAssumption DEF DockerInv
  <2>2. request' = request /\ replies' = replies
    BY <1>1 DEF studentTasks
  <2>3. /\ request[s] # "none" => talk'[Parent[s]] \in {"talking", "over"}
        /\ talk'[Parent[s]] = "talking" => talk[Parent[s]] = "talking"
    BY <1>0, <1>2, <2>1 DEF Served
  <2> QED
    BY <1>7, <2>1, <2>2, <2>3, ParentFrame DEF HasEnded
<1> QED
  BY <1>0, <1>5, <1>6, <1>11, <1>12, <1>13, <1>14, OneLife

\* The conversation with a grading container: no container changes.
LEMMA TalkInv ==
    ASSUME Known, NEW j \in Jobs, Attach(j) \/ AttachFails(j) \/ ReadResult(j) \/ ReadGarbage(j) \/ ReadEOF(j) \/ ReadSshKey(j)
    PROVE  DockerInv'
<1> USE DEF Known
<1>0. talk \in [Jobs -> {"no", "attaching", "talking", "over"}] /\ fromAgent \in [Agents -> Seq(AgentToBackend)]
  BY DEF DockerInv, TypeOK, ChannelsTypeOK
<1>1. /\ UNCHANGED <<toAgent, dockerVars, pipeline, environment, jobs, dicts, ownPorts, closings, loop>> /\ UNCHANGED studentTasks
  BY DEF Attach, AttachFails, ReadResult, ReadGarbage, ReadEOF, ReadSshKey, EndTalk, TalkUnchanged
<1>2. /\ talk' \in [Jobs -> {"no", "attaching", "talking", "over"}]
      /\ \A i \in Jobs : \/ talk'[i] = talk[i]
                         \/ talk[i] = "attaching" /\ talk'[i] \in {"talking", "over"}
                         \/ talk[i] = "talking" /\ talk'[i] = "over"
  BY <1>0 DEF Attach, AttachFails, ReadResult, ReadGarbage, ReadEOF, ReadSshKey, EndTalk, talks
<1>3. /\ fromAgent' \in [Agents -> Seq(AgentToBackend)]
      /\ \A i \in Jobs : (Said("done", i)' <=> Said("done", i)) /\ (Notified(i)' => Notified(i) \/ talk[i] = "talking")
  <2>1. CASE fromAgent' = fromAgent
    BY <1>0, <2>1 DEF Said, Notified
  <2>2. CASE ReadSshKey(j)
    <3>1. talk[j] = "talking" /\ SendToBackend(Self, Message("ssh_debug", j))
      BY <2>2 DEF ReadSshKey
    <3> QED
      BY <2>2, <3>1, AgentSends, Messages DEF Notified
  <2> QED
    BY <2>1, <2>2 DEF Attach, AttachFails, ReadResult, ReadGarbage, ReadEOF, ReadSshKey, EndTalk
<1>4. future' \in [Jobs -> {"pending", "result", "nothing"}]
  BY DEF DockerInv, TypeOK, Attach, AttachFails, ReadResult, ReadGarbage, ReadEOF, ReadSshKey, EndTalk, talks
<1>5. TypeOK'
  BY <1>1, <1>2, <1>3, <1>4 DEF DockerInv, TypeOK, ChannelsTypeOK, DockerTypeOK, WatchersTypeOK,
     dockerVars, daemon, pipeline, environment, jobs, dicts, ownPorts, closings, studentTasks
<1>6. \A c \in Containers : SameLife(c)
  BY <1>1 DEF SameLife, Checked, dockerVars, daemon, pipeline, dicts, closings
<1>7. ASSUME NEW i \in Jobs PROVE Answered(i)'
  <2>1. UNCHANGED <<task, phase, running, ending, studentsFor, containerForJob, docker, closing, killed, port, debugPort>> /\ Answered(i)
    BY <1>1 DEF DockerInv, dockerVars, daemon, environment, jobs, dicts, ownPorts, closings
  <2> QED
    BY <1>2, <1>3, <2>1 DEF Answered, HasEnded
<1>8. ASSUME NEW s \in Students PROVE Served(s)'
  <2>1. Parent[s] \in Jobs /\ Served(s)
    BY StudentsAssumption DEF DockerInv
  <2>2. UNCHANGED <<docker, running, ending, killCalls, closeCalls, request, replies>>
    BY <1>1 DEF dockerVars, daemon, dicts, studentTasks
  <2>3. /\ request[s] # "none" => talk'[Parent[s]] \in {"talking", "over"}
        /\ talk'[Parent[s]] = "talking" => talk[Parent[s]] = "talking" \/ request[s] = "none"
    BY <1>0, <1>2, <2>1 DEF Served
  <2> QED
    BY <2>1, <2>2, <2>3, ParentFrame DEF HasEnded
<1> QED
  BY <1>5, <1>6, <1>7, <1>8, NoLife

-----------------------------------------------------------------------------
(* Containers end, and are killed.                                          *)

\* The processes of a container that is up end.
LEMMA EndInv ==
    ASSUME Known, NEW c \in Containers, docker[c] = "up",
           NEW reason \in {"by itself", "killed", "closed"}, NEW state \in {"down", "removed"}, End(c, reason, state),
           reason = "killed" => c \in killCalls,
           state = "removed" => c \in closeCalls /\ c \in Students,
           killCalls' \subseteq killCalls, \A d \in Containers \ {c} : d \in killCalls' <=> d \in killCalls,
           closeCalls' \subseteq closeCalls, loop' \in {{}} \cup {{d} : d \in killCalls'},
           UNCHANGED <<pipeline, agentState>>
    PROVE  DockerInv'
<1> USE DEF Known
<1>0. /\ Life(c) /\ Remembered(c) /\ Jobs \subseteq Containers
      /\ docker \in [Containers -> {"absent", "created", "up", "down", "removed"}]
      /\ died \in [Containers -> {"no", "by itself", "killed", "closed"}]
  BY Names DEF DockerInv, TypeOK, DockerTypeOK
<1>1. /\ docker'[c] = state /\ \A d \in Containers \ {c} : docker'[d] = docker[d]
      /\ died'[c] = reason /\ \A d \in Containers \ {c} : died'[d] = died[d]
      /\ docker' \in [Containers -> {"absent", "created", "up", "down", "removed"}]
      /\ died' \in [Containers -> {"no", "by itself", "killed", "closed"}]
  BY <1>0 DEF End, Becomes
<1>2. c \in running /\ Unsaid(c) /\ ~Has(events[c], "die") /\ Once(events[c], "die") /\ c \notin ending
  BY <1>0 DEF Life, HasEnded, DockerInv, TypeOK
<1>3. /\ events' \in [Containers -> Seq({"oom", "die"})]
      /\ \A d \in Containers \ {c} : events'[d] = events[d]
      /\ Has(events'[c], "die") /\ Once(events'[c], "die")
  BY <1>2, Emitted DEF End
<1>4. TypeOK'
  BY <1>1, <1>3 DEF DockerInv, TypeOK, ChannelsTypeOK, DockerTypeOK, WatchersTypeOK,
     agentState, channels, pipeline, environment, jobs, dicts, ownPorts, talks, closings, studentTasks
<1>5. UNCHANGED <<pipe, checked, watching, hadError, running, ending, killed, verdict, closing, fromAgent, task, phase,
                  studentsFor, containerForJob, talk, port, debugPort, request, replies>>
  BY DEF agentState, channels, pipeline, environment, jobs, dicts, ownPorts, talks, closings, studentTasks
<1>6. \A d \in Containers \ {c} : SameLife(d)
  BY <1>1, <1>3, <1>5 DEF SameLife, Checked
<1>7. Unsaid(c)'
  BY <1>2, <1>5 DEF Unsaid, Status, Checked
<1>8. HasEnded(c)' /\ HasRun(c)'
  BY <1>1 DEF HasEnded, HasRun
<1>9. Life(c)'
  BY <1>0, <1>1, <1>2, <1>3, <1>5, <1>7, <1>8 DEF Life, Status, Checked
<1>10. Doomed(c)' => Doomed(c)
  BY <1>0, <1>1 DEF Doomed
<1>11. Remembered(c)'
  BY <1>0, <1>2, <1>5, <1>10 DEF Remembered, Status, Checked
<1>12. ASSUME NEW d \in Containers PROVE /\ HasEnded(d) => HasEnded(d)'
                                         /\ docker'[d] = "up" => docker[d] = "up"
                                         /\ docker'[d] = "absent" => docker[d] = "absent"
                                         /\ docker'[d] = "created" => docker[d] = "created"
  BY <1>1 DEF HasEnded
<1>13. ASSUME NEW j \in Jobs PROVE Answered(j)'
  BY <1>0, <1>5, <1>12 DEF DockerInv, Answered, Said, Notified
<1>14. ASSUME NEW s \in Students PROVE Served(s)'
  <2>1. s \in Containers /\ Parent[s] \in Jobs /\ Served(s) /\ s \notin Jobs
    BY Names, StudentsAssumption DEF DockerInv
  <2>2. HasEnded(Parent[s]) => HasEnded(Parent[s])' /\ docker'[Parent[s]] # "up"
    BY <1>0, <1>12, <2>1 DEF HasEnded
  <2>3. CASE s = c
    <3>1. replies[s] = 0
      BY <2>1, <2>3 DEF Served
    <3>2. docker'[s] \in {"down", "removed"} /\ (docker'[s] = "removed" => docker'[Parent[s]] # "up")
      BY <1>1, <2>1, <2>2, <2>3 DEF Served
    <3>3. HasEnded(Parent[s]) => HasEnded(Parent[s])'
      BY <2>2
    <3> QED
      BY <1>5, <2>1, <2>3, <3>1, <3>2, <3>3 DEF Served, Listening
  <2>4. CASE s # c
    <3>1. docker'[s] = docker[s] /\ (s \in killCalls' <=> s \in killCalls) /\ (s \in closeCalls' => s \in closeCalls)
      BY <1>1, <2>1, <2>4
    <3>2. docker'[Parent[s]] = "up" => docker[Parent[s]] = "up"
      BY <1>0, <1>12, <2>1
    <3>3. request[s] # "none" => talk[Parent[s]] \in {"talking", "over"}
      BY <2>1 DEF Served
    <3>4. Served(s) /\ (HasEnded(Parent[s]) => HasEnded(Parent[s])')
      BY <2>1, <2>2
    <3> QED
      BY <1>5, <3>1, <3>2, <3>3, <3>4, ParentFrame
  <2> QED
    BY <2>3, <2>4
<1> QED
  BY <1>4, <1>6, <1>9, <1>11, <1>13, <1>14, OneLife

\* A call to docker ends without effect.
LEMMA CallInv ==
    ASSUME Known, killCalls' \subseteq killCalls, closeCalls' \subseteq closeCalls,
           loop' \in {{}} \cup {{d} : d \in killCalls'},
           UNCHANGED <<daemon, pipeline, agentState>>
    PROVE  DockerInv'
<1> USE DEF Known
<1>1. TypeOK'
  BY DEF DockerInv, TypeOK, ChannelsTypeOK, DockerTypeOK, WatchersTypeOK,
     agentState, channels, daemon, pipeline, environment, jobs, dicts, ownPorts, talks, closings, studentTasks
<1>2. UNCHANGED <<docker, events, died, pipe, checked, watching, hadError, running, ending, killed, verdict, closing,
                  fromAgent, task, phase, studentsFor, containerForJob, talk, port, debugPort, request, replies>>
  BY DEF agentState, channels, daemon, pipeline, environment, jobs, dicts, ownPorts, talks, closings, studentTasks
<1>3. ASSUME NEW c \in Containers PROVE Life(c)' /\ Remembered(c)'
  <2>1. /\ Life(c) /\ Remembered(c)
        /\ HasEnded(c)' <=> HasEnded(c)
        /\ HasRun(c)' <=> HasRun(c)
        /\ Doomed(c)' => Doomed(c)
        /\ Unsaid(c)' <=> Unsaid(c)
        /\ \A k \in Killings : (Status(c, k)' <=> Status(c, k)) /\ (Checked(c, k)' <=> Checked(c, k))
    BY <1>2 DEF DockerInv, HasEnded, HasRun, Doomed, Unsaid, Status, Checked
  <2>2. Life(c)'
    BY <1>2, <2>1 DEF Life
  <2>3. Remembered(c)'
    BY <1>2, <2>1 DEF Remembered, Killings
  <2> QED
    BY <2>2, <2>3
<1>4. ASSUME NEW j \in Jobs PROVE Answered(j)'
  BY <1>2, AnsweredFrame DEF DockerInv, SameAnswered, Said, Notified
<1>5. ASSUME NEW s \in Students PROVE Served(s)'
  BY <1>2 DEF DockerInv, Served, Listening, HasEnded
<1> QED
  BY <1>1, <1>3, <1>4, <1>5 DEF DockerInv

\* A container ends by itself, or because a thread of the agent kills it.
LEMMA EndsInv ==
    ASSUME Known, NEW c \in Containers,
           EndContainer(c) \/ KillContainer(c) \/ (c \in Students /\ CloseContainer(c))
    PROVE  DockerInv'
<1>0. loop \in {{}} \cup {{d} : d \in killCalls}
  BY DEF Known, DockerInv, TypeOK
<1>1. CASE EndContainer(c)
  BY <1>0, <1>1, EndInv DEF EndContainer, EndByItself
<1>2. CASE KillContainer(c)
  <2>1. /\ c \in killCalls /\ killCalls' = killCalls \ {c} /\ closeCalls' = closeCalls /\ loop' = loop \ {c}
        /\ UNCHANGED <<pipeline, agentState>>
        /\ IF docker[c] = "up" THEN End(c, "killed", "down") ELSE UNCHANGED daemon
    BY <1>2 DEF KillContainer, RunKill
  <2>2. loop' \in {{}} \cup {{d} : d \in killCalls'}
    BY <1>0, <2>1
  <2> QED
    BY <2>1, <2>2, EndInv, CallInv
<1>3. CASE c \in Students /\ CloseContainer(c)
  <2>1. /\ c \in closeCalls /\ closeCalls' = closeCalls \ {c} /\ killCalls' = killCalls /\ loop' = loop
        /\ UNCHANGED <<pipeline, agentState>>
        /\ IF docker[c] = "up" THEN End(c, "closed", "removed") ELSE UNCHANGED daemon
    BY <1>3 DEF CloseContainer, RunClose
  <2> QED
    BY <1>0, <1>3, <2>1, EndInv, CallInv
<1> QED
  BY <1>1, <1>2, <1>3

\* A step that neither handlers nor conversations see
LEMMA AsideInv ==
    ASSUME Known, TypeOK', NEW c \in Containers, Life(c)', Remembered(c)', \A d \in Containers \ {c} : SameLife(d),
           killCalls' \subseteq killCalls \cup {c}, docker[c] # "created" \/ c \in Jobs \/ killCalls' = killCalls,
           \A j \in Jobs : killed'[j] = killed[j] \/ j \in running \/ j \in containerForJob,
           UNCHANGED <<docker, fromAgent, phase, closeCalls, running, ending, closing, jobs, studentsFor, containerForJob, debugPort, talk, studentTasks>>
    PROVE  DockerInv'
<1> USE DEF Known
<1>1. ASSUME NEW j \in Jobs PROVE Answered(j)'
  BY DEF DockerInv, Answered, Said, Notified, HasEnded, jobs
<1>2. ASSUME NEW s \in Students PROVE Served(s)'
  <2>1. Served(s) /\ (docker[s] = "created" => s \notin killCalls')
    BY Names DEF DockerInv, Served
  <2> QED
    BY <2>1 DEF Served, Listening, HasEnded, studentTasks
<1> QED
  BY <1>1, <1>2, OneLife

\* The watcher of the pipeline reads a message.
LEMMA WatchInv ==
    ASSUME Known, NEW c \in Containers, Watch(c)
    PROVE  DockerInv'
<1> USE DEF Known
<1>0. /\ Life(c) /\ Remembered(c) /\ Pull(c) /\ WatcherStep(c) /\ UNCHANGED <<loop, agentState, dockerVars>>
      /\ checked \subseteq [container : Containers, result : Killings] /\ watching \subseteq Containers /\ hadError \subseteq Containers
      /\ ending \subseteq Containers \ running
  BY DEF DockerInv, TypeOK, WatchersTypeOK, Watch, WatcherStep, RegisterContainer, AnswerStatus, PassStatus
<1>1. /\ pipe' \in [Containers -> Seq({"register"} \cup Killings)] /\ Head(pipe[c]) \in {"register"} \cup Killings
      /\ \A d \in Containers \ {c} : pipe'[d] = pipe[d]
      /\ pipe[c] # <<>>
      /\ \A k \in Killings : Status(c, k) <=> Status(c, k)' \/ k = Head(pipe[c])
      /\ \A k \in Killings : Once(pipe[c], k) => Once(pipe'[c], k) /\ (k = Head(pipe[c]) => ~Status(c, k)')
  BY <1>0, Pulled
<1>2. /\ docker[c] \notin {"absent", "created"}
      /\ HasEnded(c)' <=> HasEnded(c)
      /\ HasRun(c)' <=> HasRun(c)
      /\ Doomed(c)' <=> Doomed(c)
  BY <1>0, <1>1 DEF Life, HasEnded, HasRun, Doomed, dockerVars, daemon
<1>3. UNCHANGED <<docker, events, died, killCalls, closeCalls, running, ending, killed, verdict, closing, fromAgent, task, phase,
                  studentsFor, containerForJob, jobs, debugPort, talk, studentTasks>>
  BY <1>0 DEF dockerVars, daemon, agentState, channels, environment, jobs, dicts, ownPorts, talks, closings
<1>4. ASSUME checked' \subseteq [container : Containers, result : Killings], watching' \subseteq Containers, hadError' \subseteq Containers,
             \A d \in Containers \ {c} : /\ d \in watching' <=> d \in watching
                                         /\ d \in hadError' <=> d \in hadError
                                         /\ \A k \in Killings : Checked(d, k)' <=> Checked(d, k),
             Life(c)', Remembered(c)'
      PROVE  DockerInv'
  <2>1. TypeOK'
    BY <1>0, <1>1, <1>4 DEF DockerInv, TypeOK, ChannelsTypeOK, DockerTypeOK, WatchersTypeOK, dockerVars, daemon,
       agentState, channels, environment, jobs, dicts, ownPorts, talks, closings, studentTasks
  <2>2. \A d \in Containers \ {c} : SameLife(d)
    BY <1>1, <1>3, <1>4 DEF SameLife
  <2> QED
    BY <1>3, <1>4, <2>1, <2>2, AsideInv
<1>5. CASE RegisterContainer(c)
  <2>1. Head(pipe[c]) = "register" /\ watching' = watching \cup {c} /\ UNCHANGED <<checked, hadError>>
    BY <1>5 DEF RegisterContainer
  <2>2. \A k \in Killings : (Status(c, k)' <=> Status(c, k)) /\ (Checked(c, k)' <=> Checked(c, k)) /\ (Once(pipe[c], k) => Once(pipe'[c], k))
    BY <1>1, <2>1 DEF Killings, Checked
  <2>3. Unsaid(c)' <=> Unsaid(c)
    BY <1>3, <2>2 DEF Unsaid
  <2>4. Life(c)'
    BY <1>0, <1>2, <1>3, <2>2, <2>3 DEF Life
  <2>5. Remembered(c)'
    BY <1>0, <1>2, <1>3, <2>1, <2>2 DEF Remembered, Killings
  <2> QED
    BY <1>0, <1>4, <2>1, <2>4, <2>5 DEF Checked
<1>6. ASSUME NEW h \in Killings, Head(pipe[c]) = h, NEW r \in Killings,
             checked' = checked \cup {[container |-> c, result |-> r]},
             watching' \subseteq watching, watching \subseteq watching' \cup {c},
             hadError' \subseteq hadError, hadError \subseteq hadError' \cup {c},
             r = "none" => h = "none" /\ c \notin hadError
      PROVE  DockerInv'
  <2>1. c \in ending /\ c \notin running /\ HasEnded(c) /\ HasRun(c)
    BY <1>0, <1>1, <1>6 DEF Life, HasEnded, HasRun
  <2>2. \A k \in Killings : ~Checked(c, k) /\ ~Status(c, k)' /\ (Status(c, k) <=> k = h) /\ Once(pipe'[c], k)
    BY <1>0, <1>1, <1>6 DEF Life
  <2>3. /\ \A k \in Killings : Checked(c, k)' <=> k = r
        /\ \A d \in Containers \ {c}, k \in Killings : Checked(d, k)' <=> Checked(d, k)
    BY <1>6, <2>2 DEF Checked
  <2>4. Life(c)'
    BY <1>0, <1>2, <1>3, <1>6, <2>1, <2>2, <2>3 DEF Life
  <2>5. Remembered(c)'
    BY <1>0, <1>2, <1>3, <1>6, <2>1, <2>2, <2>3 DEF Remembered, Killings
  <2>6. checked' \subseteq [container : Containers, result : Killings]
    BY <1>0, <1>6
  <2> QED
    BY <1>0, <1>4, <1>6, <2>3, <2>4, <2>5, <2>6
<1>7. CASE AnswerStatus(c)
  BY <1>6, <1>7 DEF AnswerStatus, Killings
<1>8. CASE PassStatus(c)
  BY <1>1, <1>6, <1>8 DEF PassStatus
<1> QED
  BY <1>0, <1>5, <1>7, <1>8 DEF WatcherStep

\* The agent asks docker to kill a container, and remembers why.
LEMMA KillInv ==
    ASSUME Known, TypeOK', NEW c \in Containers, c \in running \/ c \in containerForJob \/ c \in watching,
           docker[c] # "created" \/ c \in Jobs, docker[c] # "absent",
           killCalls' = killCalls \cup {c},
           killed'[c] # killed[c] => c \in running \/ c \in containerForJob,
           killed'[c] # "none" \/ (c \in hadError' /\ killed'[c] = killed[c]),
           killed[c] # "none" => killed'[c] # "none",
           c \in hadError => c \in hadError',
           c \in watching' => c \in watching,
           events'[c] = events[c] \/ (docker[c] \notin {"absent", "created"} /\ (Has(events'[c], "die") <=> Has(events[c], "die"))
                                        /\ Once(events'[c], "die")),
           \A d \in Containers \ {c} : /\ killed'[d] = killed[d] /\ events'[d] = events[d]
                                       /\ d \in hadError' <=> d \in hadError
                                       /\ d \in watching' <=> d \in watching,
           UNCHANGED <<docker, died, pipe, checked, fromAgent, phase, closeCalls, running, ending, verdict, closing, jobs,
                       studentsFor, containerForJob, debugPort, talk, studentTasks>>
    PROVE  DockerInv'
<1> USE DEF Known
<1>0. /\ Life(c) /\ Remembered(c)
      /\ docker \in [Containers -> {"absent", "created", "up", "down", "removed"}]
  BY DEF DockerInv, TypeOK, DockerTypeOK
<1>1. \A d \in Containers \ {c} : SameLife(d)
  BY DEF SameLife, Checked
<1>2. /\ HasEnded(c)' <=> HasEnded(c)
      /\ HasRun(c)' <=> HasRun(c)
      /\ Unsaid(c)' <=> Unsaid(c)
      /\ \A k \in Killings : (Status(c, k)' <=> Status(c, k)) /\ (Checked(c, k)' <=> Checked(c, k))
  BY DEF HasEnded, HasRun, Unsaid, Status, Checked
<1>3. Life(c)'
  BY <1>0, <1>2 DEF Life
<1>4. Remembered(c)'
  <2>1. CASE Doomed(c)
    BY <1>0, <1>2, <2>1 DEF Remembered, Killings
  <2>2. CASE ~Doomed(c) /\ Doomed(c)'
    <3>1. died[c] # "killed" /\ docker[c] \in {"created", "up"}
      BY <2>2 DEF Doomed
    <3>2. c \in running
      BY <1>0, <3>1 DEF Life, DockerInv, Answered
    <3>3. Unsaid(c)
      BY <1>0, <3>2 DEF Life
    <3> QED
      BY <1>2, <3>2, <3>3 DEF Remembered, Unsaid, Killings
  <2>3. CASE ~Doomed(c)'
    BY <2>3 DEF Remembered
  <2> QED
    BY <2>1, <2>2, <2>3
<1>5. \A j \in Jobs : killed'[j] = killed[j] \/ j \in running \/ j \in containerForJob
  BY Names
<1> QED
  BY <1>1, <1>3, <1>4, <1>5, AsideInv

\* A time limit is reached.
LEMMA TimeOutInv ==
    ASSUME Known, NEW c \in Containers, TimeOut(c)
    PROVE  DockerInv'
<1> USE DEF Known
<1>1. /\ c \in watching /\ watching' = watching \ {c} /\ hadError' = hadError \cup {c} /\ killCalls' = killCalls \cup {c}
      /\ UNCHANGED <<pipe, checked, daemon, closeCalls, loop, agentState>>
  BY DEF TimeOut, KillItWithFire
<1>2. TypeOK'
  <2>1. /\ killCalls' \subseteq Containers /\ watching' \subseteq Containers /\ hadError' \subseteq Containers
        /\ loop' \in {{}} \cup {{d} : d \in killCalls'}
    BY <1>1 DEF DockerInv, TypeOK, DockerTypeOK, WatchersTypeOK
  <2> QED
    BY <1>1, <2>1 DEF DockerInv, TypeOK, ChannelsTypeOK, DockerTypeOK, WatchersTypeOK, daemon,
       agentState, channels, environment, jobs, dicts, ownPorts, talks, closings, studentTasks
<1>3. docker[c] \notin {"absent", "created"}
  BY <1>1 DEF DockerInv, Life
<1>4. UNCHANGED <<docker, events, died, killed, fromAgent, phase, running, ending, verdict, closing, jobs,
                  studentsFor, containerForJob, debugPort, talk, studentTasks>>
  BY <1>1 DEF daemon, agentState, channels, environment, dicts, ownPorts, talks, closings
<1> QED
  BY <1>1, <1>2, <1>3, <1>4, KillInv

\* A user kills a job.
LEMMA HandleKillInv ==
    ASSUME Known, NEW j \in Jobs, HandleKillJob(j)
    PROVE  DockerInv'
<1> USE DEF Known
<1>1. /\ toAgent' \in [Agents -> Seq(BackendToAgent)] /\ j \in Containers
      /\ UNCHANGED <<fromAgent, daemon, closeCalls, pipeline, environment, jobs, ownPorts, talks, closings, loop, studentTasks>>
      /\ UNCHANGED <<running, ending, containerForJob, studentsFor, students>>
  BY ReceiveTypes, Names DEF HandleKillJob
<1>2. CASE j \in containerForJob
  <2>1. killed' = [killed EXCEPT ![j] = "killed"] /\ killCalls' = killCalls \cup {j}
    BY <1>2 DEF HandleKillJob
  <2>2. killed \in [Containers -> {"none", "killed", "overflow"}]
    BY DEF DockerInv, TypeOK
  <2>3. killed'[j] = "killed" /\ \A d \in Containers \ {j} : killed'[d] = killed[d]
    BY <1>1, <2>1, <2>2
  <2>4. TypeOK'
    BY <1>1, <2>1 DEF DockerInv, TypeOK, ChannelsTypeOK, DockerTypeOK, WatchersTypeOK, daemon, pipeline,
       environment, jobs, ownPorts, talks, closings, studentTasks
  <2>5. docker[j] # "absent"
    BY <1>2 DEF DockerInv, Answered
  <2>6. UNCHANGED <<docker, events, died, pipe, checked, watching, hadError, phase, verdict, closing, debugPort, talk>>
    BY <1>1 DEF daemon, pipeline, environment, ownPorts, talks, closings
  <2> QED
    BY <1>1, <1>2, <2>1, <2>3, <2>4, <2>5, <2>6, KillInv
<1>3. CASE j \notin containerForJob
  <2>1. UNCHANGED <<killed, killCalls>>
    BY <1>3 DEF HandleKillJob
  <2>2. TypeOK'
    BY <1>1, <2>1 DEF DockerInv, TypeOK, ChannelsTypeOK, DockerTypeOK, WatchersTypeOK, daemon, pipeline,
       environment, jobs, ownPorts, talks, closings, studentTasks
  <2>3. \A c \in Containers : SameLife(c)
    BY <1>1, <2>1 DEF SameLife, Checked, daemon, pipeline, closings
  <2>4. \A i \in Jobs : SameAnswered(i)
    BY <1>1, <2>1 DEF SameAnswered, Said, Notified, daemon, environment, jobs, ownPorts, talks, closings
  <2>5. \A s \in Students : SameServed(s)
    BY <1>1, <2>1 DEF SameServed, daemon, talks, studentTasks
  <2> QED
    BY <2>2, <2>3, <2>4, <2>5, NoLife, AnsweredFrame, ServedFrame DEF DockerInv
<1> QED
  BY <1>2, <1>3

\* A container has no memory left; the agent hears of it.
LEMMA MemoryInv ==
    ASSUME Known, NEW c \in Containers, ExhaustMemory(c) \/ HandleOOM(c)
    PROVE  DockerInv'
<1> USE DEF Known
<1>0. Life(c) /\ Remembered(c)
  BY DEF DockerInv
<1>1. /\ events' \in [Containers -> Seq({"oom", "die"})]
      /\ \A d \in Containers \ {c} : events'[d] = events[d]
      /\ Has(events'[c], "die") <=> Has(events[c], "die")
      /\ Once(events'[c], "die") /\ docker[c] \notin {"absent", "created"}
  <2>1. CASE ExhaustMemory(c)
    BY <1>0, <2>1, Emitted DEF ExhaustMemory, OutOfMemory, Life
  <2>2. CASE HandleOOM(c)
    BY <1>0, <2>2, Heard DEF HandleOOM, Life
  <2> QED
    BY <2>1, <2>2
<1>2. /\ UNCHANGED <<channels, docker, died, closeCalls, pipeline, environment, jobs, ownPorts, talks, closings, studentTasks>>
      /\ UNCHANGED <<running, ending, containerForJob, studentsFor, students>>
  BY DEF ExhaustMemory, HandleOOM, OutOfMemory, agentState, dicts
<1>3. UNCHANGED <<pipe, checked, watching, hadError, fromAgent, phase, verdict, closing, debugPort, talk>>
  BY <1>2 DEF channels, pipeline, environment, ownPorts, talks, closings
<1>4. CASE HandleOOM(c) /\ c \in running
  <2>1. killed' = [killed EXCEPT ![c] = "overflow"] /\ killCalls' = killCalls \cup {c} /\ loop' = {c}
    BY <1>4 DEF HandleOOM
  <2>2. killed \in [Containers -> {"none", "killed", "overflow"}]
    BY DEF DockerInv, TypeOK
  <2>3. killed'[c] = "overflow" /\ \A d \in Containers \ {c} : killed'[d] = killed[d]
    BY <2>1, <2>2
  <2>4. TypeOK'
    <3>1. /\ killCalls' \subseteq Containers /\ killed' \in [Containers -> {"none", "killed", "overflow"}]
          /\ loop' \in {{}} \cup {{d} : d \in killCalls'}
      BY <2>1, <2>2 DEF DockerInv, TypeOK, DockerTypeOK
    <3> QED
      BY <1>1, <1>2, <3>1 DEF DockerInv, TypeOK, ChannelsTypeOK, DockerTypeOK, WatchersTypeOK, channels, pipeline,
         environment, jobs, ownPorts, talks, closings, studentTasks
  <2> QED
    BY <1>1, <1>2, <1>3, <1>4, <2>1, <2>3, <2>4, KillInv
<1>5. CASE UNCHANGED <<killed, killCalls, loop>>
  <2>1. TypeOK'
    BY <1>1, <1>2, <1>5 DEF DockerInv, TypeOK, ChannelsTypeOK, DockerTypeOK, WatchersTypeOK, channels, pipeline,
       environment, jobs, ownPorts, talks, closings, studentTasks
  <2>2. \A d \in Containers \ {c} : SameLife(d)
    BY <1>1, <1>2, <1>3, <1>5 DEF SameLife, Checked
  <2>3. /\ HasEnded(c)' <=> HasEnded(c)
        /\ HasRun(c)' <=> HasRun(c)
        /\ Doomed(c)' <=> Doomed(c)
        /\ Unsaid(c)' <=> Unsaid(c)
        /\ \A k \in Killings : (Status(c, k)' <=> Status(c, k)) /\ (Checked(c, k)' <=> Checked(c, k))
    BY <1>2, <1>3, <1>5 DEF HasEnded, HasRun, Doomed, Unsaid, Status, Checked
  <2>4. Life(c)'
    BY <1>0, <1>1, <1>2, <1>3, <1>5, <2>3 DEF Life
  <2>5. Remembered(c)'
    BY <1>0, <1>2, <1>3, <1>5, <2>3 DEF Remembered, Killings
  <2> QED
    BY <1>2, <1>3, <1>5, <2>1, <2>2, <2>4, <2>5, AsideInv
<1> QED
  BY <1>4, <1>5 DEF HandleOOM, ExhaustMemory, OutOfMemory, agentState, dicts

-----------------------------------------------------------------------------
(* What the agent does at the end of a container.                           *)

\* A job whose container has ended is answered by the last of its handlers.
LEMMA NotAnswered ==
    ASSUME Known, NEW j \in Jobs, HasEnded(j), closing[j] # "over"
    PROVE  ~Said("done", j)
<1>1. PortOf(j) /\ Answered(j) /\ HasRun(j)
  BY DEF Known, PortInv, DockerInv, HasEnded, HasRun
<1> QED
  BY <1>1 DEF PortOf, Answered

\* The agent hears that a container has ended, and pushes its status.
LEMMA DeathLife ==
    ASSUME Known, NEW c \in Containers, ReadEvent(c, "die"), c \in running, Push(c, killed[c]),
           running' = running \ {c}, ending' = ending \cup {c},
           UNCHANGED <<docker, died, killCalls, checked, watching, hadError, killed, verdict, closing>>
    PROVE  /\ Life(c)' /\ Remembered(c)' /\ HasEnded(c) /\ Unsaid(c) /\ c \notin ending
           /\ \A d \in Containers \ {c} : SameLife(d)
           /\ pipe' \in [Containers -> Seq({"register"} \cup Killings)]
           /\ events' \in [Containers -> Seq({"oom", "die"})]
<1> USE DEF Known
<1>1. /\ Life(c) /\ Remembered(c) /\ killed[c] \in Killings /\ c \notin ending
  BY DEF DockerInv, TypeOK, Killings
<1>2. /\ events' \in [Containers -> Seq({"oom", "die"})]
      /\ \A d \in Containers \ {c} : events'[d] = events[d]
      /\ Has(events[c], "die") /\ ~Has(events'[c], "die") /\ Once(events'[c], "die")
  BY <1>1, Heard DEF Life
<1>3. HasEnded(c) /\ HasEnded(c)' /\ HasRun(c)' /\ Unsaid(c) /\ docker[c] \notin {"absent", "created", "up"}
  BY <1>1, <1>2 DEF Life, HasEnded, HasRun
<1>4. /\ pipe' \in [Containers -> Seq({"register"} \cup Killings)]
      /\ \A d \in Containers \ {c} : pipe'[d] = pipe[d]
      /\ \A k \in Killings : Status(c, k)' <=> k = killed[c]
      /\ \A k \in Killings : Once(pipe'[c], k) /\ ~Checked(c, k)'
  BY <1>1, <1>3, Pushed DEF Unsaid, Life, Checked
<1>5. Life(c)'
  BY <1>1, <1>2, <1>3, <1>4 DEF Life, Unsaid
<1>6. Remembered(c)'
  BY <1>1, <1>3, <1>4 DEF Remembered, Doomed, Unsaid, Killings
<1>7. \A d \in Containers \ {c} : SameLife(d)
  BY <1>2, <1>4, Names DEF SameLife, Checked
<1> QED
  BY <1>1, <1>2, <1>3, <1>4, <1>5, <1>6, <1>7

\* The status of a container comes out of the pipeline.
LEMMA StatusLife ==
    ASSUME Known, NEW c \in Containers, NEW result \in Killings, ReadStatus(c, result),
           docker'[c] \in {docker[c], "removed"}, result # "none" => verdict'[c] = result,
           c \in Jobs => closing'[c] # "no" /\ (closing'[c] = "waiting" => result = "none"),
           \A d \in Containers \ {c} : docker'[d] = docker[d] /\ verdict'[d] = verdict[d] /\ (d \in Jobs => closing'[d] = closing[d]),
           UNCHANGED <<running, events, died, killCalls, pipe, watching, hadError, killed>>
    PROVE  /\ Life(c)' /\ Remembered(c)' /\ HasEnded(c) /\ c \notin running /\ (c \in Jobs => closing[c] = "no")
           /\ \A d \in Containers \ {c} : SameLife(d)
<1> USE DEF Known
<1>1. /\ Life(c) /\ Remembered(c) /\ c \in ending /\ c \notin running /\ Checked(c, result)
      /\ ending' = ending \ {c} /\ checked' = checked \ {[container |-> c, result |-> result]}
  BY DEF DockerInv, TypeOK, ReadStatus, Checked
<1>2. /\ HasEnded(c) /\ HasEnded(c)' /\ HasRun(c)' /\ (c \in Jobs => closing[c] = "no") /\ docker'[c] \notin {"absent", "created", "up"}
      /\ docker[c] \notin {"absent", "created", "up"}
  BY <1>1 DEF Life, HasEnded, HasRun
<1>3. \A k \in Killings : /\ ~Status(c, k) /\ (Checked(c, k) <=> k = result)
                          /\ ~Status(c, k)' /\ ~Checked(c, k)'
  BY <1>1 DEF Life, Status, Checked
<1>4. \A d \in Containers \ {c}, k \in Killings : Checked(d, k)' <=> Checked(d, k)
  BY <1>1 DEF Checked
<1>5. Life(c)'
  BY <1>1, <1>2, <1>3 DEF Life
<1>6. Doomed(c)' <=> Doomed(c)
  BY <1>2 DEF Doomed
<1>7. Doomed(c) => result # "none"
  BY <1>1 DEF Remembered
<1>8. Remembered(c)'
  BY <1>1, <1>3, <1>6, <1>7 DEF Remembered, Killings
<1>9. \A d \in Containers \ {c} : SameLife(d)
  BY <1>1, <1>4 DEF SameLife
<1> QED
  BY <1>1, <1>2, <1>5, <1>8, <1>9

\* handle_job_closing_p1
LEMMA JobClosingP1Inv ==
    ASSUME Known, NEW j \in Jobs, JobClosingP1(j)
    PROVE  DockerInv'
<1> USE DEF Known
<1>1. /\ ReadEvent(j, "die") /\ j \in running /\ Push(j, killed[j]) /\ j \in Containers
      /\ running' = running \ {j} /\ ending' = ending \cup {j}
      /\ closeCalls' = closeCalls \cup (students \cap Children(j)) /\ students' = students \ Children(j)
      /\ studentsFor' = studentsFor \ {j} /\ sshPorts' = Returned(debugPort[j]) /\ debugPort' = [debugPort EXCEPT ![j] = NoPort]
      /\ UNCHANGED <<channels, docker, died, killCalls, checked, watching, hadError, environment, jobs>>
      /\ UNCHANGED <<containerForJob, killed, talks, closings, loop, studentTasks>>
  BY Names DEF JobClosingP1
<1>2. /\ Life(j)' /\ Remembered(j)' /\ HasEnded(j) /\ Unsaid(j) /\ j \notin ending
      /\ \A d \in Containers \ {j} : SameLife(d)
      /\ pipe' \in [Containers -> Seq({"register"} \cup Killings)]
      /\ events' \in [Containers -> Seq({"oom", "die"})]
  BY <1>1, DeathLife DEF closings
<1>3. debugPort \in [Jobs -> Ports \cup {NoPort}] /\ sshPorts \subseteq Ports /\ closeCalls \subseteq Students /\ students \subseteq Students
  BY DEF DockerInv, TypeOK, DockerTypeOK
<1>4. /\ debugPort' \in [Jobs -> Ports \cup {NoPort}] /\ debugPort'[j] = NoPort /\ \A i \in Jobs \ {j} : debugPort'[i] = debugPort[i]
      /\ sshPorts' \subseteq Ports /\ closeCalls' \subseteq Students /\ students' \subseteq Students
  BY <1>1, <1>3 DEF Returned
<1>5. TypeOK'
  BY <1>1, <1>2, <1>4 DEF DockerInv, TypeOK, ChannelsTypeOK, DockerTypeOK, WatchersTypeOK,
     channels, environment, jobs, talks, closings, studentTasks
<1>6. \A i \in Jobs \ {j} : SameAnswered(i)
  BY <1>1, <1>4 DEF SameAnswered, Said, Notified, channels, environment, jobs, talks, closings
<1>7. Answered(j)'
  <2>1. Answered(j) /\ closing[j] = "no"
    BY <1>2 DEF DockerInv, Unsaid
  <2>2. ~Said("done", j)
    BY <1>2, <2>1, NotAnswered
  <2>3. docker[j] \notin {"absent", "created"}
    BY <1>2 DEF HasEnded
  <2> QED
    BY <1>1, <1>4, <2>1, <2>2, <2>3 DEF Answered, Said, Notified, HasEnded, channels, environment, jobs, talks, closings
<1>8. ASSUME NEW s \in Students PROVE Served(s)'
  <2>1. s \in Containers /\ s \notin Jobs /\ Parent[s] \in Jobs /\ Served(s)
    BY Names, StudentsAssumption DEF DockerInv
  <2>2. s \in closeCalls' => s \in closeCalls \/ HasEnded(Parent[s])'
    BY <1>1, <1>2 DEF Children, HasEnded
  <2>3. UNCHANGED <<docker, killCalls, talk, request, replies>> /\ (s \in running' <=> s \in running) /\ (s \in ending' <=> s \in ending)
    BY <1>1, <2>1 DEF talks, studentTasks
  <2>4. request[s] # "none" => talk[Parent[s]] \in {"talking", "over"}
    BY <2>1 DEF Served
  <2> QED
    BY <2>1, <2>2, <2>3, <2>4, ParentFrame DEF HasEnded
<1> QED
  BY <1>1, <1>2, <1>5, <1>6, <1>7, <1>8, OneLife, AnsweredFrame DEF DockerInv

\* handle_job_closing_p2, from its wait to its end
LEMMA JobClosingP2Inv ==
    ASSUME Known, NEW j \in Jobs, JobClosingP2(j) \/ TakeResult(j) \/ SendResult(j) \/ DeleteFails(j)
    PROVE  DockerInv'
<1> USE DEF Known
<1>0. /\ Life(j) /\ Remembered(j) /\ Answered(j) /\ j \in Containers
      /\ docker \in [Containers -> {"absent", "created", "up", "down", "removed"}]
      /\ closing \in [Jobs -> {"no", "waiting", "deleting", "over"}]
      /\ verdict \in [Containers -> Killings \cup {"crash", "own"}]
      /\ killed \in [Containers -> {"none", "killed", "overflow"}]
  BY Names DEF DockerInv, TypeOK, DockerTypeOK
<1>1. ASSUME TypeOK', Life(j)', Remembered(j)', \A d \in Containers \ {j} : SameLife(d),
             HasEnded(j), closing'[j] # "no", \A i \in Jobs \ {j} : closing'[i] = closing[i],
             docker'[j] \in {docker[j], "removed"}, \A c \in Containers \ {j} : docker'[c] = docker[c],
             j \notin running, j \notin ending', \A c \in Containers \ {j} : c \in ending' <=> c \in ending,
             \A i \in Jobs \ {j} : /\ killed'[i] = killed[i] /\ (i \in containerForJob' <=> i \in containerForJob)
                                   /\ Said("done", i)' <=> Said("done", i),
             \A i \in Jobs : Notified(i)' <=> Notified(i),
             Said("done", j)' => closing'[j] = "over" /\ killed'[j] = "none" /\ j \notin containerForJob',
             UNCHANGED <<phase, task, port, debugPort, running, studentsFor, talk, killCalls, closeCalls, studentTasks>>
      PROVE  DockerInv'
  <2>1. HasEnded(j)' /\ docker'[j] \in {"down", "removed"}
    BY <1>1 DEF HasEnded
  <2>2. Answered(j)'
    BY <1>0, <1>1, <2>1 DEF Answered
  <2>3. \A i \in Jobs \ {j} : SameAnswered(i)
    BY <1>1, Names DEF SameAnswered
  <2>4. ASSUME NEW s \in Students PROVE Served(s)'
    <3>1. s \in Containers /\ s # j /\ Parent[s] \in Jobs /\ Parent[s] \in Containers /\ Served(s)
      BY Names, StudentsAssumption DEF DockerInv
    <3>2. docker'[s] = docker[s] /\ (s \in ending' <=> s \in ending)
      BY <1>1, <3>1
    <3>3. HasEnded(Parent[s]) => HasEnded(Parent[s])'
      BY <1>1, <2>1, <3>1 DEF HasEnded
    <3>4. docker'[Parent[s]] = "up" => docker[Parent[s]] = "up"
      BY <1>1, <2>1, <3>1
    <3>5. request[s] # "none" => talk[Parent[s]] \in {"talking", "over"}
      BY <3>1 DEF Served
    <3>6. UNCHANGED <<request, replies, talk, running, killCalls, closeCalls>>
      BY <1>1 DEF studentTasks
    <3> QED
      BY <3>1, <3>2, <3>3, <3>4, <3>5, <3>6, ParentFrame
  <2> QED
    BY <1>0, <1>1, <2>2, <2>3, <2>4, OneLife, AnsweredFrame DEF DockerInv
<1>2. CASE JobClosingP2(j)
  <2>1. PICK result \in Killings :
          /\ ReadStatus(j, result)
          /\ \E v \in {result, "crash"} : verdict' = [verdict EXCEPT ![j] = v] /\ (result # "none" => v = result)
          /\ \E r \in {"waiting", "deleting"} : closing' = [closing EXCEPT ![j] = r] /\ (r = "waiting" => result = "none")
    BY <1>2 DEF JobClosingP2
  <2>2. /\ UNCHANGED <<channels, dockerVars, pipe, watching, hadError, environment, jobs, ownPorts, talks, loop, studentTasks>>
        /\ UNCHANGED <<running, containerForJob, studentsFor, students, killed>>
        /\ ending' = ending \ {j} /\ checked' \subseteq checked
    BY <1>2 DEF JobClosingP2, ReadStatus
  <2>3. /\ result # "none" => verdict'[j] = result
        /\ \A d \in Containers \ {j} : verdict'[d] = verdict[d]
        /\ verdict' \in [Containers -> Killings \cup {"crash", "own"}]
    BY <1>0, <2>1
  <2>4. /\ closing'[j] \in {"waiting", "deleting"} /\ (closing'[j] = "waiting" => result = "none")
        /\ \A i \in Jobs \ {j} : closing'[i] = closing[i]
        /\ closing' \in [Jobs -> {"no", "waiting", "deleting", "over"}]
    BY <1>0, <2>1
  <2>5. UNCHANGED <<docker, events, died, killCalls, closeCalls, fromAgent, phase, task, port, debugPort, talk>>
    BY <2>2 DEF dockerVars, daemon, channels, environment, jobs, ownPorts, talks
  <2>6. /\ Life(j)' /\ Remembered(j)' /\ HasEnded(j) /\ j \notin running /\ closing[j] = "no"
        /\ \A d \in Containers \ {j} : SameLife(d)
    BY <1>0, <2>1, <2>2, <2>3, <2>4, <2>5, StatusLife
  <2>7. TypeOK'
    BY <2>2, <2>3, <2>4 DEF DockerInv, TypeOK, ChannelsTypeOK, DockerTypeOK, WatchersTypeOK,
       channels, dockerVars, daemon, environment, jobs, ownPorts, talks, studentTasks
  <2>8. ~Said("done", j)
    BY <2>6, NotAnswered
  <2> QED
    BY <1>1, <2>2, <2>4, <2>5, <2>6, <2>7, <2>8 DEF Said, Notified
<1>3. CASE TakeResult(j)
  <2>1. /\ closing[j] = "waiting" /\ closing' = [closing EXCEPT ![j] = "deleting"]
        /\ \E v \in {"crash", "own"} : verdict' = [verdict EXCEPT ![j] = v]
        /\ UNCHANGED <<channels, dockerVars, pipeline, environment, jobs, dicts, ownPorts, talks, loop, studentTasks>>
    BY <1>3 DEF TakeResult
  <2>2. /\ \A d \in Containers \ {j} : verdict'[d] = verdict[d]
        /\ verdict' \in [Containers -> Killings \cup {"crash", "own"}]
    BY <1>0, <2>1
  <2>3. /\ closing'[j] = "deleting" /\ \A i \in Jobs \ {j} : closing'[i] = closing[i]
        /\ closing' \in [Jobs -> {"no", "waiting", "deleting", "over"}]
    BY <1>0, <2>1
  <2>4. UNCHANGED <<docker, events, died, killCalls, closeCalls, pipe, checked, watching, hadError, running, ending, containerForJob,
                    studentsFor, killed, fromAgent, phase, task, port, debugPort, talk, studentTasks>>
    BY <2>1 DEF dockerVars, daemon, channels, pipeline, environment, jobs, dicts, ownPorts, talks
  <2>5. HasEnded(j) /\ j \notin running /\ j \notin ending /\ ~Doomed(j) /\ ~Said("done", j) /\ HasRun(j)
    BY <1>0, <2>1, NotAnswered DEF Answered, Remembered, HasEnded, HasRun
  <2>6. \A d \in Containers \ {j} : SameLife(d)
    BY <2>2, <2>3, <2>4 DEF SameLife, Checked
  <2>7. Life(j)'
    BY <1>0, <2>3, <2>4, <2>5 DEF Life, Status, Checked, HasEnded, HasRun
  <2>8. Remembered(j)'
    BY <2>4, <2>5 DEF Remembered, Doomed
  <2>9. TypeOK'
    BY <2>1, <2>2, <2>3 DEF DockerInv, TypeOK, ChannelsTypeOK, DockerTypeOK, WatchersTypeOK,
       channels, dockerVars, daemon, pipeline, environment, jobs, dicts, ownPorts, talks, studentTasks
  <2> QED
    BY <1>1, <2>3, <2>4, <2>5, <2>6, <2>7, <2>8, <2>9 DEF Said, Notified
<1>4. ASSUME closing[j] = "deleting", closing' = [closing EXCEPT ![j] = "over"], Becomes(j, "removed"), UNCHANGED verdict,
             containerForJob' \in {containerForJob, containerForJob \ {j}},
             killed' \in {killed, [killed EXCEPT ![j] = "none"]},
             fromAgent' \in [Agents -> Seq(AgentToBackend)],
             \A i \in Jobs : Notified(i)' <=> Notified(i),
             \A i \in Jobs \ {j} : Said("done", i)' <=> Said("done", i),
             Said("done", j)' => killed'[j] = "none" /\ j \notin containerForJob',
             UNCHANGED <<toAgent, events, died, killCalls, closeCalls, pipeline, environment, jobs>>,
             UNCHANGED <<running, ending, studentsFor, students, ownPorts, talks, loop, studentTasks>>
      PROVE  DockerInv'
  <2>1. HasEnded(j) /\ j \notin running /\ j \notin ending /\ HasRun(j)
    BY <1>0, <1>4 DEF Answered, HasEnded, HasRun
  <2>2. /\ docker'[j] = "removed" /\ \A c \in Containers \ {j} : docker'[c] = docker[c]
        /\ docker' \in [Containers -> {"absent", "created", "up", "down", "removed"}]
    BY <1>0, <1>4 DEF Becomes
  <2>3. /\ closing'[j] = "over" /\ \A i \in Jobs \ {j} : closing'[i] = closing[i]
        /\ closing' \in [Jobs -> {"no", "waiting", "deleting", "over"}]
    BY <1>0, <1>4
  <2>4. /\ \A c \in Containers \ {j} : killed'[c] = killed[c]
        /\ killed' \in [Containers -> {"none", "killed", "overflow"}]
    BY <1>0, <1>4
  <2>5. UNCHANGED <<pipe, checked, watching, hadError, phase, task, port, debugPort, talk>>
    BY <1>4 DEF pipeline, environment, jobs, ownPorts, talks
  <2>6. \A d \in Containers \ {j} : SameLife(d)
    BY <1>4, <2>2, <2>3, <2>4, <2>5 DEF SameLife, Checked
  <2>7. HasEnded(j)' /\ HasRun(j)' /\ (Doomed(j)' => Doomed(j))
    BY <1>4, <2>2 DEF HasEnded, HasRun, Doomed
  <2>8. Life(j)'
    BY <1>0, <1>4, <2>1, <2>2, <2>3, <2>5, <2>7 DEF Life, Status, Checked
  <2>9. Remembered(j)'
    BY <1>0, <1>4, <2>1, <2>3, <2>5, <2>7 DEF Remembered, Status, Checked
  <2>10. studentsFor \subseteq containerForJob' /\ containerForJob' \subseteq Jobs
    BY <1>0, <1>4, <2>1 DEF DockerInv, TypeOK, Answered
  <2>11. TypeOK'
    BY <1>4, <2>2, <2>3, <2>4, <2>10 DEF DockerInv, TypeOK, ChannelsTypeOK, DockerTypeOK, WatchersTypeOK,
       pipeline, environment, jobs, ownPorts, talks, studentTasks
  <2>12. /\ docker'[j] \in {docker[j], "removed"} /\ closing'[j] # "no" /\ j \notin ending'
         /\ \A c \in Containers \ {j} : c \in ending' <=> c \in ending
         /\ Said("done", j)' => closing'[j] = "over" /\ killed'[j] = "none" /\ j \notin containerForJob'
    BY <1>4, <2>1, <2>2, <2>3
  <2>13. \A i \in Jobs \ {j} : /\ killed'[i] = killed[i] /\ (i \in containerForJob' <=> i \in containerForJob)
                               /\ Said("done", i)' <=> Said("done", i)
    <3> SUFFICES ASSUME NEW i \in Jobs \ {j} PROVE killed'[i] = killed[i] /\ (i \in containerForJob' <=> i \in containerForJob)
      BY <1>4
    <3>1. i \in Containers \ {j}
      BY Names
    <3> QED
      BY <1>4, <2>4, <3>1
  <2>14. UNCHANGED <<phase, task, port, debugPort, running, studentsFor, talk, killCalls, closeCalls, studentTasks>>
    BY <1>4, <2>5
  <2>15. \A i \in Jobs : Notified(i)' <=> Notified(i)
    BY <1>4
  <2> QED
    BY <1>1, <2>1, <2>2, <2>3, <2>6, <2>8, <2>9, <2>11, <2>12, <2>13, <2>14, <2>15
<1>5. CASE SendResult(j)
  <2>1. /\ closing[j] = "deleting" /\ closing' = [closing EXCEPT ![j] = "over"] /\ Becomes(j, "removed")
        /\ SendToBackend(Self, Message("done", j)) /\ containerForJob' = containerForJob \ {j} /\ killed' = [killed EXCEPT ![j] = "none"]
        /\ UNCHANGED <<toAgent, events, died, killCalls, closeCalls, pipeline, environment, jobs>>
        /\ UNCHANGED <<running, ending, studentsFor, students, ownPorts, talks, verdict, loop, studentTasks>>
    BY <1>5 DEF SendResult, SendJobResult, jobs
  <2>2. /\ fromAgent' \in [Agents -> Seq(AgentToBackend)]
        /\ \A i \in Jobs : Notified(i)' <=> Notified(i)
        /\ \A i \in Jobs \ {j} : Said("done", i)' <=> Said("done", i)
    BY <2>1, AgentSends, Messages DEF Notified
  <2>3. killed'[j] = "none" /\ j \notin containerForJob'
    BY <1>0, <2>1
  <2> QED
    BY <1>4, <2>1, <2>2, <2>3
<1>6. CASE DeleteFails(j)
  <2>1. /\ closing[j] = "deleting" /\ closing' = [closing EXCEPT ![j] = "over"] /\ Becomes(j, "removed")
        /\ UNCHANGED <<channels, events, died, killCalls, closeCalls, pipeline, environment, jobs, dicts>>
        /\ UNCHANGED <<ownPorts, talks, verdict, loop, studentTasks>>
    BY <1>6 DEF DeleteFails
  <2>2. ~Said("done", j)
    BY <1>0, <2>1, NotAnswered DEF Answered
  <2>3. fromAgent' \in [Agents -> Seq(AgentToBackend)] /\ toAgent' = toAgent
        /\ \A i \in Jobs : (Notified(i)' <=> Notified(i)) /\ (Said("done", i)' <=> Said("done", i))
    BY <2>1 DEF DockerInv, TypeOK, ChannelsTypeOK, Said, Notified, channels
  <2>4. UNCHANGED <<running, ending, containerForJob, studentsFor, students, killed>>
    BY <2>1 DEF dicts
  <2> QED
    BY <1>4, <2>1, <2>2, <2>3, <2>4
<1> QED
  BY <1>2, <1>3, <1>5, <1>6


-----------------------------------------------------------------------------
(* Student containers.                                                      *)

\* A step about one student container: the other ones are served as before.
LEMMA OtherStudents ==
    ASSUME Known, NEW s \in Students, NEW t \in Students \ {s},
           \A c \in Containers \ {s} : /\ docker'[c] = docker[c]
                                       /\ c \in running' <=> c \in running
                                       /\ c \in ending' <=> c \in ending,
           request'[t] = request[t], replies'[t] = replies[t],
           UNCHANGED <<talk, killCalls, closeCalls>>
    PROVE  Served(t)'
<1>1. t \in Containers \ {s} /\ Parent[t] \in Containers \ {s} /\ Served(t)
  BY Names, StudentsAssumption DEF Known, DockerInv
<1>2. SameServed(t)
  BY <1>1 DEF SameServed
<1> QED
  BY <1>1, <1>2, ServedFrame

\* Such a step does not concern the jobs.
LEMMA OtherJobs ==
    ASSUME Known, NEW s \in Students, NEW j \in Jobs,
           \A c \in Containers \ {s} : /\ docker'[c] = docker[c]
                                       /\ c \in running' <=> c \in running
                                       /\ c \in ending' <=> c \in ending,
           UNCHANGED <<fromAgent, phase, task, port, debugPort, talk, closing, studentsFor, containerForJob, killed>>
    PROVE  Answered(j)'
<1>1. j \in Containers \ {s} /\ Answered(j)
  BY Names DEF Known, DockerInv
<1>2. SameAnswered(j)
  BY <1>1 DEF SameAnswered, Said, Notified
<1> QED
  BY <1>1, <1>2, AnsweredFrame

\* A return value is written to the grading container if it is listened to.
LEMMA Replied ==
    ASSUME Known, NEW s \in Students, replies[s] = 0, Reply(s)
    PROVE  /\ replies' \in [Students -> 0..2] /\ replies'[s] = IF Listening(s) THEN 1 ELSE 0
           /\ \A t \in Students \ {s} : replies'[t] = replies[t]
<1>1. replies \in [Students -> 0..2]
  BY DEF Known, DockerInv, TypeOK
<1>2. CASE Listening(s)
  <2>1. replies' = [replies EXCEPT ![s] = 1]
    BY <1>1, <1>2 DEF Reply
  <2> QED
    BY <1>1, <1>2, <2>1
<1>3. CASE ~Listening(s)
  BY <1>1, <1>3 DEF Reply
<1> QED
  BY <1>2, <1>3

\* A step of create_student_container that leaves docker alone
LEMMA AskInv ==
    ASSUME Known, NEW s \in Students, Served(s)',
           request' \in [Students -> {"none", "creating", "starting", "over"}], replies' \in [Students -> 0..2],
           \A t \in Students \ {s} : request'[t] = request[t] /\ replies'[t] = replies[t],
           UNCHANGED <<channels, dockerVars, pipeline, environment, jobs, dicts, ownPorts, talks, closings, loop>>
    PROVE  DockerInv'
<1>1. TypeOK'
  BY DEF Known, DockerInv, TypeOK, ChannelsTypeOK, DockerTypeOK, WatchersTypeOK,
     channels, dockerVars, daemon, pipeline, environment, jobs, dicts, ownPorts, talks, closings
<1>2. \A c \in Containers : SameLife(c)
  BY DEF SameLife, Checked, dockerVars, daemon, pipeline, dicts, closings
<1>3. UNCHANGED <<fromAgent, phase, task, port, debugPort, talk, closing, studentsFor, containerForJob, killed>>
  BY DEF channels, environment, jobs, ownPorts, talks, closings, dicts
<1>4. UNCHANGED <<docker, running, ending, killCalls, closeCalls>>
  BY DEF dockerVars, daemon, dicts
<1>5. \A j \in Jobs : Answered(j)'
  BY <1>3, <1>4, OtherJobs
<1>6. \A t \in Students \ {s} : Served(t)'
  BY <1>3, <1>4, OtherStudents
<1> QED
  BY <1>1, <1>2, <1>5, <1>6, NoLife DEF Known

\* A student container is asked for, refused, or not started.
LEMMA AskedInv ==
    ASSUME Known, NEW s \in Students, ReadRunStudent(s) \/ RefuseStudent(s) \/ StudentStartFails(s)
    PROVE  DockerInv'
<1>0. /\ request \in [Students -> {"none", "creating", "starting", "over"}] /\ replies \in [Students -> 0..2]
      /\ Served(s) /\ Life(s) /\ s \in Containers
  BY Names DEF Known, DockerInv, TypeOK
<1>1. CASE ReadRunStudent(s)
  <2>1. /\ talk[Parent[s]] = "talking" /\ request[s] = "none" /\ request' = [request EXCEPT ![s] = "creating"]
        /\ replies' = replies
        /\ UNCHANGED <<channels, dockerVars, pipeline, environment, jobs, dicts, ownPorts, talks, closings, loop>>
    BY <1>1 DEF ReadRunStudent, TalkUnchanged, channels
  <2>2. /\ request' \in [Students -> {"none", "creating", "starting", "over"}] /\ request'[s] = "creating"
        /\ \A t \in Students \ {s} : request'[t] = request[t]
    BY <1>0, <2>1
  <2>3. UNCHANGED <<docker, running, ending, killCalls, closeCalls, talk>>
    BY <2>1 DEF dockerVars, daemon, dicts, talks
  <2>4. Served(s)'
    BY <1>0, <2>1, <2>2, <2>3 DEF Served, Listening, HasEnded
  <2> QED
    BY <1>0, <2>1, <2>2, <2>4, AskInv
<1>2. ASSUME request[s] = "creating" \/ (request[s] = "starting" /\ docker[s] = "created"),
             request' = [request EXCEPT ![s] = "over"], Reply(s),
             UNCHANGED <<channels, dockerVars, pipeline, environment, jobs, dicts, ownPorts, talks, closings, loop>>
      PROVE  DockerInv'
  <2>1. /\ request' \in [Students -> {"none", "creating", "starting", "over"}] /\ request'[s] = "over"
        /\ \A t \in Students \ {s} : request'[t] = request[t]
    BY <1>0, <1>2
  <2>2. UNCHANGED <<docker, running, ending, killCalls, closeCalls, talk>>
    BY <1>2 DEF dockerVars, daemon, dicts, talks
  <2>3. replies[s] = 0 /\ docker[s] \in {"absent", "created"} /\ s \notin ending
    BY <1>0, <1>2 DEF Served, Life, HasEnded
  <2>4. /\ replies' \in [Students -> 0..2] /\ replies'[s] = IF Listening(s) THEN 1 ELSE 0
        /\ \A t \in Students \ {s} : replies'[t] = replies[t]
    BY <1>2, <2>3, Replied
  <2>5. Served(s)'
    BY <1>0, <1>2, <2>1, <2>2, <2>3, <2>4 DEF Served, Listening, HasEnded
  <2> QED
    BY <1>2, <2>1, <2>4, <2>5, AskInv
<1>3. CASE RefuseStudent(s)
  BY <1>2, <1>3 DEF RefuseStudent
<1>4. CASE StudentStartFails(s)
  BY <1>2, <1>4, Names DEF StudentStartFails, StartMayFail, Starting
<1> QED
  BY <1>1, <1>3, <1>4

\* Docker has created a student container.
LEMMA CreateStudentInv ==
    ASSUME Known, NEW s \in Students, CreateStudent(s)
    PROVE  DockerInv'
<1> USE DEF Known
<1>0. /\ Served(s) /\ Life(s) /\ Remembered(s) /\ s \in Containers /\ s \notin Jobs
      /\ Parent[s] \in Jobs /\ Parent[s] \in Containers /\ Life(Parent[s]) /\ Answered(Parent[s])
      /\ docker \in [Containers -> {"absent", "created", "up", "down", "removed"}]
      /\ request \in [Students -> {"none", "creating", "starting", "over"}]
  BY Names, StudentsAssumption DEF DockerInv, TypeOK, DockerTypeOK
<1>1. /\ request[s] = "creating" /\ docker' = [docker EXCEPT ![s] = "created"]
      /\ running' \in {running, running \cup {s}} /\ students' \in {students, students \cup {s}}
      /\ \E r \in {"starting", "over"} :
           /\ request' = [request EXCEPT ![s] = r]
           /\ r = "starting" => s \in running'
           /\ r = "over" => Parent[s] \notin studentsFor \/ ~Listening(s)
      /\ UNCHANGED <<channels, events, died, killCalls, closeCalls, pipeline, environment, jobs>>
      /\ UNCHANGED <<ending, containerForJob, studentsFor, killed, ownPorts, talks, closings, loop, replies>>
  BY DEF CreateStudent, Becomes
<1>2. docker'[s] = "created" /\ \A c \in Containers \ {s} : docker'[c] = docker[c] /\ (c \in running' <=> c \in running)
  BY <1>0, <1>1
<1>3. /\ request'[s] \in {"starting", "over"} /\ (request'[s] = "starting" => s \in running')
      /\ request'[s] = "over" => Parent[s] \notin studentsFor \/ ~Listening(s)
      /\ \A t \in Students \ {s} : request'[t] = request[t]
      /\ request' \in [Students -> {"none", "creating", "starting", "over"}]
  BY <1>0, <1>1
<1>4. docker[s] = "absent" /\ replies[s] = 0 /\ s \notin running /\ s \notin killCalls /\ s \notin ending /\ ~HasRun(s) /\ ~HasEnded(s)
  BY <1>0, <1>1 DEF Served, Life, HasRun, HasEnded
<1>5. TypeOK'
  <2>1. docker' \in [Containers -> {"absent", "created", "up", "down", "removed"}]
    BY <1>0, <1>1
  <2>2. running \subseteq Containers /\ ending \subseteq Containers \ running /\ students \subseteq Students
    BY DEF DockerInv, TypeOK
  <2>3. running' \subseteq Containers /\ ending' \subseteq Containers \ running' /\ students' \subseteq Students
    BY <1>0, <1>1, <1>4, <2>2
  <2>4. UNCHANGED <<toAgent, fromAgent, events, died, killCalls, closeCalls, pipe, checked, watching, hadError,
                    phase, given, kills, task, port, containerForJob, studentsFor, killed, sshPorts, debugPort,
                    talk, future, closing, verdict, loop, replies>>
    BY <1>1 DEF channels, pipeline, environment, jobs, ownPorts, talks, closings
  <2> QED
    BY <1>3, <2>1, <2>3, <2>4 DEF DockerInv, TypeOK, ChannelsTypeOK, DockerTypeOK, WatchersTypeOK
<1>6. \A c \in Containers \ {s} : SameLife(c)
  BY <1>1, <1>2 DEF SameLife, Checked, pipeline, closings
<1>7. UNCHANGED <<events, died, killCalls, closeCalls, pipe, checked, watching, hadError, ending, killed, verdict, closing,
                  fromAgent, phase, task, port, debugPort, talk, studentsFor, containerForJob, replies>>
  BY <1>1 DEF pipeline, closings, channels, environment, jobs, ownPorts, talks
<1>8. Unsaid(s) /\ Unsaid(s)'
  BY <1>0, <1>4, <1>7 DEF Life, Unsaid, Status, Checked
<1>9. Life(s)'
  BY <1>0, <1>2, <1>4, <1>7, <1>8 DEF Life, Status, Checked, HasEnded, HasRun
<1>10. Remembered(s)'
  BY <1>0, <1>2, <1>4, <1>7, <1>8 DEF Remembered, Doomed, Life, Unsaid, Status, Checked, Killings
<1>11. \A j \in Jobs : Answered(j)'
  BY <1>2, <1>7, OtherJobs
<1>12. \A t \in Students \ {s} : Served(t)'
  BY <1>2, <1>3, <1>7, OtherStudents
<1>13. docker'[Parent[s]] = "up" => Parent[s] \in studentsFor
  BY <1>0, <1>2 DEF Life, Answered
<1>14. talk[Parent[s]] \in {"talking", "over"} /\ (s \in closeCalls => HasEnded(Parent[s])')
  BY <1>0, <1>1, <1>2 DEF Served, HasEnded
<1>15. Served(s)'
  BY <1>0, <1>2, <1>3, <1>4, <1>7, <1>13, <1>14 DEF Served, Listening
<1> QED
  BY <1>0, <1>5, <1>6, <1>9, <1>10, <1>11, <1>12, <1>15, OneLife

\* docker's start returns to create_student_container.
LEMMA StudentStartedInv ==
    ASSUME Known, NEW s \in Students, StudentStarted(s)
    PROVE  DockerInv'
<1> USE DEF Known
<1>0. /\ Served(s) /\ Life(s) /\ Remembered(s) /\ s \in Containers /\ s \notin Jobs
      /\ request \in [Students -> {"none", "creating", "starting", "over"}]
  BY Names DEF DockerInv, TypeOK
<1>1. /\ request[s] = "starting" /\ docker[s] \notin {"absent", "created"} /\ request' = [request EXCEPT ![s] = "over"]
      /\ Push(s, "register")
      /\ UNCHANGED <<channels, dockerVars, checked, watching, hadError, environment, jobs, dicts>>
      /\ UNCHANGED <<ownPorts, talks, closings, loop, replies>>
  BY <1>0 DEF StudentStarted, Starting, Served
<1>2. /\ request'[s] = "over" /\ \A t \in Students \ {s} : request'[t] = request[t]
      /\ request' \in [Students -> {"none", "creating", "starting", "over"}]
  BY <1>0, <1>1
<1>3. /\ pipe' \in [Containers -> Seq({"register"} \cup Killings)]
      /\ \A d \in Containers \ {s} : pipe'[d] = pipe[d]
      /\ \A k \in Killings : (Status(s, k)' <=> Status(s, k)) /\ (Once(pipe[s], k) => Once(pipe'[s], k))
  <2>1. "register" \in {"register"} \cup Killings /\ "register" \notin Killings
    BY DEF Killings
  <2> QED
    BY <1>0, <1>1, <2>1, Pushed
<1>4. TypeOK'
  BY <1>1, <1>2, <1>3 DEF DockerInv, TypeOK, ChannelsTypeOK, DockerTypeOK, WatchersTypeOK,
     channels, dockerVars, daemon, environment, jobs, dicts, ownPorts, talks, closings
<1>5. \A d \in Containers \ {s} : SameLife(d)
  BY <1>1, <1>3 DEF SameLife, Checked, dockerVars, daemon, dicts, closings
<1>6. UNCHANGED <<docker, events, died, killCalls, closeCalls, checked, watching, hadError, running, ending, killed, verdict, closing,
                  fromAgent, phase, task, port, debugPort, talk, studentsFor, containerForJob, replies>>
  BY <1>1 DEF dockerVars, daemon, dicts, closings, channels, environment, jobs, ownPorts, talks
<1>7. \A k \in Killings : (Status(s, k)' <=> Status(s, k)) /\ (Checked(s, k)' <=> Checked(s, k))
  BY <1>3, <1>6 DEF Checked
<1>8. Unsaid(s) <=> Unsaid(s)'
  BY <1>6, <1>7 DEF Unsaid
<1>9. Life(s)'
  BY <1>0, <1>1, <1>3, <1>6, <1>7, <1>8 DEF Life, HasEnded, HasRun
<1>10. Remembered(s)'
  BY <1>0, <1>6, <1>7 DEF Remembered, Doomed, Killings
<1>11. \A j \in Jobs : Answered(j)'
  BY <1>6, OtherJobs
<1>12. \A t \in Students \ {s} : Served(t)'
  BY <1>2, <1>6, OtherStudents
<1>13. docker[s] \in {"up", "down", "removed"}
  BY <1>0, <1>1 DEF DockerInv, TypeOK, DockerTypeOK
<1>14. Served(s)'
  BY <1>0, <1>1, <1>2, <1>6, <1>13 DEF Served, Listening, HasEnded
<1> QED
  BY <1>0, <1>4, <1>5, <1>9, <1>10, <1>11, <1>12, <1>14, OneLife

\* handle_student_job_closing_p1
LEMMA StudentClosingP1Inv ==
    ASSUME Known, NEW s \in Students, StudentClosingP1(s)
    PROVE  DockerInv'
<1> USE DEF Known
<1>0. Served(s) /\ s \in Containers /\ s \notin Jobs
  BY Names DEF DockerInv
<1>1. /\ ReadEvent(s, "die") /\ s \in running /\ Push(s, killed[s])
      /\ running' = running \ {s} /\ ending' = ending \cup {s} /\ students' = students \ {s}
      /\ UNCHANGED <<channels, docker, died, killCalls, closeCalls, checked, watching, hadError, environment, jobs>>
      /\ UNCHANGED <<containerForJob, studentsFor, killed, ownPorts, talks, closings, loop, studentTasks>>
  BY DEF StudentClosingP1
<1>2. /\ Life(s)' /\ Remembered(s)' /\ HasEnded(s) /\ s \notin ending
      /\ \A d \in Containers \ {s} : SameLife(d)
      /\ pipe' \in [Containers -> Seq({"register"} \cup Killings)]
      /\ events' \in [Containers -> Seq({"oom", "die"})]
  BY <1>0, <1>1, DeathLife DEF closings
<1>3. TypeOK'
  BY <1>0, <1>1, <1>2 DEF DockerInv, TypeOK, ChannelsTypeOK, DockerTypeOK, WatchersTypeOK,
     channels, environment, jobs, ownPorts, talks, closings, studentTasks
<1>4. UNCHANGED <<docker, killCalls, closeCalls, killed, closing,
                  fromAgent, phase, task, port, debugPort, talk, studentsFor, containerForJob, request, replies>>
  BY <1>1 DEF channels, environment, jobs, ownPorts, talks, closings, studentTasks
<1>5. \A c \in Containers \ {s} : (c \in running' <=> c \in running) /\ (c \in ending' <=> c \in ending)
  BY <1>1
<1>6. \A j \in Jobs : Answered(j)'
  BY <1>4, <1>5, OtherJobs
<1>7. \A t \in Students \ {s} : Served(t)'
  BY <1>4, <1>5, OtherStudents
<1>8. replies[s] = 0
  BY <1>0, <1>1, <1>2 DEF Served, HasEnded
<1>9. Served(s)'
  BY <1>0, <1>2, <1>4, <1>8 DEF Served, Listening, HasEnded
<1> QED
  BY <1>0, <1>2, <1>3, <1>6, <1>7, <1>9, OneLife

\* handle_student_job_closing_p2
LEMMA StudentClosingP2Inv ==
    ASSUME Known, NEW s \in Students, StudentClosingP2(s)
    PROVE  DockerInv'
<1> USE DEF Known
<1>0. /\ Served(s) /\ s \in Containers /\ s \notin Jobs
      /\ docker \in [Containers -> {"absent", "created", "up", "down", "removed"}]
      /\ verdict \in [Containers -> Killings \cup {"crash", "own"}]
  BY Names DEF DockerInv, TypeOK, DockerTypeOK
<1>1. PICK result \in Killings :
        ReadStatus(s, result) /\ verdict' = [verdict EXCEPT ![s] = IF result = "none" THEN "own" ELSE result]
  BY DEF StudentClosingP2
<1>2. /\ Reply(s) /\ docker' = [docker EXCEPT ![s] = "removed"]
      /\ UNCHANGED <<channels, events, died, killCalls, closeCalls, pipe, watching, hadError, environment, jobs>>
      /\ UNCHANGED <<running, containerForJob, studentsFor, students, killed, ownPorts, talks, closing, loop, request>>
      /\ ending' = ending \ {s} /\ checked' \subseteq checked /\ s \in ending
  BY <1>1 DEF StudentClosingP2, Becomes, ReadStatus
<1>3. docker'[s] = "removed" /\ \A d \in Containers \ {s} : docker'[d] = docker[d] /\ verdict'[d] = verdict[d]
  BY <1>0, <1>1, <1>2
<1>4. result # "none" => verdict'[s] = result
  BY <1>0, <1>1
<1>5. /\ Life(s)' /\ Remembered(s)' /\ HasEnded(s) /\ s \notin running
      /\ \A d \in Containers \ {s} : SameLife(d)
  BY <1>0, <1>1, <1>2, <1>3, <1>4, StatusLife
<1>6. replies[s] = 0 /\ request[s] \notin {"none", "creating"}
  BY <1>0, <1>2, <1>5 DEF Served, HasEnded
<1>7. /\ replies' \in [Students -> 0..2] /\ replies'[s] = IF Listening(s) THEN 1 ELSE 0
      /\ \A t \in Students \ {s} : replies'[t] = replies[t]
  BY <1>2, <1>6, Replied
<1>8. docker' \in [Containers -> {"absent", "created", "up", "down", "removed"}] /\ verdict' \in [Containers -> Killings \cup {"crash", "own"}]
  BY <1>0, <1>1, <1>2 DEF Killings
<1>9. TypeOK'
  BY <1>2, <1>7, <1>8 DEF DockerInv, TypeOK, ChannelsTypeOK, DockerTypeOK, WatchersTypeOK,
     channels, environment, jobs, ownPorts, talks
<1>10. UNCHANGED <<running, killCalls, closeCalls, killed, closing,
                  fromAgent, phase, task, port, debugPort, talk, studentsFor, containerForJob, request>>
  BY <1>2 DEF channels, environment, jobs, ownPorts, talks
<1>11. \A c \in Containers \ {s} : docker'[c] = docker[c] /\ (c \in running' <=> c \in running) /\ (c \in ending' <=> c \in ending)
  BY <1>2, <1>3
<1>12. \A j \in Jobs : Answered(j)'
  BY <1>10, <1>11, OtherJobs
<1>13. \A t \in Students \ {s} : Served(t)'
  BY <1>7, <1>10, <1>11, OtherStudents
<1>14. HasEnded(Parent[s])' <=> HasEnded(Parent[s])
  BY <1>0, <1>3, StudentsAssumption, Names DEF HasEnded
<1>15. Served(s)'
  BY <1>0, <1>2, <1>3, <1>5, <1>6, <1>7, <1>10, <1>14 DEF Served, Listening
<1> QED
  BY <1>0, <1>5, <1>9, <1>12, <1>13, <1>15, OneLife


-----------------------------------------------------------------------------
(* The invariant, and what it says of the agent.                            *)

\* At the start nothing has been asked for, sent or said.
LEMMA InitDocker == Init => DockerInv
<1> SUFFICES ASSUME Init PROVE DockerInv
  OBVIOUS
<1>1. TypeOK
  BY DockerAgentAssumption DEF Init, ChannelsInit, DockerInit, WatchersInit,
     TypeOK, ChannelsTypeOK, DockerTypeOK, WatchersTypeOK, Killings
<1>2. ASSUME NEW c \in Containers PROVE Life(c) /\ Remembered(c)
  <2>1. /\ docker[c] = "absent" /\ events[c] = <<>> /\ pipe[c] = <<>> /\ died[c] = "no" /\ verdict[c] = "none" /\ killed[c] = "none"
        /\ killCalls = {} /\ checked = {} /\ watching = {} /\ running = {} /\ ending = {}
        /\ c \in Jobs => closing[c] = "no"
    BY DEF Init, DockerInit, WatchersInit
  <2>2. \A k \in Killings : ~Status(c, k) /\ ~Checked(c, k) /\ Once(pipe[c], k)
    BY <2>1, ChannelEmpty DEF Status, Checked
  <2>3. ~Has(events[c], "die") /\ Once(events[c], "die")
    BY <2>1, ChannelEmpty
  <2>4. Life(c)
    BY <2>1, <2>2, <2>3 DEF Life, Unsaid, HasEnded, HasRun
  <2>5. Remembered(c)
    BY <2>1 DEF Remembered, Doomed
  <2> QED
    BY <2>4, <2>5
<1>3. ASSUME NEW j \in Jobs PROVE Answered(j)
  <2>1. ~Said("done", j) /\ ~Notified(j)
    BY Names, ChannelEmpty DEF Init, ChannelsInit, Said, Notified
  <2>2. docker[j] = "absent" /\ task[j] = "none" /\ closing[j] = "no" /\ port[j] = NoPort /\ debugPort[j] = NoPort
    BY Names DEF Init, DockerInit
  <2>3. running = {} /\ studentsFor = {} /\ containerForJob = {}
    BY DEF Init
  <2> QED
    BY <2>1, <2>2, <2>3 DEF Answered
<1>4. ASSUME NEW s \in Students PROVE Served(s)
  <2>1. docker[s] = "absent" /\ docker[Parent[s]] = "absent" /\ request[s] = "none" /\ replies[s] = 0 /\ closeCalls = {} /\ ending = {}
    BY Names, StudentsAssumption DEF Init, DockerInit
  <2> QED
    BY <2>1 DEF Served
<1> QED
  BY <1>1, <1>2, <1>3, <1>4 DEF DockerInv

\* A step that changes nothing
LEMMA NothingInv ==
    ASSUME Known, UNCHANGED vars
    PROVE  DockerInv'
<1>1. loop' = loop /\ killCalls' = killCalls /\ closeCalls' = closeCalls /\ UNCHANGED <<daemon, pipeline, agentState>>
  BY DEF vars, dockerVars, agentState
<1>2. loop \in {{}} \cup {{d} : d \in killCalls}
  BY DEF Known, DockerInv, TypeOK
<1> QED
  BY <1>1, <1>2, CallInv

\* The invariant that relates what docker, the threads, the pipeline, the
\* dictionaries of the agent and what it has sent say of each container: it holds
\* whatever the jobs, the students, the kills, the time limits and the failures.
THEOREM DockerInvariant == Spec => []DockerInv
<1>1. Init => DockerInv
  BY InitDocker
<1>2. PortInv /\ DockerInv /\ [Next]_vars => DockerInv'
  <2> SUFFICES ASSUME Known, [Next]_vars PROVE DockerInv'
    BY DEF Known
  <2>1. CASE UNCHANGED vars
    BY <2>1, NothingInv
  <2>2. CASE Start
    BY <2>2, StartInv
  <2>3. ASSUME NEW j \in Jobs,
               \/ SendNewJob(j) \/ SendKillJob(j)
               \/ ReadBackend(j) \/ NewJobStep(j) \/ PrepareFails(j)
               \/ Attach(j) \/ AttachFails(j)
               \/ ReadResult(j) \/ ReadGarbage(j) \/ ReadEOF(j) \/ ReadSshKey(j)
               \/ ClosingStep(j)
        PROVE  DockerInv'
    <3>1. CASE SendNewJob(j) \/ SendKillJob(j)
      BY <3>1, SendInv
    <3>2. CASE ReadBackend(j)
      BY <3>2, ReceiveNewJobInv, HandleKillInv DEF ReadBackend
    <3>3. CASE NewJobStep(j) \/ PrepareFails(j)
      BY <3>3, NewJobInv, CreatedInv, StartedInv DEF NewJobStep
    <3>4. CASE Attach(j) \/ AttachFails(j) \/ ReadResult(j) \/ ReadGarbage(j) \/ ReadEOF(j) \/ ReadSshKey(j)
      BY <3>4, TalkInv
    <3>5. CASE ClosingStep(j)
      BY <3>5, JobClosingP1Inv, JobClosingP2Inv DEF ClosingStep
    <3> QED
      BY <2>3, <3>1, <3>2, <3>3, <3>4, <3>5
  <2>4. ASSUME NEW s \in Students, ReadRunStudent(s) \/ StudentStep(s) \/ CloseContainer(s)
        PROVE  DockerInv'
    <3>1. CASE ReadRunStudent(s)
      BY <3>1, AskedInv
    <3>2. CASE StudentStep(s)
      BY <3>2, AskedInv, CreateStudentInv, StudentStartedInv, StudentClosingP1Inv, StudentClosingP2Inv DEF StudentStep
    <3>3. CASE CloseContainer(s)
      BY <3>3, EndsInv, Names
    <3> QED
      BY <2>4, <3>1, <3>2, <3>3
  <2>5. ASSUME NEW c \in Containers, ContainerStep(c) \/ EndContainer(c) \/ ExhaustMemory(c)
        PROVE  DockerInv'
    <3>1. CASE DockerStarts(c)
      BY <3>1, DockerStartsInv
    <3>2. CASE KillContainer(c) \/ EndContainer(c)
      BY <3>2, EndsInv
    <3>3. CASE Watch(c)
      BY <3>3, WatchInv
    <3>4. CASE TimeOut(c)
      BY <3>4, TimeOutInv
    <3>5. CASE HandleOOM(c) \/ ExhaustMemory(c)
      BY <3>5, MemoryInv
    <3> QED
      BY <2>5, <3>1, <3>2, <3>3, <3>4, <3>5 DEF ContainerStep
  <2> QED
    BY <2>1, <2>2, <2>3, <2>4, <2>5 DEF Next
<1> QED
  BY <1>1, <1>2, PortInvariant, PTL DEF Spec

\* The dictionaries of the agent, the events of docker and the messages keep
\* their types: a container is never among those that run and those that end at
\* once, and student containers are listed only under jobs that are known.
THEOREM AgentTypes == Spec => []TypeOK
<1>1. DockerInv => TypeOK
  BY DEF DockerInv
<1> QED
  BY <1>1, DockerInvariant, PTL

\* A container that was killed by the agent, for a user, a timeout or a lack of
\* memory, is never reported with a result of its own: whichever of the thread,
\* docker's events and the pipeline is late, one of _containers_killed and
\* container_had_error still knows of the kill when the status passes.
THEOREM KillsReported == Spec => []KillsAreReported
<1>1. DockerInv => KillsAreReported
  BY DEF DockerInv, KillsAreReported, Remembered, Doomed
<1> QED
  BY <1>1, DockerInvariant, PTL

\* Once a job is answered neither _containers_killed nor _container_for_job has
\* an entry for it, on all six paths that answer; only a container that docker
\* has refused to start stays listed as running.
THEOREM AnsweredForgotten == Spec => []ForgottenOnceAnswered
<1>1. DockerInv => ForgottenOnceAnswered
  <2> SUFFICES ASSUME DockerInv, NEW j \in Jobs, Sent("done", j), j \notin running
               PROVE  killed[j] = "none" /\ j \notin containerForJob
    BY DEF ForgottenOnceAnswered
  <2>1. Said("done", j) /\ Answered(j)
    BY DEF DockerInv, Sent, Said, Notified, Has
  <2> QED
    BY <2>1 DEF Answered
<1> QED
  BY <1>1, DockerInvariant, PTL

\* A grading container that is up and listened to has got one return value for
\* each student container that it asked for and that is no more, and none has
\* ever got two, whichever step of create_student_container or of the closing
\* of the student container has failed.
THEOREM StudentsReplied == Spec => []StudentReplied
<1>1. DockerInv => StudentReplied
  <2> SUFFICES ASSUME DockerInv, NEW s \in Students
               PROVE  /\ replies[s] <= 1
                      /\ request[s] = "over" /\ Listening(s) /\ docker[Parent[s]] = "up" =>
                           replies[s] = 1 \/ docker[s] \in {"up", "down"}
    BY DEF StudentReplied
  <2>1. Served(s)
    BY DEF DockerInv
  <2>2. replies[s] <= 1
    BY <2>1 DEF Served
  <2> QED
    BY <2>1, <2>2 DEF Served
<1> QED
  BY <1>1, DockerInvariant, PTL


-----------------------------------------------------------------------------
(* The agent implements what the backend counts on.  One step of one of its *)
(* handlers is one step of AgentContract, or one that it does not see.      *)

\* Jobs that are received and not answered, and messages about the received ones
\* that the agent may still send: what C substitutes.
Held == {j \in Received : ~Sent("done", j)}
Pending == {n \in UNION {AllNotices(j) : j \in Received} : ~Sent(n.type, n.job)}

\* The same, one by one
Substituted ==
    /\ \A j : j \in Held <=> j \in Jobs /\ task[j] # "none" /\ ~Said("done", j)
    /\ \A n : n \in Pending <=>
         \E j \in Jobs : /\ task[j] # "none"
                         /\ \/ n = Message("started", j) /\ ~Said("started", j)
                            \/ n = Message("ssh_debug", j) /\ ~Said("ssh_debug", j) /\ j \in DebugJobs

\* The two ways of saying it agree.
LEMMA PendingNotices == Substituted
<1>1. \A type, j : Sent(type, j) <=> Said(type, j)
  BY DEF Sent, Said, Has
<1>2. \A j : j \in Held <=> j \in Jobs /\ task[j] # "none" /\ ~Said("done", j)
  BY <1>1 DEF Held, Received
<1>3. ASSUME NEW n
      PROVE  n \in Pending <=>
         \E j \in Jobs : /\ task[j] # "none"
                         /\ \/ n = Message("started", j) /\ ~Said("started", j)
                            \/ n = Message("ssh_debug", j) /\ ~Said("ssh_debug", j) /\ j \in DebugJobs
  <2>1. \A j : n = Message("started", j) \/ n = Message("ssh_debug", j) => n.job = j
    BY DEF Message
  <2>2. \A j : (n = Message("started", j) => n.type = "started") /\ (n = Message("ssh_debug", j) => n.type = "ssh_debug")
    BY DEF Message
  <2>3. n \in Pending <=> (\E j \in Received : n \in AllNotices(j)) /\ ~Sent(n.type, n.job)
    BY DEF Pending
  <2>4. \A j : n \in AllNotices(j) <=> n = Message("started", j) \/ (j \in DebugJobs /\ n = Message("ssh_debug", j))
    BY DEF AllNotices
  <2> QED
    BY <1>1, <2>1, <2>2, <2>3, <2>4 DEF Received
<1> QED
  BY <1>2, <1>3 DEF Substituted

\* They are the same in the next state.
LEMMA PendingNext == Substituted'
BY PendingNotices, PTL

\* Steps that change neither the channels nor which jobs have been received are
\* not seen.
LEMMA Unseen ==
    ASSUME UNCHANGED <<phase, channels>>, \A j \in Jobs : task'[j] # "none" <=> task[j] # "none"
    PROVE  UNCHANGED <<C!agentVars, C!channels>>
<1>1. Received' = Received
  BY DEF Received
<1>2. \A type, j : Sent(type, j)' <=> Sent(type, j)
  BY DEF Sent, channels
<1>3. {j \in Received : ~Sent("done", j)}' = {j \in Received : ~Sent("done", j)}
  BY <1>1, <1>2
<1>4. {n \in UNION {AllNotices(j) : j \in Received} : ~Sent(n.type, n.job)}'
        = {n \in UNION {AllNotices(j) : j \in Received} : ~Sent(n.type, n.job)}
  BY <1>1, <1>2 DEF AllNotices
<1> QED
  BY <1>3, <1>4 DEF channels, C!agentVars, C!channels

\* Nothing has been received or sent about a job.
LEMMA SameSubstituted ==
    ASSUME \A j \in Jobs : task'[j] # "none" <=> task[j] # "none",
           \A type \in {"done", "started", "ssh_debug"}, j \in Jobs : Said(type, j)' <=> Said(type, j)
    PROVE  Held' = Held /\ Pending' = Pending
<1>1. \A j : j \in Held' <=> j \in Held
  BY PendingNotices, PendingNext DEF Substituted
<1>2. \A n : n \in Pending' <=> n \in Pending
  BY PendingNotices, PendingNext DEF Substituted
<1> QED
  BY <1>1, <1>2 DEF Held, Pending

\* A result is sent.
LEMMA Answers ==
    ASSUME Known, NEW j \in Jobs, task[j] # "none", ~Said("done", j), SendToBackend(Self, Message("done", j)),
           UNCHANGED <<phase, toAgent>>, \A i \in Jobs : task'[i] # "none" <=> task[i] # "none"
    PROVE  C!AgentAnswer(Self, j)
<1>1. Self \in Agents /\ phase = "up"
  BY Names DEF Known, DockerInv, Answered
<1>2. \A type, i : Said(type, i)' <=> Said(type, i) \/ (type = "done" /\ i = j)
  BY AgentSends, Messages DEF Known
<1>3. j \in Held /\ Held' = Held \ {j}
  BY <1>2, PendingNotices, PendingNext DEF Substituted
<1>4. Pending' = Pending
  <2>1. \A n : n \in Pending' <=> n \in Pending
    BY <1>2, PendingNotices, PendingNext DEF Substituted
  <2> QED
    BY <2>1 DEF Pending
<1> QED
  BY <1>1, <1>3, <1>4 DEF Held, Pending, C!AgentAnswer, C!SendToBackend, SendToBackend, C!Message, Message

\* A message about a job is sent.
LEMMA Notifies ==
    ASSUME Known, NEW j \in Jobs, task[j] # "none", NEW type \in {"started", "ssh_debug"}, ~Said(type, j),
           type = "ssh_debug" => j \in DebugJobs /\ ~Said("done", j),
           SendToBackend(Self, Message(type, j)),
           UNCHANGED <<phase, toAgent>>, \A i \in Jobs : task'[i] # "none" <=> task[i] # "none"
    PROVE  C!ContractNext
<1> DEFINE n == Message(type, j)
<1>1. Self \in Agents /\ phase = "up"
  BY Names DEF Known, DockerInv, Answered
<1>2. \A other, i : Said(other, i)' <=> Said(other, i) \/ (other = type /\ i = j)
  BY AgentSends, Messages DEF Known
<1>3. Held' = Held
  <2>1. \A i : i \in Held' <=> i \in Held
    BY <1>2, PendingNotices, PendingNext DEF Substituted
  <2> QED
    BY <2>1 DEF Held
<1>4. n \in Pending /\ (type = "ssh_debug" => j \in Held)
  BY PendingNotices DEF Substituted
<1>5. Pending' = Pending \ {n}
  <2>1. \A m : m \in Pending' <=> m \in Pending /\ m # n
    BY <1>2, PendingNotices, PendingNext, Messages DEF Substituted
  <2> QED
    BY <2>1 DEF Pending
<1>6. n.type = type /\ n.job = j /\ SendToBackend(Self, n)
  BY DEF Message
<1> HIDE DEF n
<1>7. C!AgentNotify(Self, n)
  BY <1>1, <1>3, <1>4, <1>5, <1>6 DEF Held, Pending, C!AgentNotify, C!SendToBackend, SendToBackend
<1>8. n \in [a \in Agents |-> IF a = Self THEN Pending ELSE {}][Self]
  BY <1>1, <1>4
<1> QED
  BY <1>1, <1>7, <1>8 DEF Pending, C!ContractNext, C!AgentStep

\* A result is a step of the contract.
LEMMA AnswersNext ==
    ASSUME Known, NEW j \in Jobs, task[j] # "none", ~Said("done", j), SendToBackend(Self, Message("done", j)),
           UNCHANGED <<phase, toAgent>>, \A i \in Jobs : task'[i] # "none" <=> task[i] # "none"
    PROVE  C!ContractNext
<1>1. C!AgentAnswer(Self, j)
  BY Answers
<1>2. j \in [a \in Agents |-> IF a = Self THEN Held ELSE {}][Self] /\ Self \in Agents
  BY Names, PendingNotices DEF Substituted
<1> QED
  BY <1>1, <1>2 DEF Held, C!ContractNext, C!AgentStep

\* The agent starts.
LEMMA StartNext ==
    ASSUME Known, Start
    PROVE  C!ContractNext
<1>1. /\ phase = "off" /\ phase' = "up" /\ SendToBackend(Self, Message("hello", NoJob)) /\ toAgent' = toAgent /\ task' = task
      /\ Self \in Agents
  BY Names DEF Start, jobs
<1>2. \A type \in {"done", "started", "ssh_debug"}, i \in Jobs : Said(type, i)' <=> Said(type, i)
  BY <1>1, AgentSends, Messages DEF Known
<1>3. Held' = Held /\ Pending' = Pending
  BY <1>1, <1>2, SameSubstituted
<1>5. C!AgentStart(Self)
  BY <1>1, <1>3 DEF Held, Pending, C!AgentStart, C!SendToBackend, SendToBackend, C!Message, Message
<1> QED
  BY <1>1, <1>5 DEF C!ContractNext, C!AgentStep

\* The backend sends a message.
LEMMA SendNext ==
    ASSUME Known, NEW j \in Jobs, SendNewJob(j) \/ SendKillJob(j)
    PROVE  C!ContractNext
<1>1. /\ UNCHANGED <<fromAgent, phase, task>> /\ Self \in Agents
      /\ \E m \in BackendToAgent : SendToAgent(Self, m)
  BY Names DEF SendNewJob, SendKillJob, Message, BackendToAgent, jobs
<1>2. \A type, i : Said(type, i)' <=> Said(type, i)
  BY <1>1 DEF Said
<1>3. Held' = Held /\ Pending' = Pending
  BY <1>1, <1>2, SameSubstituted
<1>5. C!BackendSends(Self)
  BY <1>1, <1>3 DEF Held, Pending, C!BackendSends, C!SendToAgent, SendToAgent, C!BackendToAgent, BackendToAgent, C!agentVars
<1> QED
  BY <1>1, <1>5 DEF C!ContractNext

\* A job is received.
LEMMA ReceiveNext ==
    ASSUME Known, NEW j \in Jobs, ReceiveNewJob(j)
    PROVE  C!ContractNext
<1>1. /\ UNCHANGED <<fromAgent, phase>> /\ Self \in Agents /\ Self \in Dockers /\ phase = "up"
      /\ toAgent[Self] # <<>> /\ Head(toAgent[Self]) = Message("new_job", j)
      /\ toAgent' = [toAgent EXCEPT ![Self] = Tail(@)]
      /\ task[j] = "none" /\ task' = [task EXCEPT ![j] = "received"]
  BY Names, ReceiveSent, DockerAgentAssumption DEF Known, ReceiveNewJob, Receive, environment
<1>2. task'[j] = "received" /\ \A i \in Jobs \ {j} : task'[i] = task[i]
  BY <1>1 DEF Known, DockerInv, TypeOK
<1>3. \A type, i : Said(type, i)' <=> Said(type, i)
  BY <1>1 DEF Said
<1>4. ~Said("done", j) /\ ~Said("started", j) /\ ~Said("ssh_debug", j)
  <2>1. PortOf(j) /\ Answered(j)
    BY DEF Known, PortInv, DockerInv
  <2> QED
    BY <1>1, <2>1 DEF PortOf, Answered, Notified, HasEnded
<1>5. Held' = Held \cup {j}
  <2>1. \A i : i \in Held' <=> i \in Held \/ i = j
    BY <1>1, <1>2, <1>3, <1>4, PendingNotices, PendingNext DEF Substituted
  <2> QED
    BY <2>1 DEF Held
<1>6. Pending' = Pending \cup C!NoticesFor(Self, j)
  <2>1. \A m : m \in C!NoticesFor(Self, j) <=> m = Message("started", j) \/ (j \in DebugJobs /\ m = Message("ssh_debug", j))
    BY <1>1 DEF C!NoticesFor, C!Notices, Message
  <2>2. \A m : m \in Pending' <=> m \in Pending \/ m \in C!NoticesFor(Self, j)
    BY <1>1, <1>2, <1>3, <1>4, <2>1, PendingNotices, PendingNext DEF Substituted
  <2> HIDE DEF C!NoticesFor
  <2> QED
    BY <2>2 DEF Pending
<1>7. Head(toAgent[Self]).type = "new_job" /\ Head(toAgent[Self]).job = j
  BY <1>1 DEF Message
<1>8. C!AgentReceiveJob(Self)
  BY <1>1, <1>5, <1>6, <1>7 DEF Held, Pending, C!AgentReceiveJob
<1> QED
  BY <1>1, <1>8 DEF C!ContractNext, C!AgentStep, C!AgentReceive

\* A kill is received.
LEMMA KillNext ==
    ASSUME Known, NEW j \in Jobs, HandleKillJob(j)
    PROVE  C!ContractNext
<1>1. /\ UNCHANGED <<fromAgent, phase, task>> /\ Self \in Agents /\ phase = "up"
      /\ toAgent[Self] # <<>> /\ Head(toAgent[Self]) = Message("kill_job", j)
      /\ toAgent' = [toAgent EXCEPT ![Self] = Tail(@)]
  BY Names DEF HandleKillJob, Receive, environment, jobs
<1>2. \A type, i : Said(type, i)' <=> Said(type, i)
  BY <1>1 DEF Said
<1>3. Held' = Held /\ Pending' = Pending
  BY <1>1, <1>2, SameSubstituted
<1>5. Head(toAgent[Self]).type = "kill_job"
  BY <1>1 DEF Message
<1>6. C!AgentReceiveKill(Self)
  BY <1>1, <1>3, <1>5 DEF Held, Pending, C!AgentReceiveKill
<1> QED
  BY <1>1, <1>6 DEF C!ContractNext, C!AgentStep, C!AgentReceive

\* The other steps of the handlers of a job
LEMMA JobUnseen ==
    ASSUME Known, NEW j \in Jobs,
           \/ AcceptJob(j) \/ Created(j) \/ CleanUp(j) \/ PrepareFails(j)
           \/ Attach(j) \/ AttachFails(j) \/ ReadResult(j) \/ ReadGarbage(j) \/ ReadEOF(j)
           \/ JobClosingP1(j) \/ JobClosingP2(j) \/ TakeResult(j) \/ DeleteFails(j)
    PROVE  UNCHANGED <<C!agentVars, C!channels>>
<1>1. UNCHANGED <<phase, channels>>
  BY DEF AcceptJob, Created, CleanUp, PrepareFails, Attach, AttachFails, ReadResult, ReadGarbage, ReadEOF, EndTalk,
     TalkUnchanged, JobClosingP1, JobClosingP2, TakeResult, DeleteFails, channels, environment
<1>2. \A i \in Jobs : task'[i] # "none" <=> task[i] # "none"
  <2>1. CASE task' = task
    BY <2>1
  <2>2. CASE task[j] # "none" /\ \E r \in {"preparing", "starting", "over", "failed"} : task' = [task EXCEPT ![j] = r]
    BY <2>2 DEF Known, DockerInv, TypeOK
  <2> QED
    BY <2>1, <2>2 DEF AcceptJob, Created, CleanUp, PrepareFails, Attach, AttachFails, ReadResult, ReadGarbage, ReadEOF, EndTalk,
       TalkUnchanged, JobClosingP1, JobClosingP2, TakeResult, DeleteFails, jobs
<1> QED
  BY <1>1, <1>2, Unseen

\* The steps about student containers, of docker, of the threads and of the pipeline
LEMMA ContainerUnseen ==
    ASSUME \/ UNCHANGED vars
           \/ \E s \in Students : ReadRunStudent(s) \/ StudentStep(s) \/ CloseContainer(s)
           \/ \E c \in Containers : ContainerStep(c) \/ EndContainer(c) \/ ExhaustMemory(c)
    PROVE  UNCHANGED <<C!agentVars, C!channels>>
<1>1. UNCHANGED <<phase, channels, task>>
  <2>1. CASE UNCHANGED vars
    BY <2>1 DEF vars, environment, jobs
  <2>2. ASSUME NEW s \in Students, ReadRunStudent(s) \/ StudentStep(s) \/ CloseContainer(s)
        PROVE  UNCHANGED <<phase, channels, task>>
    BY <2>2 DEF ReadRunStudent, TalkUnchanged, StudentStep, RefuseStudent, CreateStudent, StudentStartFails, StudentStarted,
       StudentClosingP1, StudentClosingP2, CloseContainer, agentState, channels, environment, jobs
  <2>3. ASSUME NEW c \in Containers, ContainerStep(c) \/ EndContainer(c) \/ ExhaustMemory(c)
        PROVE  UNCHANGED <<phase, channels, task>>
    BY <2>3 DEF ContainerStep, DockerStarts, KillContainer, Watch, TimeOut, HandleOOM, EndContainer, ExhaustMemory,
       agentState, channels, environment, jobs
  <2> QED
    BY <2>1, <2>2, <2>3
<1> QED
  BY <1>1, Unseen

\* Steps that answer or notify
LEMMA SpeaksNext ==
    ASSUME Known, NEW j \in Jobs,
           RefuseJob(j) \/ CreateFails(j) \/ StartFails(j) \/ SendResult(j) \/ Started(j) \/ ReadSshKey(j)
    PROVE  C!ContractNext
<1>1. /\ PortOf(j) /\ Answered(j) /\ j \in Containers
      /\ task \in [Jobs -> {"none", "received", "preparing", "starting", "refused", "over", "failed"}]
  BY Names DEF Known, PortInv, DockerInv, TypeOK
<1>2. ASSUME task[j] # "none", NEW r \in {"starting", "refused", "over"}, task' = [task EXCEPT ![j] = r]
      PROVE  \A i \in Jobs : task'[i] # "none" <=> task[i] # "none"
  BY <1>1, <1>2
<1>3. CASE RefuseJob(j) \/ CreateFails(j) \/ StartFails(j)
  <2>1. /\ task[j] \in {"received", "preparing", "starting"} /\ (task[j] = "starting" => docker[j] = "created")
        /\ SendToBackend(Self, Message("done", j)) /\ UNCHANGED <<phase, toAgent>>
        /\ \E r \in {"refused", "over"} : task' = [task EXCEPT ![j] = r]
    BY <1>3 DEF RefuseJob, CreateFails, StartFails, StartMayFail, Starting, SendJobResult, environment
  <2>2. ~Said("done", j)
    BY <1>1, <2>1 DEF PortOf, Answered, HasEnded
  <2>3. \A i \in Jobs : task'[i] # "none" <=> task[i] # "none"
    BY <1>2, <2>1
  <2> QED
    BY <2>1, <2>2, <2>3, AnswersNext
<1>4. CASE SendResult(j)
  <2>1. closing[j] = "deleting" /\ SendToBackend(Self, Message("done", j)) /\ UNCHANGED <<phase, toAgent, task>>
    BY <1>4 DEF SendResult, SendJobResult, environment
  <2>2. HasEnded(j) /\ task[j] # "none" /\ ~Said("done", j)
    BY <1>1, <2>1, NotAnswered DEF PortOf, Answered, HasEnded
  <2> QED
    BY <2>1, <2>2, AnswersNext
<1>5. CASE Started(j)
  <2>1. /\ task[j] = "starting" /\ task' = [task EXCEPT ![j] = "over"] /\ SendToBackend(Self, Message("started", j))
        /\ UNCHANGED <<phase, toAgent>>
    BY <1>5 DEF Started, Starting, environment
  <2>2. ~Said("started", j)
    BY <1>1, <2>1 DEF PortOf, Answered, Notified
  <2>3. \A i \in Jobs : task'[i] # "none" <=> task[i] # "none"
    BY <1>2, <2>1
  <2> QED
    BY <2>1, <2>2, <2>3, Notifies
<1>6. CASE ReadSshKey(j)
  <2>1. /\ talk[j] = "talking" /\ debugPort[j] # NoPort /\ SendToBackend(Self, Message("ssh_debug", j))
        /\ UNCHANGED <<phase, toAgent, task>> /\ ~Said("ssh_debug", j)
    BY <1>6 DEF ReadSshKey, TalkUnchanged, environment, jobs, Said, Has
  <2>2. task[j] # "none" /\ j \in DebugJobs /\ j \in running
    BY <1>1, <2>1 DEF PortOf, Answered
  <2>3. ~Said("done", j)
    BY <1>1, <2>1, <2>2 DEF Answered
  <2> QED
    BY <2>1, <2>2, <2>3, Notifies
<1> QED
  BY <1>3, <1>4, <1>5, <1>6

\* The docker agent implements the contract that Dispatch and JobSystem are built
\* on: it says hello once, sends one result for each job that it has received, and
\* each notice at most once, no ssh key after the result.
THEOREM ContractImplemented == Spec => ImplementsContract
<1>1. Init => C!ContractInit
  <2> SUFFICES ASSUME Init PROVE C!ContractInit
    OBVIOUS
  <2>1. Received = {} /\ phase = "off"
    BY DEF Init, Received
  <2>2. /\ {j \in Received : ~Sent("done", j)} = {}
        /\ {n \in UNION {AllNotices(j) : j \in Received} : ~Sent(n.type, n.job)} = {}
    BY <2>1
  <2> QED
    BY <2>1, <2>2 DEF Init, ChannelsInit, C!ContractInit, C!AgentsInit, C!ChannelsInit
<1>2. PortInv /\ DockerInv /\ [Next]_vars => [C!ContractNext]_<<C!agentVars, C!channels>>
  <2> SUFFICES ASSUME Known, [Next]_vars PROVE C!ContractNext \/ UNCHANGED <<C!agentVars, C!channels>>
    BY DEF Known
  <2>1. CASE Start
    BY <2>1, StartNext
  <2>2. ASSUME NEW j \in Jobs,
               \/ SendNewJob(j) \/ SendKillJob(j)
               \/ ReadBackend(j) \/ NewJobStep(j) \/ PrepareFails(j)
               \/ Attach(j) \/ AttachFails(j)
               \/ ReadResult(j) \/ ReadGarbage(j) \/ ReadEOF(j) \/ ReadSshKey(j)
               \/ ClosingStep(j)
        PROVE  C!ContractNext \/ UNCHANGED <<C!agentVars, C!channels>>
    <3>1. CASE SendNewJob(j) \/ SendKillJob(j)
      BY <3>1, SendNext
    <3>2. CASE ReadBackend(j)
      BY <3>2, ReceiveNext, KillNext DEF ReadBackend
    <3>3. CASE RefuseJob(j) \/ CreateFails(j) \/ StartFails(j) \/ SendResult(j) \/ Started(j) \/ ReadSshKey(j)
      BY <3>3, SpeaksNext
    <3> QED
      BY <2>2, <3>1, <3>2, <3>3, JobUnseen DEF NewJobStep, ClosingStep
  <2>3. CASE \/ UNCHANGED vars
             \/ \E s \in Students : ReadRunStudent(s) \/ StudentStep(s) \/ CloseContainer(s)
             \/ \E c \in Containers : ContainerStep(c) \/ EndContainer(c) \/ ExhaustMemory(c)
    BY <2>3, ContainerUnseen
  <2> QED
    BY <2>1, <2>2, <2>3 DEF Next
<1> QED
  BY <1>1, <1>2, PortInvariant, DockerInvariant, PTL DEF Spec, ImplementsContract, C!Contract
=============================================================================
