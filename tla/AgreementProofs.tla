-------------------------- MODULE AgreementProofs ---------------------------
(***************************************************************************)
(* Proofs about Dispatch: what the backend believes of an agent, and what  *)
(* the agent does.  From their agreement follow the account of the slots,  *)
(* that no agent is given more than it announced, and that the backend     *)
(* implements JobService, for any number of agents, clients and jobs.      *)
(***************************************************************************)
EXTENDS DispatchProofs

-----------------------------------------------------------------------------
(* The inductive invariant.                                                 *)

\* The messages an agent exchanges with the backend about itself and about a job
Greeting == Message("hello", NoJob)
Order(j) == Message("new_job", j)
Result(j) == Message("done", j)

\* The backend has not heard of the agent: it is not started, or its only hello
\* is on its way.
Unheard(a) == phase[a] = "off" \/ Has(fromAgent[a], Greeting)

\* An agent says hello once, and nothing goes on with an agent before that.
Introduced(a) ==
    /\ phase[a] = "off" => fromAgent[a] = <<>>
    /\ Once(fromAgent[a], Greeting)
    /\ Unheard(a) =>
         /\ a \notin registeredAgents /\ toAgent[a] = <<>> /\ held[a] = {}
         /\ \A j \in Jobs : ~Has(fromAgent[a], Result(j))

\* The job is in the hands of the agent: it is on its way, held, or answered.
InHand(a, j) == Has(toAgent[a], Order(j)) \/ j \in held[a] \/ Has(fromAgent[a], Result(j))

\* An agent has a job once, and only a job that runs on it for the backend; all
\* of these, if it lives.
Agreed(a, j) ==
    /\ Once(toAgent[a], Order(j))
    /\ Once(fromAgent[a], Result(j))
    /\ ~(Has(toAgent[a], Order(j)) /\ j \in held[a])
    /\ ~(Has(toAgent[a], Order(j)) /\ Has(fromAgent[a], Result(j)))
    /\ ~(j \in held[a] /\ Has(fromAgent[a], Result(j)))
    /\ InHand(a, j) => jobRunning[j] = a
    /\ phase[a] = "up" /\ jobRunning[j] = a => InHand(a, j)

\* The backend knows an agent by its hello, and agrees with it on each job.
AgreementInv ==
    /\ \A a \in Agents : Introduced(a)
    /\ \A a \in registeredAgents : containersOnAgent[a] = Offers[a]
    /\ \A a \in registeredAgents : \A j \in Jobs : Agreed(a, j)

\* What the steps below may count on.
Base == TypeOK /\ PlacesInv /\ AgreementInv

-----------------------------------------------------------------------------
(* Frames.                                                                  *)

\* A step that does not concern the agent b.
SameAgent(b) ==
    /\ toAgent'[b] = toAgent[b] /\ fromAgent'[b] = fromAgent[b]
    /\ held'[b] = held[b] /\ phase'[b] = phase[b]

\* Nothing changes between the backend and an agent that a step is not about.
LEMMA SameIntroduced ==
    ASSUME NEW b \in Agents, Introduced(b), SameAgent(b),
           b \in registeredAgents' => b \in registeredAgents
    PROVE  Introduced(b)'
BY DEF Introduced, SameAgent, Unheard

\* A step that concerns neither the agent nor the job keeps their agreement.
LEMMA SameAgreed ==
    ASSUME NEW b \in Agents, NEW j \in Jobs, Agreed(b, j), SameAgent(b),
           jobRunning'[j] = b <=> jobRunning[j] = b
    PROVE  Agreed(b, j)'
BY DEF Agreed, SameAgent, InHand

\* A step that moves no message and no job.
LEMMA UnmovedAgreement ==
    ASSUME AgreementInv,
           UNCHANGED <<toAgent, fromAgent, held, phase, registeredAgents, containersOnAgent, jobRunning>>
    PROVE  AgreementInv'
BY DEF AgreementInv, Introduced, Agreed, Unheard, InHand

\* A step about the agent a, which stays registered or not.
LEMMA OneAgentMoves ==
    ASSUME TypeOK, AgreementInv, NEW a \in Agents,
           UNCHANGED <<registeredAgents, containersOnAgent>>,
           \A b \in Agents \ {a} : SameAgent(b) /\ \A k \in Jobs : jobRunning'[k] = b <=> jobRunning[k] = b,
           Introduced(a)',
           a \in registeredAgents => \A k \in Jobs : Agreed(a, k)'
    PROVE  AgreementInv'
<1>1. ASSUME NEW b \in Agents PROVE Introduced(b)'
  BY SameIntroduced DEF AgreementInv
<1>2. ASSUME NEW b \in registeredAgents, NEW k \in Jobs PROVE Agreed(b, k)'
  <2>1. b \in Agents
    BY DEF TypeOK
  <2> QED
    BY <2>1, SameAgreed DEF AgreementInv
<1> QED
  BY <1>1, <1>2 DEF AgreementInv

\* A registered agent has introduced itself.
LEMMA RegisteredHeard ==
    ASSUME AgreementInv, NEW a \in Agents, a \in registeredAgents
    PROVE  ~Unheard(a)
BY DEF AgreementInv, Introduced

\* The messages are told apart.
LEMMA Messages ==
    /\ \A j : Order(j) # Greeting /\ Result(j) # Greeting
    /\ \A j, k : Message("kill_job", j) # Order(k)
    /\ \A j, k : Order(j) = Order(k) => j = k
    /\ \A j, k : Result(j) = Result(k) => j = k
    /\ \A j \in Jobs : Order(j) \in BackendToAgent /\ Message("kill_job", j) \in BackendToAgent
    /\ Greeting \in AgentToBackend /\ \A j \in Jobs : Result(j) \in AgentToBackend
BY DEF Order, Result, Greeting, Message, BackendToAgent, AgentToBackend

\* The channels of an agent.
LEMMA Channels ==
    ASSUME TypeOK
    PROVE  /\ DOMAIN toAgent = Agents /\ DOMAIN fromAgent = Agents
           /\ DOMAIN held = Agents /\ DOMAIN phase = Agents
           /\ \A a \in Agents : toAgent[a] \in Seq(BackendToAgent)
           /\ \A a \in Agents : fromAgent[a] \in Seq(AgentToBackend)
           /\ \A a \in Agents : held[a] \subseteq Jobs /\ a # NoAgent
BY AgentsAssumption DEF TypeOK, ChannelsTypeOK, AgentsTypeOK

-----------------------------------------------------------------------------
(* The steps.                                                               *)

\* No agent was heard of at first.
LEMMA InitAgreement == Init => AgreementInv
<1> SUFFICES ASSUME Init PROVE AgreementInv
  OBVIOUS
<1>1. /\ toAgent = [a \in Agents |-> <<>>] /\ fromAgent = [a \in Agents |-> <<>>]
      /\ held = [a \in Agents |-> {}] /\ registeredAgents = {}
  BY DEF Init, ChannelsInit, AgentsInit, BackendInit
<1> QED
  BY <1>1, ChannelEmpty DEF AgreementInv, Introduced

\* An order to kill is no order to run.
LEMMA KillAgreement ==
    ASSUME Base, NEW j \in Jobs, Kill(j)
    PROVE  AgreementInv'
<1> USE DEF queueVars, registryVars, agentVars
<1>1. CASE KillRunningJob(Owner[j], j)
  <2>1. PICK a \in Agents : a = jobRunning[j] /\ a \in registeredAgents
    BY <1>1 DEF KillRunningJob, Base, TypeOK, PlacesInv, RunningOnRegistered, IsRunning
  <2>2. /\ toAgent' = [toAgent EXCEPT ![a] = Append(@, Message("kill_job", j))]
        /\ UNCHANGED <<fromAgent, held, phase, registeredAgents, containersOnAgent, jobRunning>>
    BY <1>1, <2>1, Kill(j) DEF KillRunningJob, SendToAgent, Kill
  <2>3. toAgent'[a] = Append(toAgent[a], Message("kill_job", j)) /\ toAgent[a] \in Seq(BackendToAgent)
    BY <2>1, <2>2, Channels DEF Base
  <2>4. \A k : /\ Has(toAgent[a], Order(k))' <=> Has(toAgent[a], Order(k))
               /\ Once(toAgent[a], Order(k)) => Once(toAgent'[a], Order(k))
    BY <2>1, <2>2, <2>3, Messages, ChannelSent
  <2>5. \A b \in Agents \ {a} : SameAgent(b)
    BY <2>2, Channels DEF Base, SameAgent
  <2>6. Introduced(a)'
    BY <2>1, <2>2, RegisteredHeard DEF Base, AgreementInv, Introduced, Unheard
  <2>7. \A k \in Jobs : Agreed(a, k)'
    BY <2>1, <2>2, <2>4 DEF Base, AgreementInv, Agreed, InHand
  <2> QED
    BY <2>1, <2>2, <2>5, <2>6, <2>7, OneAgentMoves DEF Base
<1>2. CASE KillWaitingJob(Owner[j], j) \/ KillUnknownJob(Owner[j], j)
  BY <1>2, UnmovedAgreement, Kill(j) DEF Kill, KillWaitingJob, KillUnknownJob, Base
<1> QED
  BY <1>1, <1>2, Kill(j) DEF Kill, HandleClientKillJob

\* The backend gives a job to an agent.
LEMMA AssignAgreement ==
    ASSUME Base, NEW a \in Agents, AssignJob(a), UNCHANGED <<fromAgent, held, phase>>
    PROVE  AgreementInv'
<1>1. PICK i \in DOMAIN waitingJobs :
        /\ jobRunning' = [jobRunning EXCEPT ![waitingJobs[i]] = a]
        /\ toAgent' = [toAgent EXCEPT ![a] = Append(@, Order(waitingJobs[i]))]
  BY AssignJob(a) DEF AssignJob, SendToAgent, Order
<1>2. PICK j \in Jobs : j = waitingJobs[i] /\ IsWaiting(j)
  BY DEF Base, TypeOK, IsWaiting, Range
<1>3. a \in registeredAgents /\ UNCHANGED <<registeredAgents, containersOnAgent>>
  BY AssignJob(a) DEF AssignJob, registryVars, Base, PlacesInv, SlotsOfRegistered
<1>4. jobRunning[j] = NoAgent /\ jobRunning \in [Jobs -> Agents \cup {NoAgent}]
  BY <1>2 DEF Base, TypeOK, PlacesInv, InOnePlace, IsRunning
<1>5. /\ toAgent'[a] = Append(toAgent[a], Order(j)) /\ toAgent[a] \in Seq(BackendToAgent)
      /\ jobRunning'[j] = a /\ \A k \in Jobs \ {j} : jobRunning'[k] = jobRunning[k]
  BY <1>1, <1>2, <1>4, Channels DEF Base
<1>6. \A b \in Agents \ {a} : SameAgent(b) /\ \A k \in Jobs : jobRunning'[k] = b <=> jobRunning[k] = b
  BY <1>1, <1>4, <1>5, Channels DEF Base, SameAgent
<1>7. Introduced(a)'
  BY <1>3, RegisteredHeard DEF Base, AgreementInv, Introduced, Unheard
<1>8. ~InHand(a, j)
  BY <1>3, <1>4, Channels DEF Base, AgreementInv, Agreed
<1>9. \A k \in Jobs : /\ Has(toAgent'[a], Order(k)) <=> Has(toAgent[a], Order(k)) \/ k = j
                      /\ Once(toAgent[a], Order(k)) => Once(toAgent'[a], Order(k))
  BY <1>5, <1>8, Messages, ChannelSent DEF InHand
<1>10. \A k \in Jobs : Agreed(a, k)'
  BY <1>3, <1>5, <1>8, <1>9 DEF Base, AgreementInv, Agreed, InHand
<1> QED
  BY <1>3, <1>6, <1>7, <1>10, OneAgentMoves DEF Base

\* An agent is removed: nothing is believed of it any more.
LEMMA RemoveAgreement ==
    ASSUME Base, NEW a \in Agents, RemoveAgent(a), UNCHANGED <<fromAgent, held, phase>>
    PROVE  AgreementInv'
<1>1. /\ jobRunning' = [j \in Jobs |-> IF jobRunning[j] = a THEN NoAgent ELSE jobRunning[j]]
      /\ registeredAgents' = registeredAgents \ {a}
      /\ UNCHANGED <<toAgent, containersOnAgent>>
  BY RemoveAgent(a) DEF RemoveAgent
<1>2. \A b \in Agents : SameAgent(b)
  BY <1>1 DEF SameAgent
<1>3. \A b \in Agents \ {a} : \A k \in Jobs : jobRunning'[k] = b <=> jobRunning[k] = b
  BY <1>1, Channels DEF Base
<1>4. \A b \in Agents : Introduced(b)'
  BY <1>1, <1>2, SameIntroduced DEF Base, AgreementInv
<1>5. ASSUME NEW b \in registeredAgents', NEW k \in Jobs PROVE Agreed(b, k)'
  <2>1. b \in Agents \ {a} /\ b \in registeredAgents
    BY <1>1 DEF Base, TypeOK
  <2> QED
    BY <1>2, <1>3, <2>1, SameAgreed DEF Base, AgreementInv
<1> QED
  BY <1>1, <1>4, <1>5 DEF Base, AgreementInv

\* The first message of an agent is read: the others are still there.
LEMMA ReadAgent ==
    ASSUME Base, NEW a \in Agents, ReceiveFrom(a)
    PROVE  /\ fromAgent[a] # <<>> /\ Head(fromAgent[a]) \in AgentToBackend
           /\ \A m : Has(fromAgent[a], m) <=> Has(fromAgent'[a], m) \/ m = Head(fromAgent[a])
           /\ \A m : Once(fromAgent[a], m) => Once(fromAgent'[a], m)
           /\ \A m : Once(fromAgent[a], m) /\ m = Head(fromAgent[a]) => ~Has(fromAgent'[a], m)
           /\ \A b \in Agents \ {a} : fromAgent'[b] = fromAgent[b]
           /\ UNCHANGED <<held, phase>>
<1>1. fromAgent[a] # <<>> /\ fromAgent' = [fromAgent EXCEPT ![a] = Tail(@)] /\ UNCHANGED <<held, phase>>
  BY ReceiveFrom(a) DEF ReceiveFrom, agentVars
<1>2. fromAgent[a] \in Seq(AgentToBackend) /\ fromAgent'[a] = Tail(fromAgent[a])
  BY <1>1, Channels DEF Base
<1> QED
  BY <1>1, <1>2, Channels, ChannelRead DEF Base

\* What a hello changes.
LEMMA HelloAgreement ==
    ASSUME Base, NEW a \in Agents, ReceiveFrom(a), Head(fromAgent[a]).type = "hello", HandleAgentHello(a)
    PROVE  AgreementInv'
<1>1. /\ registeredAgents' = registeredAgents \cup {a}
      /\ containersOnAgent' = [containersOnAgent EXCEPT ![a] = Offers[a]]
      /\ UNCHANGED <<jobRunning, toAgent>>
  BY DEF HandleAgentHello
<1>2. Head(fromAgent[a]) = Greeting
  BY ReadAgent DEF AgentToBackend, Greeting, Message
<1>3. Has(fromAgent[a], Greeting) /\ ~Has(fromAgent'[a], Greeting) /\ Once(fromAgent'[a], Greeting)
  BY <1>2, ReadAgent DEF Base, AgreementInv, Introduced
<1>4. /\ phase'[a] # "off" /\ toAgent'[a] = <<>> /\ held'[a] = {} /\ a \notin registeredAgents
      /\ \A k \in Jobs : ~Has(fromAgent'[a], Result(k))
  BY <1>1, <1>3, ReadAgent DEF Base, AgreementInv, Introduced, Unheard
<1>5. \A k \in Jobs : jobRunning'[k] # a
  BY <1>1, <1>4, Channels DEF Base, PlacesInv, RunningOnRegistered, IsRunning
<1>6. Introduced(a)'
  BY <1>3, <1>4 DEF Introduced, Unheard
<1>7. \A k \in Jobs : Agreed(a, k)'
  BY <1>4, <1>5, ChannelEmpty DEF Agreed, InHand, Has, Once
<1>8. \A b \in Agents \ {a} : SameAgent(b)
  BY <1>1, ReadAgent DEF SameAgent
<1>9. \A b \in Agents \ {a} : Introduced(b)'
  BY <1>1, <1>8, SameIntroduced DEF Base, AgreementInv
<1>10. \A b \in registeredAgents' \ {a} : containersOnAgent'[b] = Offers[b] /\ \A k \in Jobs : Agreed(b, k)'
  BY <1>1, <1>8, SameAgreed DEF Base, TypeOK, AgreementInv
<1>11. containersOnAgent'[a] = Offers[a]
  BY <1>1 DEF Base, TypeOK
<1> QED
  BY <1>6, <1>7, <1>9, <1>10, <1>11 DEF AgreementInv

\* A result from a registered agent is the one of a job that runs on it.
LEMMA DoneAgreement ==
    ASSUME Base, NEW a \in Agents, ReceiveFrom(a), NEW j \in Jobs,
           Head(fromAgent[a]) = Result(j), JobDoneByRegistered(a, j)
    PROVE  AgreementInv' /\ jobRunning[j] = a
<1>1. /\ a \in registeredAgents /\ jobRunning' = [jobRunning EXCEPT ![j] = NoAgent]
      /\ UNCHANGED <<registeredAgents, containersOnAgent, toAgent>>
  BY DEF JobDoneByRegistered, registryVars
<1>2. \A k \in Jobs : Agreed(a, k)
  BY <1>1 DEF Base, AgreementInv
<1>3. jobRunning[j] = a /\ ~InHand(a, j)'
  BY <1>1, <1>2, ReadAgent DEF Agreed, InHand
<1>4. /\ jobRunning'[j] = NoAgent /\ a # NoAgent
      /\ \A k \in Jobs \ {j} : jobRunning'[k] = jobRunning[k]
  BY <1>1, Channels DEF Base, TypeOK
<1>5. ASSUME NEW k \in Jobs PROVE Agreed(a, k)'
  <2>1. CASE k = j
    BY <1>1, <1>2, <1>3, <1>4, <2>1, ReadAgent DEF Agreed, InHand
  <2>2. CASE k # j
    <3>1. Has(fromAgent'[a], Result(k)) <=> Has(fromAgent[a], Result(k))
      BY <2>2, ReadAgent, Messages
    <3> QED
      BY <1>1, <1>2, <1>4, <2>2, <3>1, ReadAgent DEF Agreed, InHand
  <2> QED
    BY <2>1, <2>2
<1>6. \A b \in Agents \ {a} : SameAgent(b) /\ \A k \in Jobs : jobRunning'[k] = b <=> jobRunning[k] = b
  BY <1>1, <1>3, <1>4, Channels, ReadAgent DEF Base, SameAgent
<1>7. Introduced(a)'
  BY <1>1, RegisteredHeard, ReadAgent, Messages DEF Base, AgreementInv, Introduced, Unheard
<1> QED
  BY <1>1, <1>3, <1>5, <1>6, <1>7, OneAgentMoves DEF Base

\* A message that changes nothing in the registry is read.
LEMMA ReadAgreement ==
    ASSUME Base, NEW a \in Agents, ReceiveFrom(a), Head(fromAgent[a]) # Greeting,
           UNCHANGED <<registeredAgents, containersOnAgent, toAgent, jobRunning>>,
           a \in registeredAgents => \A k \in Jobs : Head(fromAgent[a]) # Result(k)
    PROVE  AgreementInv'
<1>1. \A b \in Agents \ {a} : SameAgent(b)
  BY ReadAgent DEF SameAgent
<1>2. Introduced(a)'
  BY ReadAgent DEF Base, AgreementInv, Introduced, Unheard
<1>3. ASSUME a \in registeredAgents, NEW k \in Jobs PROVE Agreed(a, k)'
  BY <1>3, ReadAgent DEF Base, AgreementInv, Agreed, InHand
<1> QED
  BY <1>1, <1>2, <1>3, OneAgentMoves DEF Base

\* The backend reads a message of an agent.
LEMMA ReceiveAgreement ==
    ASSUME Base, NEW a \in Agents, ReceiveFrom(a)
    PROVE  AgreementInv'
<1> DEFINE m == Head(fromAgent[a])
<1>1. m \in AgentToBackend
  BY ReadAgent
<1> USE DEF queueVars, registryVars
<1>2. CASE m.type = "hello" /\ HandleAgentHello(a)
  BY <1>2, HelloAgreement
<1>3. CASE m.type \in {"started", "ssh_debug"} /\ (HandleAgentJobStarted(a, m.job) \/ HandleAgentJobSSHDebug(a, m.job))
  <2>1. m # Greeting /\ \A k \in Jobs : m # Result(k)
    BY <1>3 DEF Greeting, Result, Message
  <2> QED
    BY <1>3, <2>1, ReadAgreement DEF HandleAgentJobStarted, HandleAgentJobSSHDebug
<1>4. CASE m.type = "done" /\ JobDoneByRegistered(a, m.job)
  <2>1. m.job \in Jobs /\ m = Result(m.job)
    BY <1>1, <1>4 DEF AgentToBackend, Result, Message
  <2> QED
    BY <1>4, <2>1, DoneAgreement
<1>5. CASE m.type = "done" /\ JobDoneByUnregistered(a, m.job)
  <2>1. m # Greeting /\ a \notin registeredAgents
    BY <1>5 DEF Greeting, Message, JobDoneByUnregistered
  <2> QED
    BY <1>5, <2>1, ReadAgreement DEF JobDoneByUnregistered
<1> QED
  BY ReceiveFrom(a), <1>2, <1>3, <1>4, <1>5 DEF ReceiveFrom, HandleAgentJobDone

-----------------------------------------------------------------------------
(* The agents.                                                              *)

\* A step of an agent
LEMMA AgentsAgreement ==
    ASSUME Base, NEW a \in Agents, AgentsStep(a)
    PROVE  AgreementInv'
<1> USE DEF Base, queueVars, registryVars
<1>1. UNCHANGED <<registeredAgents, containersOnAgent, jobRunning>>
  BY AgentsStep(a) DEF AgentsStep
<1>2. /\ Introduced(a) /\ toAgent[a] \in Seq(BackendToAgent) /\ fromAgent[a] \in Seq(AgentToBackend)
      /\ a \in registeredAgents => \A k \in Jobs : Agreed(a, k)
  BY Channels DEF AgreementInv
<1>3. SUFFICES /\ \A b \in Agents \ {a} : SameAgent(b)
               /\ Introduced(a)'
               /\ a \in registeredAgents => \A k \in Jobs : Agreed(a, k)'
  BY <1>1, OneAgentMoves
<1>4. CASE AgentStart(a)
  <2>1. /\ fromAgent' = [fromAgent EXCEPT ![a] = Append(@, Greeting)] /\ phase' = [phase EXCEPT ![a] = "up"]
        /\ phase[a] = "off" /\ UNCHANGED <<held, toAgent>>
    BY <1>4 DEF AgentStart, SendToBackend, Greeting
  <2>2. a \notin registeredAgents /\ toAgent[a] = <<>> /\ held[a] = {} /\ fromAgent[a] = <<>>
    BY <1>2, <2>1 DEF Introduced, Unheard
  <2>3. fromAgent'[a] = Append(<<>>, Greeting)
    BY <2>1, <2>2, Channels
  <2>4. /\ Once(fromAgent'[a], Greeting)
        /\ \A k \in Jobs : ~Has(fromAgent'[a], Result(k))
    <3>1. \A m : ~Has(fromAgent[a], m) /\ Once(fromAgent[a], m)
      BY <2>2, ChannelEmpty
    <3>2. fromAgent'[a] = Append(fromAgent[a], Greeting) /\ Greeting \in AgentToBackend
      BY <2>2, <2>3, Messages
    <3> QED
      BY <1>2, <3>1, <3>2, ChannelSent, Messages
  <2> QED
    BY <1>1, <2>1, <2>2, <2>4, Channels DEF SameAgent, Introduced, Unheard
<1>5. CASE AgentReceiveJob(a)
  <2> DEFINE m == Head(toAgent[a])
  <2>1. /\ phase[a] = "up" /\ toAgent[a] # <<>> /\ m.type = "new_job"
        /\ toAgent' = [toAgent EXCEPT ![a] = Tail(@)] /\ held' = [held EXCEPT ![a] = @ \cup {m.job}]
        /\ UNCHANGED <<phase, fromAgent>>
    BY <1>5 DEF AgentReceiveJob
  <2>2. PICK j \in Jobs : m = Order(j) /\ m.job = j
    <3>1. m \in BackendToAgent
      BY <1>2, <2>1
    <3> QED
      BY <2>1, <3>1 DEF BackendToAgent, Order, Message
  <2> HIDE DEF m
  <2>3. toAgent'[a] = Tail(toAgent[a]) /\ held'[a] = held[a] \cup {j}
    BY <2>1, <2>2, Channels
  <2>4. ~Unheard(a) /\ Introduced(a)'
    BY <1>1, <1>2, <2>1 DEF Introduced, Unheard
  <2>5. /\ Has(toAgent[a], Order(j))
        /\ \A k : Has(toAgent[a], Order(k)) <=> Has(toAgent'[a], Order(k)) \/ k = j
        /\ \A k : Once(toAgent[a], Order(k)) => Once(toAgent'[a], Order(k))
        /\ Once(toAgent[a], Order(j)) => ~Has(toAgent'[a], Order(j))
    BY <1>2, <2>1, <2>2, <2>3, Messages, ChannelRead DEF m
  <2>6. ASSUME a \in registeredAgents, NEW k \in Jobs PROVE Agreed(a, k)'
    BY <1>1, <1>2, <2>1, <2>3, <2>5, <2>6 DEF Agreed, InHand
  <2> QED
    BY <2>1, <2>4, <2>6, Channels DEF SameAgent
<1>6. CASE AgentReceiveKill(a)
  <2>1. /\ phase[a] = "up" /\ toAgent[a] # <<>> /\ Head(toAgent[a]).type = "kill_job"
        /\ toAgent' = [toAgent EXCEPT ![a] = Tail(@)] /\ UNCHANGED <<phase, held, fromAgent>>
    BY <1>6 DEF AgentReceiveKill
  <2>2. toAgent'[a] = Tail(toAgent[a]) /\ \A k : Head(toAgent[a]) # Order(k)
    BY <2>1, Channels DEF Order, Message
  <2>3. /\ \A k : Has(toAgent[a], Order(k)) <=> Has(toAgent'[a], Order(k))
        /\ \A k : Once(toAgent[a], Order(k)) => Once(toAgent'[a], Order(k))
    BY <1>2, <2>1, <2>2, ChannelRead
  <2>4. ASSUME a \in registeredAgents, NEW k \in Jobs PROVE Agreed(a, k)'
    BY <1>1, <1>2, <2>1, <2>3, <2>4 DEF Agreed, InHand
  <2>5. Introduced(a)'
    BY <1>1, <1>2, <2>1 DEF Introduced, Unheard
  <2> QED
    BY <2>1, <2>4, <2>5, Channels DEF SameAgent
<1>7. ASSUME NEW n \in notices[a], AgentNotify(a, n)
      PROVE  /\ \A b \in Agents \ {a} : SameAgent(b)
             /\ Introduced(a)'
             /\ a \in registeredAgents => \A k \in Jobs : Agreed(a, k)'
  <2>1. /\ phase[a] = "up" /\ fromAgent' = [fromAgent EXCEPT ![a] = Append(@, n)]
        /\ UNCHANGED <<phase, held, toAgent>>
    BY <1>7 DEF AgentNotify, SendToBackend
  <2>2. n \in AgentToBackend /\ n # Greeting /\ \A k : n # Result(k)
    BY DEF TypeOK, AgentsTypeOK, Notices, AgentToBackend, Greeting, Result, Message
  <2>3. fromAgent'[a] = Append(fromAgent[a], n)
    BY <2>1, Channels
  <2>4. /\ Has(fromAgent'[a], Greeting) <=> Has(fromAgent[a], Greeting)
        /\ Once(fromAgent[a], Greeting) => Once(fromAgent'[a], Greeting)
        /\ \A k : Has(fromAgent'[a], Result(k)) <=> Has(fromAgent[a], Result(k))
        /\ \A k : Once(fromAgent[a], Result(k)) => Once(fromAgent'[a], Result(k))
    BY <1>2, <2>2, <2>3, ChannelSent
  <2>5. ASSUME a \in registeredAgents, NEW k \in Jobs PROVE Agreed(a, k)'
    BY <1>1, <1>2, <2>1, <2>4, <2>5 DEF Agreed, InHand
  <2>6. Introduced(a)'
    BY <1>1, <1>2, <2>1, <2>4 DEF Introduced, Unheard
  <2> QED
    BY <2>1, <2>5, <2>6, Channels DEF SameAgent
<1>8. ASSUME NEW j \in held[a], AgentAnswer(a, j)
      PROVE  /\ \A b \in Agents \ {a} : SameAgent(b)
             /\ Introduced(a)'
             /\ a \in registeredAgents => \A k \in Jobs : Agreed(a, k)'
  <2>1. /\ phase[a] = "up" /\ fromAgent' = [fromAgent EXCEPT ![a] = Append(@, Result(j))]
        /\ held' = [held EXCEPT ![a] = @ \ {j}] /\ UNCHANGED <<phase, toAgent>>
    BY <1>8 DEF AgentAnswer, SendToBackend, Result
  <2>2. j \in Jobs /\ Result(j) \in AgentToBackend
    BY Channels, Messages
  <2>3. fromAgent'[a] = Append(fromAgent[a], Result(j)) /\ held'[a] = held[a] \ {j}
    BY <2>1, Channels
  <2>4. /\ Has(fromAgent'[a], Greeting) <=> Has(fromAgent[a], Greeting)
        /\ Once(fromAgent[a], Greeting) => Once(fromAgent'[a], Greeting)
        /\ \A k : Has(fromAgent'[a], Result(k)) <=> Has(fromAgent[a], Result(k)) \/ k = j
        /\ \A k : Once(fromAgent[a], Result(k)) /\ (k = j => ~Has(fromAgent[a], Result(j))) => Once(fromAgent'[a], Result(k))
    BY <1>2, <2>2, <2>3, ChannelSent, Messages
  <2>5. ASSUME a \in registeredAgents, NEW k \in Jobs PROVE Agreed(a, k)'
    BY <1>1, <1>2, <2>1, <2>2, <2>3, <2>4, <2>5 DEF Agreed, InHand
  <2>6. ~Unheard(a) /\ Introduced(a)'
    BY <1>1, <1>2, <2>1, <2>4 DEF Introduced, Unheard
  <2> QED
    BY <2>1, <2>5, <2>6, Channels DEF SameAgent
<1>9. CASE AgentCrash(a)
  <2>1. /\ phase[a] = "up" /\ phase' = [phase EXCEPT ![a] = "dead"] /\ held' = [held EXCEPT ![a] = {}]
        /\ toAgent' = [toAgent EXCEPT ![a] = <<>>] /\ UNCHANGED fromAgent
    BY <1>9 DEF AgentCrash
  <2>2. phase'[a] = "dead" /\ held'[a] = {} /\ toAgent'[a] = <<>>
    BY <2>1, Channels
  <2>3. ASSUME a \in registeredAgents, NEW k \in Jobs PROVE Agreed(a, k)'
    BY <1>1, <1>2, <2>1, <2>2, <2>3, ChannelEmpty DEF Agreed, InHand
  <2>4. Introduced(a)'
    BY <1>1, <1>2, <2>1, <2>2 DEF Introduced, Unheard
  <2> QED
    BY <2>1, <2>3, <2>4, Channels DEF SameAgent
<1> QED
  BY AgentsStep(a), <1>4, <1>5, <1>6, <1>7, <1>8, <1>9 DEF AgentsStep, AgentStep, AgentReceive

\* Steps of clients and the other steps of the backend.
LEMMA ClientAgreement ==
    ASSUME Base, \/ \E j \in Jobs : Submit(j) \/ Kill(j)
                 \/ \E c \in Clients : Hello(c)
    PROVE  AgreementInv'
<1> USE DEF queueVars, registryVars, agentVars, Base
<1>1. ASSUME NEW j \in Jobs, Submit(j) PROVE AgreementInv'
  BY <1>1, UnmovedAgreement DEF Submit, HandleClientNewJob
<1>2. ASSUME NEW c \in Clients, Hello(c) PROVE AgreementInv'
  BY <1>2, UnmovedAgreement DEF Hello, HandleClientHello
<1> QED
  BY <1>1, <1>2, KillAgreement

\* A step of update_queue or of the ping coroutine
LEMMA BackendAgreement ==
    ASSUME Base, BackendStep
    PROVE  AgreementInv'
<1> USE DEF queueVars, registryVars, agentVars
<1>1. UNCHANGED <<fromAgent, held, phase>>
  BY BackendStep DEF BackendStep
<1>2. ASSUME EndUpdateQueue \/ BeginPing \/ \E a \in Agents : SetAside(a) \/ PingAgent(a)
      PROVE  AgreementInv'
  BY <1>1, <1>2, UnmovedAgreement DEF EndUpdateQueue, BeginPing, SetAside, PingAgent, Base
<1> QED
  BY <1>1, <1>2, AssignAgreement, RemoveAgreement, BackendStep DEF BackendStep, UpdateQueue, DoPing

\* The inductive invariant: the backend and every registered agent agree on the
\* jobs the agent has, and an agent that was not heard of has none.
THEOREM AgreementInvariant == Spec => []AgreementInv
<1>1. Init => AgreementInv
  BY InitAgreement
<1>2. TypeOK /\ PlacesInv /\ AgreementInv /\ [Next]_vars => AgreementInv'
  <2>1. ASSUME Base, NEW a \in Agents, ReceivePong(a) PROVE AgreementInv'
    BY <2>1, UnmovedAgreement DEF ReceivePong, HandlePong, queueVars, registryVars, agentVars, Base
  <2>2. Base /\ Next => AgreementInv'
    BY <2>1, ClientAgreement, ReceiveAgreement, BackendAgreement, AgentsAgreement DEF Next
  <2>3. AgreementInv /\ UNCHANGED vars => AgreementInv'
    BY UnmovedAgreement DEF vars, backendVars, queueVars, registryVars, agentVars, channels
  <2> QED
    BY <2>2, <2>3 DEF Base
<1> QED
  BY <1>1, <1>2, TypeCorrect, PlacesInvariant, PTL DEF Spec

\* The model's predicates on the channels, as those of QueueLemmas
LEMMA OnItsWayIs ==
    /\ \A a, j : OnItsWay(a, j) <=> Has(toAgent[a], Order(j))
    /\ \A a, j : OnItsWayBack(a, j) <=> Has(fromAgent[a], Result(j))
BY DEF OnItsWay, OnItsWayBack, Has, Order, Result

\* An agent in service works on what the backend believes it works on, and
\* `del self._job_running[...]` never raises nor frees the slot of another
\* agent's job.
THEOREM AgentsAlwaysAgree == Spec => []AgentsAgree
<1>1. AgreementInv => AgentsAgree
  BY OnItsWayIs DEF AgreementInv, Agreed, InHand, AgentsAgree
<1> QED
  BY <1>1, AgreementInvariant, PTL

-----------------------------------------------------------------------------
(* The account of the slots.                                                *)

\* The slots the backend counts for an agent
SlotsOf(a) == IF a \in registeredAgents THEN Slots[a] ELSE 0

\* An agent has a natural number of slots, none when it is not registered.
LEMMA SlotsNat == \A a \in Agents : SlotsOf(a) \in Nat
BY AgentsAssumption DEF SlotsOf

\* The jobs that run on an agent are finitely many.
LEMMA JobsOnFinite ==
    /\ \A a : JobsOn(a) \subseteq Jobs /\ IsFiniteSet(JobsOn(a)) /\ Cardinality(JobsOn(a)) \in Nat
    /\ \A a : \A j : j \in JobsOn(a) <=> j \in Jobs /\ jobRunning[j] = a
<1>1. \A a : JobsOn(a) \subseteq Jobs /\ \A j : j \in JobsOn(a) <=> j \in Jobs /\ jobRunning[j] = a
  BY DEF JobsOn
<1> QED
  BY <1>1, JobsAssumption, FS_Subset, FS_CardinalityType

\* No job and no slot moves.
LEMMA UnmovedSlots ==
    ASSUME SlotsAccountedFor, UNCHANGED <<availableAgents, notFoundForAgent, jobRunning, registeredAgents>>
    PROVE  SlotsAccountedFor'
BY DEF SlotsAccountedFor, JobsOn

\* One job moves, and the slots of one agent.
LEMMA OneJobMoves ==
    ASSUME SlotsAccountedFor, NEW a \in Agents, registeredAgents' = registeredAgents,
           \A b \in Agents \ {a} : /\ availableAgents'[b] = availableAgents[b]
                                   /\ notFoundForAgent'[b] = notFoundForAgent[b]
                                   /\ \A k \in Jobs : jobRunning'[k] = b <=> jobRunning[k] = b,
           availableAgents'[a] + notFoundForAgent'[a] + Cardinality(JobsOn(a))'
             = availableAgents[a] + notFoundForAgent[a] + Cardinality(JobsOn(a))
    PROVE  SlotsAccountedFor'
<1>1. \A b \in Agents \ {a} : JobsOn(b)' = JobsOn(b)
  BY DEF JobsOn
<1> QED
  BY <1>1 DEF SlotsAccountedFor

\* Nothing runs at first.
LEMMA InitSlots == Init => SlotsAccountedFor
<1> SUFFICES ASSUME Init PROVE SlotsAccountedFor
  OBVIOUS
<1>1. /\ jobRunning = [j \in Jobs |-> NoAgent] /\ registeredAgents = {}
      /\ availableAgents = [a \in Agents |-> 0] /\ notFoundForAgent = [a \in Agents |-> 0]
  BY DEF Init, BackendInit
<1>2. \A a \in Agents : JobsOn(a) = {}
  BY <1>1, AgentsAssumption DEF JobsOn
<1> QED
  BY <1>1, <1>2, FS_EmptySet DEF SlotsAccountedFor

\* A hello opens the slots of an agent, and a result frees the slot of its job.
LEMMA ReceiveSlots ==
    ASSUME Base, SlotsAccountedFor, NEW a \in Agents, ReceiveFrom(a)
    PROVE  SlotsAccountedFor'
<1> DEFINE m == Head(fromAgent[a])
<1> USE DEF queueVars, registryVars
<1>1. m \in AgentToBackend
  BY ReadAgent
<1>2. CASE m.type = "hello" /\ HandleAgentHello(a)
  <2>1. /\ registeredAgents' = registeredAgents \cup {a}
        /\ availableAgents' = [availableAgents EXCEPT ![a] = @ + Slots[a]]
        /\ UNCHANGED <<notFoundForAgent, jobRunning>>
    BY <1>2 DEF HandleAgentHello
  <2>2. Has(fromAgent[a], Greeting)
    BY <1>1, <1>2, ReadAgent DEF AgentToBackend, Greeting, Message
  <2>3. a \notin registeredAgents
    BY <2>2 DEF Base, AgreementInv, Introduced, Unheard
  <2>4. \A b \in Agents : JobsOn(b)' = JobsOn(b)
    BY <2>1 DEF JobsOn
  <2>5. /\ availableAgents[a] \in Nat /\ notFoundForAgent[a] \in Nat /\ Slots[a] \in Nat
        /\ availableAgents'[a] = availableAgents[a] + Slots[a]
        /\ \A b \in Agents \ {a} : availableAgents'[b] = availableAgents[b]
        /\ Cardinality(JobsOn(a)) \in Nat
    BY <2>1, AgentsAssumption, JobsOnFinite DEF Base, TypeOK
  <2>6. availableAgents[a] + notFoundForAgent[a] + Cardinality(JobsOn(a)) = 0
    BY <2>3 DEF SlotsAccountedFor
  <2>7. availableAgents'[a] + notFoundForAgent'[a] + Cardinality(JobsOn(a))' = Slots[a]
    <3>1. Cardinality(JobsOn(a))' = Cardinality(JobsOn(a)) /\ notFoundForAgent'[a] = notFoundForAgent[a]
      BY <2>1, <2>4
    <3> QED
      BY <2>5, <2>6, <3>1
  <2> QED
    BY <2>1, <2>4, <2>5, <2>7 DEF SlotsAccountedFor
<1>3. CASE \/ HandleAgentJobStarted(a, m.job) \/ HandleAgentJobSSHDebug(a, m.job)
           \/ JobDoneByUnregistered(a, m.job)
  BY <1>3, UnmovedSlots DEF HandleAgentJobStarted, HandleAgentJobSSHDebug, JobDoneByUnregistered
<1>4. CASE m.type = "done" /\ JobDoneByRegistered(a, m.job)
  <2>1. PICK j \in Jobs : j = m.job /\ m = Result(j)
    BY <1>1, <1>4 DEF AgentToBackend, Result, Message
  <2>2. /\ jobRunning' = [jobRunning EXCEPT ![j] = NoAgent]
        /\ availableAgents' = [availableAgents EXCEPT ![a] = @ + 1]
        /\ UNCHANGED <<notFoundForAgent, registeredAgents>>
    BY <1>4, <2>1 DEF JobDoneByRegistered
  <2>3. jobRunning[j] = a
    BY <1>4, <2>1, DoneAgreement
  <2>4. /\ jobRunning'[j] = NoAgent /\ a # NoAgent /\ \A k \in Jobs \ {j} : jobRunning'[k] = jobRunning[k]
        /\ availableAgents[a] \in Nat /\ notFoundForAgent[a] \in Nat
        /\ availableAgents'[a] = availableAgents[a] + 1
        /\ \A b \in Agents \ {a} : availableAgents'[b] = availableAgents[b] /\ b # NoAgent
    BY <2>2, Channels DEF Base, TypeOK
  <2>5. JobsOn(a)' = JobsOn(a) \ {j} /\ j \in JobsOn(a)
    BY <2>3, <2>4 DEF JobsOn
  <2>6. Cardinality(JobsOn(a))' = Cardinality(JobsOn(a)) - 1 /\ Cardinality(JobsOn(a)) \in Nat
    BY <2>5, JobsOnFinite, FS_RemoveElement
  <2>7. availableAgents'[a] + notFoundForAgent'[a] + Cardinality(JobsOn(a))'
          = availableAgents[a] + notFoundForAgent[a] + Cardinality(JobsOn(a))
    BY <2>2, <2>4, <2>6
  <2>8. \A b \in Agents \ {a} : \A k \in Jobs : jobRunning'[k] = b <=> jobRunning[k] = b
    BY <2>3, <2>4
  <2> QED
    BY <2>2, <2>4, <2>7, <2>8, OneJobMoves
<1> QED
  BY ReceiveFrom(a), <1>2, <1>3, <1>4 DEF ReceiveFrom, HandleAgentJobDone

\* An assignment takes a slot; a removal takes the agent's jobs with its slots.
LEMMA BackendSlots ==
    ASSUME Base, SlotsAccountedFor, BackendStep
    PROVE  SlotsAccountedFor'
<1> USE DEF queueVars, registryVars
<1>1. ASSUME NEW a \in Agents, AssignJob(a) PROVE SlotsAccountedFor'
  <2>1. PICK i \in DOMAIN waitingJobs : jobRunning' = [jobRunning EXCEPT ![waitingJobs[i]] = a]
    BY <1>1 DEF AssignJob
  <2>2. PICK j \in Jobs : j = waitingJobs[i] /\ IsWaiting(j)
    BY DEF Base, TypeOK, IsWaiting, Range
  <2>3. /\ availableAgents[a] > 0 /\ availableAgents' = [availableAgents EXCEPT ![a] = @ - 1]
        /\ UNCHANGED <<notFoundForAgent, registeredAgents>>
    BY <1>1 DEF AssignJob
  <2>4. jobRunning[j] = NoAgent
    BY <2>2 DEF Base, PlacesInv, InOnePlace, IsRunning
  <2>5. /\ jobRunning'[j] = a /\ \A k \in Jobs \ {j} : jobRunning'[k] = jobRunning[k]
        /\ availableAgents[a] \in Nat /\ notFoundForAgent[a] \in Nat
        /\ availableAgents'[a] = availableAgents[a] - 1
        /\ \A b \in Agents \ {a} : availableAgents'[b] = availableAgents[b]
        /\ \A b \in Agents : b # NoAgent
    BY <2>1, <2>2, <2>3, Channels DEF Base, TypeOK
  <2>6. JobsOn(a)' = JobsOn(a) \cup {j} /\ j \notin JobsOn(a)
    BY <2>4, <2>5 DEF JobsOn
  <2>7. Cardinality(JobsOn(a))' = Cardinality(JobsOn(a)) + 1 /\ Cardinality(JobsOn(a)) \in Nat
    BY <2>6, JobsOnFinite, FS_AddElement
  <2>8. availableAgents'[a] + notFoundForAgent'[a] + Cardinality(JobsOn(a))'
          = availableAgents[a] + notFoundForAgent[a] + Cardinality(JobsOn(a))
    BY <2>3, <2>5, <2>7
  <2>9. \A b \in Agents \ {a} : \A k \in Jobs : jobRunning'[k] = b <=> jobRunning[k] = b
    BY <2>4, <2>5
  <2> QED
    BY <2>3, <2>5, <2>8, <2>9, OneJobMoves
<1>2. ASSUME NEW a \in Agents, SetAside(a) PROVE SlotsAccountedFor'
  <2>1. /\ availableAgents[a] > 0 /\ availableAgents' = [availableAgents EXCEPT ![a] = @ - 1]
        /\ notFoundForAgent' = [notFoundForAgent EXCEPT ![a] = @ + 1]
        /\ UNCHANGED <<jobRunning, registeredAgents>>
    BY <1>2 DEF SetAside
  <2>2. /\ availableAgents[a] \in Nat /\ notFoundForAgent[a] \in Nat /\ Cardinality(JobsOn(a)) \in Nat
        /\ availableAgents'[a] = availableAgents[a] - 1 /\ notFoundForAgent'[a] = notFoundForAgent[a] + 1
        /\ \A b \in Agents \ {a} : availableAgents'[b] = availableAgents[b] /\ notFoundForAgent'[b] = notFoundForAgent[b]
    BY <2>1, JobsOnFinite DEF Base, TypeOK
  <2>3. JobsOn(a)' = JobsOn(a)
    BY <2>1 DEF JobsOn
  <2>4. availableAgents'[a] + notFoundForAgent'[a] + Cardinality(JobsOn(a))'
          = availableAgents[a] + notFoundForAgent[a] + Cardinality(JobsOn(a))
    BY <2>2, <2>3
  <2> QED
    BY <2>1, <2>2, <2>4, OneJobMoves
<1>3. ASSUME EndUpdateQueue PROVE SlotsAccountedFor'
  <2>1. /\ availableAgents' = [a \in Agents |-> availableAgents[a] + notFoundForAgent[a]]
        /\ notFoundForAgent' = [a \in Agents |-> 0]
        /\ UNCHANGED <<jobRunning, registeredAgents>>
    BY <1>3 DEF EndUpdateQueue
  <2>2. ASSUME NEW a \in Agents
        PROVE  availableAgents'[a] + notFoundForAgent'[a] + Cardinality(JobsOn(a))' = SlotsOf(a)'
    <3>1. /\ availableAgents[a] \in Nat /\ notFoundForAgent[a] \in Nat /\ Cardinality(JobsOn(a)) \in Nat
          /\ JobsOn(a)' = JobsOn(a) /\ SlotsOf(a)' = SlotsOf(a)
      BY <2>1, JobsOnFinite DEF Base, TypeOK, JobsOn, SlotsOf
    <3>2. availableAgents[a] + notFoundForAgent[a] + Cardinality(JobsOn(a)) = SlotsOf(a)
      BY DEF SlotsAccountedFor, SlotsOf
    <3> QED
      BY <2>1, <3>1, <3>2
  <2> QED
    BY <2>2 DEF SlotsAccountedFor, SlotsOf
<1>4. ASSUME BeginPing \/ \E a \in Agents : PingAgent(a) PROVE SlotsAccountedFor'
  BY <1>4, UnmovedSlots DEF BeginPing, PingAgent
<1>5. ASSUME NEW a \in Agents, RemoveAgent(a) PROVE SlotsAccountedFor'
  <2>1. /\ ~updating /\ availableAgents' = [availableAgents EXCEPT ![a] = 0]
        /\ registeredAgents' = registeredAgents \ {a}
        /\ jobRunning' = [j \in Jobs |-> IF jobRunning[j] = a THEN NoAgent ELSE jobRunning[j]]
        /\ UNCHANGED notFoundForAgent
    BY <1>5 DEF RemoveAgent
  <2>2. notFoundForAgent'[a] = 0 /\ availableAgents'[a] = 0
    BY <2>1 DEF Base, TypeOK, PlacesInv, AsideWhileUpdating
  <2>3. JobsOn(a)' = {} /\ \A b \in Agents \ {a} : JobsOn(b)' = JobsOn(b)
    BY <2>1, Channels DEF Base, JobsOn
  <2>4. Cardinality(JobsOn(a))' = 0
    BY <2>3, FS_EmptySet
  <2>5. \A b \in Agents \ {a} : availableAgents'[b] = availableAgents[b] /\ notFoundForAgent'[b] = notFoundForAgent[b]
    BY <2>1 DEF Base, TypeOK
  <2>6. availableAgents'[a] + notFoundForAgent'[a] + Cardinality(JobsOn(a))' = 0
    BY <2>2, <2>4
  <2>7. ASSUME NEW b \in Agents
        PROVE  availableAgents'[b] + notFoundForAgent'[b] + Cardinality(JobsOn(b))' = SlotsOf(b)'
    <3>1. CASE b = a
      BY <2>1, <2>6, <3>1 DEF SlotsOf
    <3>2. CASE b # a
      <4>1. SlotsOf(b)' = SlotsOf(b) /\ Cardinality(JobsOn(b))' = Cardinality(JobsOn(b))
        BY <2>1, <2>3, <3>2 DEF SlotsOf
      <4>2. availableAgents[b] + notFoundForAgent[b] + Cardinality(JobsOn(b)) = SlotsOf(b)
        BY DEF SlotsAccountedFor, SlotsOf
      <4> QED
        BY <2>5, <3>2, <4>1, <4>2
    <3> QED
      BY <3>1, <3>2
  <2> QED
    BY <2>7 DEF SlotsAccountedFor, SlotsOf
<1> QED
  BY <1>1, <1>2, <1>3, <1>4, <1>5, BackendStep DEF BackendStep, UpdateQueue, DoPing

\* Each slot is free or taken by a running job, and an agent that is not
\* registered has none: an agent is given back the slot of its own job, never
\* the one of another agent's job, however late its result comes.
THEOREM SlotsBalance == Spec => []SlotsAccountedFor
<1>1. Init => SlotsAccountedFor
  BY InitSlots
<1>2. TypeOK /\ PlacesInv /\ AgreementInv /\ SlotsAccountedFor /\ [Next]_vars => SlotsAccountedFor'
  <2> USE DEF queueVars, registryVars
  <2>1. ASSUME Base, SlotsAccountedFor, NEW j \in Jobs, Submit(j) \/ Kill(j) PROVE SlotsAccountedFor'
    BY <2>1, UnmovedSlots DEF Submit, HandleClientNewJob, Kill, HandleClientKillJob,
       KillWaitingJob, KillRunningJob, KillUnknownJob
  <2>2. ASSUME SlotsAccountedFor, NEW c \in Clients, Hello(c) PROVE SlotsAccountedFor'
    BY <2>2, UnmovedSlots DEF Hello, HandleClientHello
  <2>3. ASSUME SlotsAccountedFor, NEW a \in Agents, ReceivePong(a) \/ AgentsStep(a) PROVE SlotsAccountedFor'
    BY <2>3, UnmovedSlots DEF ReceivePong, HandlePong, AgentsStep
  <2>4. ASSUME SlotsAccountedFor, UNCHANGED vars PROVE SlotsAccountedFor'
    BY <2>4, UnmovedSlots DEF vars, backendVars
  <2> QED
    BY <2>1, <2>2, <2>3, <2>4, ReceiveSlots, BackendSlots DEF Next, Base
<1> QED
  BY <1>1, <1>2, TypeCorrect, PlacesInvariant, AgreementInvariant, PTL DEF Spec

-----------------------------------------------------------------------------
(* The load of the agents.                                                  *)

\* What an agent has or will have to run
Load(a) == held[a] \cup {j \in Jobs : OnItsWay(a, j)}

\* No registered agent has more jobs than it announced slots.
RegisteredLoads == \A a \in registeredAgents : Cardinality(Load(a)) <= Slots[a]

\* A registered agent has what runs on it.
LEMMA LoadOfRegistered ==
    ASSUME Base, SlotsAccountedFor, NEW a \in registeredAgents
    PROVE  Cardinality(Load(a)) <= Slots[a]
<1>1. a \in Agents /\ \A j \in Jobs : Agreed(a, j)
  BY DEF Base, TypeOK, AgreementInv
<1>2. Load(a) \subseteq JobsOn(a)
  BY <1>1, OnItsWayIs, Channels, JobsOnFinite DEF Load, Agreed, InHand, Base
<1>3. Cardinality(Load(a)) <= Cardinality(JobsOn(a)) /\ Cardinality(Load(a)) \in Nat
  BY <1>2, JobsOnFinite, FS_Subset, FS_CardinalityType
<1>4. /\ availableAgents[a] + notFoundForAgent[a] + Cardinality(JobsOn(a)) = Slots[a]
      /\ availableAgents[a] \in Nat /\ notFoundForAgent[a] \in Nat /\ Slots[a] \in Nat
      /\ Cardinality(JobsOn(a)) \in Nat
  BY <1>1, JobsOnFinite, AgentsAssumption DEF SlotsAccountedFor, Base, TypeOK
<1> QED
  BY <1>3, <1>4

\* An agent is only given jobs while it is registered.
LEMMA LoadGrows ==
    ASSUME Base, NEW a \in Agents, a \notin registeredAgents', Next
    PROVE  Load(a)' \subseteq Load(a)
<1> USE DEF queueVars, registryVars, agentVars, Base
<1>1. ASSUME UNCHANGED <<toAgent, held>> PROVE Load(a)' \subseteq Load(a)
  BY <1>1 DEF Load, OnItsWay
<1>2. ASSUME NEW b \in Agents, b # a, NEW m, SendToAgent(b, m), UNCHANGED held
      PROVE  Load(a)' \subseteq Load(a)
  <2>1. toAgent'[a] = toAgent[a]
    BY <1>2, Channels DEF SendToAgent
  <2> QED
    BY <1>2, <2>1 DEF Load, OnItsWay
<1>3. ASSUME NEW j \in Jobs, Submit(j) PROVE Load(a)' \subseteq Load(a)
  BY <1>1, <1>3 DEF Submit, HandleClientNewJob
<1>4. ASSUME NEW j \in Jobs, Kill(j) PROVE Load(a)' \subseteq Load(a)
  <2>1. CASE KillRunningJob(Owner[j], j)
    <3>1. jobRunning[j] \in Agents /\ jobRunning[j] \in registeredAgents /\ registeredAgents' = registeredAgents
      BY <2>1 DEF KillRunningJob, TypeOK, PlacesInv, RunningOnRegistered, IsRunning
    <3> QED
      BY <1>2, <1>4, <2>1, <3>1 DEF KillRunningJob, Kill
  <2> QED
    BY <1>1, <1>4, <2>1 DEF Kill, HandleClientKillJob, KillWaitingJob, KillUnknownJob
<1>5. ASSUME NEW c \in Clients, Hello(c) PROVE Load(a)' \subseteq Load(a)
  BY <1>1, <1>5 DEF Hello, HandleClientHello
<1>6. ASSUME NEW b \in Agents, ReceiveFrom(b) \/ ReceivePong(b) PROVE Load(a)' \subseteq Load(a)
  BY <1>1, <1>6 DEF ReceiveFrom, ReceivePong, HandlePong, HandleAgentHello, HandleAgentJobStarted,
     HandleAgentJobSSHDebug, HandleAgentJobDone, JobDoneByRegistered, JobDoneByUnregistered
<1>7. ASSUME BackendStep PROVE Load(a)' \subseteq Load(a)
  <2>1. ASSUME NEW b \in Agents, AssignJob(b) PROVE Load(a)' \subseteq Load(a)
    <3>1. b \in registeredAgents /\ registeredAgents' = registeredAgents /\ \E m : SendToAgent(b, m)
      BY <2>1 DEF AssignJob, PlacesInv, SlotsOfRegistered
    <3> QED
      BY <1>2, <1>7, <3>1 DEF BackendStep
  <2>2. ASSUME EndUpdateQueue \/ BeginPing \/ \E b \in Agents : SetAside(b) \/ PingAgent(b) \/ RemoveAgent(b)
        PROVE Load(a)' \subseteq Load(a)
    BY <1>1, <1>7, <2>2 DEF BackendStep, EndUpdateQueue, BeginPing, SetAside, PingAgent, RemoveAgent
  <2> QED
    BY <1>7, <2>1, <2>2 DEF BackendStep, UpdateQueue, DoPing
<1>8. ASSUME NEW b \in Agents, AgentsStep(b) PROVE Load(a)' \subseteq Load(a)
  <2>1. CASE AgentStart(b) \/ \E n \in notices[b] : AgentNotify(b, n)
    BY <1>1, <2>1 DEF AgentStart, AgentNotify
  <2>2. CASE AgentReceiveJob(b)
    <3>1. /\ toAgent[b] # <<>> /\ Head(toAgent[b]).type = "new_job"
          /\ toAgent' = [toAgent EXCEPT ![b] = Tail(@)]
          /\ held' = [held EXCEPT ![b] = @ \cup {Head(toAgent[b]).job}]
      BY <2>2 DEF AgentReceiveJob
    <3>2. CASE b # a
      <4>1. toAgent'[a] = toAgent[a] /\ held'[a] = held[a]
        BY <3>1, <3>2, Channels
      <4> QED
        BY <4>1 DEF Load, OnItsWay
    <3>3. CASE b = a
      <4>1. toAgent'[a] = Tail(toAgent[a]) /\ toAgent[a] \in Seq(BackendToAgent) /\ held'[a] = held[a] \cup {Head(toAgent[a]).job}
        BY <3>1, <3>3, Channels
      <4>2. PICK j \in Jobs : Head(toAgent[a]) = Order(j) /\ Head(toAgent[a]).job = j
        <5>1. Head(toAgent[a]) \in BackendToAgent /\ Head(toAgent[a]).type = "new_job"
          BY <3>1, <3>3, <4>1, ChannelRead
        <5> QED
          BY <5>1 DEF BackendToAgent, Order, Message
      <4>3. Has(toAgent[a], Order(j)) /\ \A m : Has(toAgent'[a], m) => Has(toAgent[a], m)
        BY <3>1, <3>3, <4>1, <4>2, ChannelRead
      <4> QED
        BY <4>1, <4>2, <4>3, OnItsWayIs DEF Load, OnItsWay, Has, Order
    <3> QED
      BY <3>2, <3>3
  <2>3. CASE AgentReceiveKill(b) \/ (\E j \in held[b] : AgentAnswer(b, j)) \/ AgentCrash(b)
    <3>1. \/ toAgent'[a] = toAgent[a]
          \/ toAgent[a] # <<>> /\ toAgent'[a] = Tail(toAgent[a])
          \/ toAgent'[a] = <<>>
      BY <2>3, Channels DEF AgentReceiveKill, AgentAnswer, AgentCrash
    <3>2. held'[a] \subseteq held[a]
      BY <2>3, Channels DEF AgentReceiveKill, AgentAnswer, AgentCrash
    <3>3. \A m : Has(toAgent'[a], m) => Has(toAgent[a], m)
      BY <3>1, Channels, ChannelRead, ChannelEmpty
    <3> QED
      BY <3>2, <3>3 DEF Load, OnItsWay, Has
  <2> QED
    BY <1>8, <2>1, <2>2, <2>3 DEF AgentsStep, AgentStep, AgentReceive
<1> QED
  BY <1>3, <1>4, <1>5, <1>6, <1>7, <1>8 DEF Next

\* No agent is ever given more jobs than it announced slots, not even one that
\* was removed by mistake and goes on with the jobs it has.
THEOREM NeverOvercommitted == Spec => []NoOvercommit
<1>1. Init => NoOvercommit
  <2> SUFFICES ASSUME Init, NEW a \in Agents PROVE Cardinality(Load(a)) <= Slots[a]
    BY DEF NoOvercommit, Load
  <2>1. Load(a) = {}
    BY DEF Init, AgentsInit, ChannelsInit, Load, OnItsWay
  <2> QED
    BY <2>1, FS_EmptySet, AgentsAssumption
<1>2. Spec => []RegisteredLoads
  <2>1. TypeOK /\ PlacesInv /\ AgreementInv /\ SlotsAccountedFor => RegisteredLoads
    BY LoadOfRegistered DEF Base, RegisteredLoads
  <2> QED
    BY <2>1, TypeCorrect, PlacesInvariant, AgreementInvariant, SlotsBalance, PTL
<1>3. TypeOK /\ PlacesInv /\ AgreementInv /\ NoOvercommit /\ RegisteredLoads' /\ [Next]_vars => NoOvercommit'
  <2> SUFFICES ASSUME Base, NoOvercommit, RegisteredLoads', [Next]_vars, NEW a \in Agents
               PROVE  (Cardinality(Load(a)) <= Slots[a])'
    BY DEF NoOvercommit, Load, Base
  <2>1. CASE a \in registeredAgents'
    BY <2>1 DEF RegisteredLoads
  <2>2. CASE a \notin registeredAgents'
    <3>1. Load(a)' \subseteq Load(a)
      BY <2>2, LoadGrows DEF Load, OnItsWay, vars, agentVars, channels
    <3>2. IsFiniteSet(Load(a)) /\ Slots[a] \in Nat
      BY JobsAssumption, AgentsAssumption, Channels, FS_Subset DEF Load, Base
    <3>3. Cardinality(Load(a)') <= Cardinality(Load(a)) /\ Cardinality(Load(a)') \in Nat /\ Cardinality(Load(a)) \in Nat
      BY <3>1, <3>2, FS_Subset, FS_CardinalityType
    <3>4. Cardinality(Load(a)) <= Slots[a]
      BY DEF NoOvercommit, Load
    <3> QED
      BY <3>2, <3>3, <3>4
  <2> QED
    BY <2>1, <2>2
<1> QED
  BY <1>1, <1>2, <1>3, TypeCorrect, PlacesInvariant, AgreementInvariant, PTL DEF Spec

-----------------------------------------------------------------------------
(* No job waits for nothing.                                                *)

\* An agent with a slot that update_queue has looked at, or that waits between
\* two handlers, has nothing to run.
WorkInv ==
    \A a \in Agents :
        (~updating /\ availableAgents[a] > 0) \/ notFoundForAgent[a] > 0 => NothingFor(a)

\* A job that leaves the queue takes no other with it.
LEMMA NothingAppears ==
    ASSUME TypeOK, QueuedOnce, NEW i \in DOMAIN waitingJobs, waitingJobs' = Without(i),
           UNCHANGED containersOnAgent, NEW a \in Agents, NothingFor(a)
    PROVE  NothingFor(a)'
<1>1. Range(waitingJobs') \subseteq Range(waitingJobs)
  BY QueueDelete DEF TypeOK, QueuedOnce, Without
<1>2. \A j \in Range(waitingJobs) : EnvOf[j] \notin containersOnAgent[a]
  BY DEF NothingFor, Suits, Range
<1> QED
  BY <1>1, <1>2 DEF NothingFor, Suits, Range

\* The queue is as it was, and no slot comes back.
LEMMA UnmovedWork ==
    ASSUME WorkInv, UNCHANGED <<waitingJobs, containersOnAgent, notFoundForAgent>>,
           updating' \/ UNCHANGED <<updating, availableAgents>>
    PROVE  WorkInv'
BY DEF WorkInv, NothingFor, Suits

\* A handler that has to call update_queue does it; nothing is set aside then.
LEMMA UpdateCalled ==
    ASSUME PlacesInv, TypeOK, ~updating, updating', UNCHANGED notFoundForAgent
    PROVE  WorkInv'
BY DEF WorkInv, PlacesInv, AsideWhileUpdating

\* A step of the system keeps WorkInv.
LEMMA StepWork ==
    ASSUME TypeOK, PlacesInv, WorkInv, Next
    PROVE  WorkInv'
<1> USE DEF queueVars, registryVars, controlVars, CallUpdateQueue, Idle
<1>1. ASSUME NEW j \in Jobs, Submit(j) PROVE WorkInv'
  BY <1>1, UpdateCalled DEF Submit, HandleClientNewJob
<1>2. ASSUME NEW j \in Jobs, Kill(j) PROVE WorkInv'
  <2>1. CASE KillWaitingJob(Owner[j], j)
    <3>1. PICK i \in DOMAIN waitingJobs : waitingJobs' = Without(i)
      BY <2>1 DEF KillWaitingJob
    <3>2. UNCHANGED <<availableAgents, notFoundForAgent, containersOnAgent, updating>>
      BY <2>1 DEF KillWaitingJob
    <3>3. \A a \in Agents : NothingFor(a) => NothingFor(a)'
      BY <3>1, <3>2, NothingAppears DEF PlacesInv
    <3> QED
      BY <3>2, <3>3 DEF WorkInv
  <2> QED
    BY <1>2, <2>1, UnmovedWork DEF Kill, HandleClientKillJob, KillRunningJob, KillUnknownJob
<1>3. ASSUME NEW c \in Clients, Hello(c) PROVE WorkInv'
  BY <1>3, UnmovedWork DEF Hello, HandleClientHello
<1>4. ASSUME NEW a \in Agents, ReceiveFrom(a) PROVE WorkInv'
  <2>1. CASE HandleAgentHello(a) \/ HandleAgentJobDone(a, Head(fromAgent[a]).job)
    BY <2>1, UpdateCalled DEF HandleAgentHello, HandleAgentJobDone, JobDoneByRegistered, JobDoneByUnregistered
  <2>2. CASE \/ HandleAgentJobStarted(a, Head(fromAgent[a]).job)
             \/ HandleAgentJobSSHDebug(a, Head(fromAgent[a]).job)
    BY <2>2, UnmovedWork DEF HandleAgentJobStarted, HandleAgentJobSSHDebug
  <2> QED
    BY <1>4, <2>1, <2>2 DEF ReceiveFrom
<1>5. ASSUME NEW a \in Agents, ReceivePong(a) \/ AgentsStep(a) PROVE WorkInv'
  BY <1>5, UnmovedWork DEF ReceivePong, HandlePong, AgentsStep
<1>6. ASSUME NEW a \in Agents, AssignJob(a) PROVE WorkInv'
  <2>1. PICK i \in DOMAIN waitingJobs : waitingJobs' = Without(i)
    BY <1>6 DEF AssignJob
  <2>2. updating /\ UNCHANGED <<notFoundForAgent, containersOnAgent, updating>>
    BY <1>6 DEF AssignJob
  <2>3. \A b \in Agents : NothingFor(b) => NothingFor(b)'
    BY <2>1, <2>2, NothingAppears DEF PlacesInv
  <2> QED
    BY <2>2, <2>3 DEF WorkInv
<1>7. ASSUME NEW a \in Agents, SetAside(a) PROVE WorkInv'
  <2>1. /\ updating /\ NothingFor(a) /\ UNCHANGED <<waitingJobs, containersOnAgent, updating>>
        /\ \A b \in Agents \ {a} : notFoundForAgent'[b] = notFoundForAgent[b]
    BY <1>7 DEF SetAside, TypeOK
  <2>2. \A b \in Agents : NothingFor(b) => NothingFor(b)'
    BY <2>1 DEF NothingFor, Suits
  <2> QED
    BY <2>1, <2>2 DEF WorkInv
<1>8. ASSUME EndUpdateQueue PROVE WorkInv'
  <2>1. /\ NobodyAvailable \/ waitingJobs = <<>>
        /\ availableAgents' = [a \in Agents |-> availableAgents[a] + notFoundForAgent[a]]
        /\ notFoundForAgent' = [a \in Agents |-> 0]
        /\ UNCHANGED <<waitingJobs, containersOnAgent>>
    BY <1>8 DEF EndUpdateQueue
  <2>2. \A b \in Agents : NothingFor(b) => NothingFor(b)'
    BY <2>1 DEF NothingFor, Suits
  <2>3. ASSUME NEW b \in Agents, availableAgents'[b] > 0 PROVE NothingFor(b)
    <3>1. CASE waitingJobs = <<>>
      BY <3>1 DEF NothingFor
    <3>2. CASE NobodyAvailable
      <4>1. notFoundForAgent[b] \in Nat /\ notFoundForAgent[b] > 0
        BY <2>1, <2>3, <3>2 DEF NobodyAvailable, TypeOK
      <4> QED
        BY <4>1 DEF WorkInv
    <3> QED
      BY <2>1, <3>1, <3>2
  <2> QED
    BY <2>1, <2>2, <2>3 DEF WorkInv
<1>9. ASSUME BeginPing \/ \E a \in Agents : PingAgent(a) PROVE WorkInv'
  BY <1>9, UnmovedWork DEF BeginPing, PingAgent
<1>10. ASSUME NEW a \in Agents, RemoveAgent(a) PROVE WorkInv'
  BY <1>10, UpdateCalled DEF RemoveAgent
<1> QED
  BY <1>1, <1>2, <1>3, <1>4, <1>5, <1>6, <1>7, <1>8, <1>9, <1>10
     DEF Next, BackendStep, UpdateQueue, DoPing

\* Between two handlers no job waits while an agent that could run it has a
\* free slot: what update_queue sets aside has nothing to run in the end either.
THEOREM NoIdleSlot == Spec => []WorkConserving
<1>1. Init => WorkInv
  BY DEF Init, BackendInit, WorkInv
<1>2. TypeOK /\ PlacesInv /\ WorkInv /\ [Next]_vars => WorkInv'
  <2>1. WorkInv /\ UNCHANGED vars => WorkInv'
    BY UnmovedWork DEF vars, backendVars, queueVars, registryVars, controlVars
  <2> QED
    BY <2>1, StepWork
<1>3. WorkInv => WorkConserving
  BY DEF WorkInv, WorkConserving, Idle
<1> QED
  BY <1>1, <1>2, <1>3, TypeCorrect, PlacesInvariant, PTL DEF Spec

-----------------------------------------------------------------------------
(* The backend implements JobService.                                       *)

\* The places of a job give its state in the service.
LEMMA StateIs ==
    ASSUME NEW j \in Jobs
    PROVE  /\ InOnePlace => /\ IsAnswered(j) => StateOf(j) = "answered"
                            /\ IsRunning(j) => StateOf(j) = "running"
                            /\ IsWaiting(j) => StateOf(j) = "queued"
                            /\ ~IsAnswered(j) /\ ~IsRunning(j) /\ ~IsWaiting(j) => StateOf(j) = "new"
           /\ InOnePlace' => /\ IsAnswered(j)' => StateOf(j)' = "answered"
                             /\ IsRunning(j)' => StateOf(j)' = "running"
                             /\ IsWaiting(j)' => StateOf(j)' = "queued"
                             /\ (~IsAnswered(j) /\ ~IsRunning(j) /\ ~IsWaiting(j))' => StateOf(j)' = "new"
BY DEF StateOf, InOnePlace

\* A job that stays where it is stays in its state.
LEMMA StateStays ==
    ASSUME InOnePlace, InOnePlace', NEW j \in Jobs,
           IsAnswered(j)' <=> IsAnswered(j), IsRunning(j)' <=> IsRunning(j), IsWaiting(j)' <=> IsWaiting(j)
    PROVE  StateOf(j)' = StateOf(j)
BY StateIs

\* One job changes its state.
LEMMA MoveIs ==
    ASSUME NEW j \in Jobs, NEW from, NEW to, StateOf(j) = from, StateOf(j)' = to,
           \A k \in Jobs \ {j} : StateOf(k)' = StateOf(k)
    PROVE  Service!Move(j, from, to)
BY DEF Service!Move

\* No job changes its place.
LEMMA ServiceStutters ==
    ASSUME UNCHANGED <<waitingJobs, jobRunning, answers, registeredAgents>>
    PROVE  UNCHANGED Service!serviceVars
<1>1. \A j \in Jobs : StateOf(j)' = StateOf(j)
  BY DEF StateOf, IsAnswered, IsRunning, IsWaiting
<1> QED
  BY <1>1 DEF Service!serviceVars

\* A step of JobService, or a stutter
ServiceStep == Service!ServiceNext \/ UNCHANGED Service!serviceVars

\* A job is submitted: it is accepted.
LEMMA SubmitServes ==
    ASSUME Base, InOnePlace', NEW j \in Jobs, Submit(j)
    PROVE  ServiceStep
<1>1. /\ j \notin submitted /\ waitingJobs' = Append(waitingJobs, j)
      /\ UNCHANGED <<jobRunning, answers, registeredAgents>>
  BY DEF Submit, HandleClientNewJob, registryVars
<1>2. waitingJobs \in Seq(Jobs) /\ IsInjective(waitingJobs) /\ InOnePlace
  BY DEF Base, TypeOK, PlacesInv, QueuedOnce
<1>3. j \notin Range(waitingJobs) /\ ~IsAnswered(j) /\ ~IsRunning(j)
  BY <1>1, <1>2 DEF InOnePlace, IsWaiting
<1>4. Range(waitingJobs') = Range(waitingJobs) \cup {j}
  BY <1>1, <1>2, <1>3, QueueAppend
<1>5. StateOf(j) = "new" /\ StateOf(j)' = "queued"
  BY <1>2, <1>3, <1>4, StateIs DEF IsWaiting
<1>6. \A k \in Jobs \ {j} : StateOf(k)' = StateOf(k)
  BY <1>1, <1>2, <1>4, StateStays DEF IsWaiting, IsAnswered, IsRunning
<1>7. Service!Accept(j)
  BY <1>1, <1>5, <1>6, MoveIs DEF Service!Accept
<1> QED
  BY <1>7 DEF ServiceStep, Service!ServiceNext

\* A job is killed: it is withdrawn when it waits, and goes on otherwise.
LEMMA KillServes ==
    ASSUME Base, InOnePlace', NEW j \in Jobs, Kill(j)
    PROVE  ServiceStep
<1>1. CASE KillWaitingJob(Owner[j], j)
  <2>1. PICK i \in DOMAIN waitingJobs : waitingJobs[i] = j /\ waitingJobs' = Without(i)
    BY <1>1 DEF KillWaitingJob
  <2>2. answers' = [answers EXCEPT ![j] = @ + 1] /\ UNCHANGED <<jobRunning, registeredAgents>>
    BY <1>1 DEF KillWaitingJob, registryVars
  <2>3. Range(waitingJobs') = Range(waitingJobs) \ {j} /\ j \in Range(waitingJobs) /\ InOnePlace
    BY <2>1, QueueDelete DEF Without, Range, Base, TypeOK, PlacesInv, QueuedOnce
  <2>4. IsAnswered(j)' /\ \A k \in Jobs \ {j} : answers'[k] = answers[k]
    BY <2>2 DEF Base, TypeOK, IsAnswered
  <2>5. StateOf(j) = "queued" /\ StateOf(j)' = "answered"
    BY <2>3, <2>4, StateIs DEF IsWaiting
  <2>6. \A k \in Jobs \ {j} : StateOf(k)' = StateOf(k)
    BY <2>2, <2>3, <2>4, StateStays DEF IsWaiting, IsAnswered, IsRunning
  <2>7. Service!Withdraw(j)
    BY <2>2, <2>5, <2>6, MoveIs DEF Service!Withdraw
  <2> QED
    BY <2>7 DEF ServiceStep, Service!ServiceNext
<1>2. CASE KillRunningJob(Owner[j], j) \/ KillUnknownJob(Owner[j], j)
  BY <1>2, ServiceStutters DEF ServiceStep, KillRunningJob, KillUnknownJob, queueVars, registryVars
<1> QED
  BY <1>1, <1>2, Kill(j) DEF Kill, HandleClientKillJob

\* A message of an agent: the agent joins, a job is answered, or nothing.
LEMMA ReceiveServes ==
    ASSUME Base, InOnePlace', NEW a \in Agents, ReceiveFrom(a)
    PROVE  ServiceStep
<1> DEFINE m == Head(fromAgent[a])
<1> USE DEF queueVars, registryVars
<1>1. m \in AgentToBackend
  BY ReadAgent
<1>2. CASE HandleAgentHello(a)
  <2>1. UNCHANGED <<waitingJobs, jobRunning, answers>> /\ registeredAgents' = registeredAgents \cup {a}
    BY <1>2 DEF HandleAgentHello
  <2>2. \A j \in Jobs : StateOf(j)' = StateOf(j)
    BY <2>1 DEF StateOf, IsAnswered, IsRunning, IsWaiting
  <2>3. Service!Join(a)
    BY <2>1, <2>2 DEF Service!Join
  <2> QED
    BY <2>3 DEF ServiceStep, Service!ServiceNext
<1>3. CASE m.type = "done" /\ JobDoneByRegistered(a, m.job)
  <2>1. PICK j \in Jobs : j = m.job
    BY <1>1, <1>3 DEF AgentToBackend
  <2>2. /\ jobRunning[j] # NoAgent /\ jobRunning' = [jobRunning EXCEPT ![j] = NoAgent]
        /\ answers' = [answers EXCEPT ![j] = @ + 1]
        /\ UNCHANGED <<waitingJobs, registeredAgents>>
    BY <1>3, <2>1 DEF JobDoneByRegistered
  <2>3. /\ IsAnswered(j)' /\ IsRunning(j) /\ InOnePlace
        /\ \A k \in Jobs \ {j} : answers'[k] = answers[k] /\ jobRunning'[k] = jobRunning[k]
    BY <2>2 DEF Base, TypeOK, PlacesInv, IsAnswered, IsRunning
  <2>4. StateOf(j) = "running" /\ StateOf(j)' = "answered"
    BY <2>3, StateIs
  <2>5. \A k \in Jobs \ {j} : StateOf(k)' = StateOf(k)
    BY <2>2, <2>3, StateStays DEF IsWaiting, IsAnswered, IsRunning
  <2>6. Service!Answer(j)
    BY <2>2, <2>4, <2>5, MoveIs DEF Service!Answer
  <2> QED
    BY <2>6 DEF ServiceStep, Service!ServiceNext
<1>4. CASE \/ HandleAgentJobStarted(a, m.job) \/ HandleAgentJobSSHDebug(a, m.job)
           \/ JobDoneByUnregistered(a, m.job)
  BY <1>4, ServiceStutters
     DEF ServiceStep, HandleAgentJobStarted, HandleAgentJobSSHDebug, JobDoneByUnregistered
<1> QED
  BY ReceiveFrom(a), <1>2, <1>3, <1>4 DEF ReceiveFrom, HandleAgentJobDone

\* A job is assigned to an agent with a slot left that offers its environment.
LEMMA AssignServes ==
    ASSUME Base, SlotsAccountedFor, InOnePlace', NEW a \in Agents, AssignJob(a)
    PROVE  ServiceStep
<1>1. PICK i \in DOMAIN waitingJobs :
        FirstFor(i, a) /\ waitingJobs' = Without(i) /\ jobRunning' = [jobRunning EXCEPT ![waitingJobs[i]] = a]
  BY DEF AssignJob
<1>2. PICK j \in Jobs : j = waitingJobs[i] /\ IsWaiting(j)
  BY DEF Base, TypeOK, IsWaiting, Range
<1>3. availableAgents[a] > 0 /\ UNCHANGED <<registeredAgents, answers>>
  BY DEF AssignJob, registryVars
<1>4. Range(waitingJobs') = Range(waitingJobs) \ {j} /\ InOnePlace
  BY <1>1, <1>2, QueueDelete DEF Without, Base, TypeOK, PlacesInv, QueuedOnce
<1>5. /\ jobRunning'[j] = a /\ a # NoAgent /\ jobRunning[j] = NoAgent
      /\ \A k \in Jobs \ {j} : jobRunning'[k] = jobRunning[k]
  BY <1>1, <1>2, <1>4, Channels DEF Base, TypeOK, InOnePlace, IsRunning
<1>6. StateOf(j) = "queued" /\ StateOf(j)' = "running"
  BY <1>2, <1>4, <1>5, StateIs DEF IsRunning
<1>7. \A k \in Jobs \ {j} : StateOf(k)' = StateOf(k)
  BY <1>3, <1>4, <1>5, StateStays DEF IsWaiting, IsAnswered, IsRunning
<1>8. a \in registeredAgents /\ EnvOf[j] \in Offers[a]
  BY <1>1, <1>2, <1>3 DEF Base, PlacesInv, SlotsOfRegistered, AgreementInv, FirstFor, Suits
<1>9. Cardinality(JobsOn(a)) < Slots[a]
  <2>1. /\ availableAgents[a] + notFoundForAgent[a] + Cardinality(JobsOn(a)) = Slots[a]
        /\ availableAgents[a] \in Nat /\ notFoundForAgent[a] \in Nat /\ Slots[a] \in Nat
        /\ Cardinality(JobsOn(a)) \in Nat
    BY <1>8, JobsOnFinite, AgentsAssumption DEF SlotsAccountedFor, Base, TypeOK
  <2> QED
    BY <1>3, <2>1
<1>10. Service!Assign(j, a)
  BY <1>1, <1>2, <1>3, <1>6, <1>7, <1>8, <1>9, MoveIs DEF Service!Assign, JobsOn, Cardinality, Service!Cardinality
<1> QED
  BY <1>10 DEF ServiceStep, Service!ServiceNext

\* An agent is removed: it leaves, and its jobs are queued again.
LEMMA RemoveServes ==
    ASSUME Base, InOnePlace', NEW a \in Agents, RemoveAgent(a)
    PROVE  ServiceStep
<1>1. /\ jobRunning' = [j \in Jobs |-> IF jobRunning[j] = a THEN NoAgent ELSE jobRunning[j]]
      /\ registeredAgents' = registeredAgents \ {a} /\ UNCHANGED answers
  BY DEF RemoveAgent
<1>2. PICK order \in Bijection(1..Cardinality(JobsOn(a)), JobsOn(a)) : waitingJobs' = waitingJobs \o order
  BY DEF RemoveAgent
<1>3. /\ waitingJobs \in Seq(Jobs) /\ IsInjective(waitingJobs) /\ InOnePlace
      /\ jobRunning \in [Jobs -> Agents \cup {NoAgent}] /\ a # NoAgent
  BY Channels DEF Base, TypeOK, PlacesInv, QueuedOnce
<1>4. JobsOn(a) \cap Range(waitingJobs) = {}
  BY <1>3, JobsOnFinite DEF InOnePlace, IsWaiting, IsRunning
<1>5. Range(waitingJobs') = Range(waitingJobs) \cup JobsOn(a)
  <2> DEFINE T == JobsOn(a)
             n == Cardinality(T)
  <2>1. T \in SUBSET Jobs /\ n \in Nat /\ order \in Bijection(1..n, T) /\ T \cap Range(waitingJobs) = {}
    BY <1>4, JobsOnFinite
  <2> HIDE DEF T, n
  <2>2. Range(waitingJobs \o order) = Range(waitingJobs) \cup T
    BY <1>3, <2>1, QueueAppendAll
  <2> QED
    BY <1>2, <2>2 DEF T
<1>6. ASSUME NEW j \in Jobs
      PROVE  StateOf(j)' = IF jobRunning[j] = a THEN "queued" ELSE StateOf(j)
  <2>1. CASE jobRunning[j] = a
    <3>1. IsWaiting(j)'
      BY <1>5, <2>1, JobsOnFinite DEF IsWaiting
    <3> QED
      BY <2>1, <3>1, StateIs
  <2>2. CASE jobRunning[j] # a
    <3>1. (IsWaiting(j)' <=> IsWaiting(j)) /\ (IsAnswered(j)' <=> IsAnswered(j)) /\ (IsRunning(j)' <=> IsRunning(j))
      BY <1>1, <1>5, <2>2, JobsOnFinite DEF IsWaiting, IsAnswered, IsRunning
    <3> QED
      BY <1>3, <2>2, <3>1, StateStays
  <2> QED
    BY <2>1, <2>2
<1>7. CASE a \in registeredAgents
  <2>1. Service!Leave(a)
    BY <1>1, <1>6, <1>7 DEF Service!Leave
  <2> QED
    BY <2>1 DEF ServiceStep, Service!ServiceNext
<1>8. CASE a \notin registeredAgents
  <2>1. \A j \in Jobs : jobRunning[j] # a
    BY <1>3, <1>8 DEF Base, PlacesInv, RunningOnRegistered, IsRunning
  <2>2. jobRunning' = jobRunning /\ registeredAgents' = registeredAgents
    BY <1>1, <1>3, <1>8, <2>1
  <2> QED
    BY <1>6, <2>1, <2>2 DEF ServiceStep, Service!serviceVars
<1> QED
  BY <1>7, <1>8

\* The other steps change nothing in the service.
LEMMA OthersServe ==
    ASSUME \/ UNCHANGED vars
           \/ EndUpdateQueue \/ BeginPing \/ (\E a \in Agents : SetAside(a) \/ PingAgent(a))
           \/ (\E c \in Clients : Hello(c)) \/ (\E a \in Agents : ReceivePong(a) \/ AgentsStep(a))
    PROVE  ServiceStep
BY ServiceStutters
   DEF ServiceStep, vars, backendVars, EndUpdateQueue, BeginPing, SetAside, PingAgent, Hello,
       HandleClientHello, ReceivePong, HandlePong, AgentsStep, queueVars, registryVars

\* The backend implements the service: an answer comes from a running job or
\* from a killed waiting one, an assignment never exceeds the slots, a removal
\* takes all the jobs of the agent back at once.
THEOREM ServiceImplemented == Spec => ImplementsJobService
<1>1. Init => Service!ServiceInit
  <2> SUFFICES ASSUME Init PROVE Service!ServiceInit
    OBVIOUS
  <2>1. /\ waitingJobs = <<>> /\ jobRunning = [j \in Jobs |-> NoAgent] /\ answers = [j \in Jobs |-> 0]
        /\ registeredAgents = {}
    BY DEF Init, BackendInit
  <2>2. \A j \in Jobs : ~IsAnswered(j) /\ ~IsRunning(j) /\ ~IsWaiting(j)
    BY <2>1 DEF IsAnswered, IsRunning, IsWaiting, Range
  <2>3. \A j \in Jobs : StateOf(j) = "new"
    BY <2>2 DEF StateOf
  <2> QED
    BY <2>1, <2>3 DEF Service!ServiceInit
<1>2. /\ TypeOK /\ PlacesInv /\ AgreementInv /\ SlotsAccountedFor /\ PlacesInv' /\ [Next]_vars
      => [Service!ServiceNext]_(Service!serviceVars)
  <2> SUFFICES ASSUME Base, SlotsAccountedFor, PlacesInv', [Next]_vars PROVE ServiceStep
    BY DEF Base, ServiceStep
  <2>1. InOnePlace'
    BY DEF PlacesInv
  <2> QED
    BY <2>1, SubmitServes, KillServes, ReceiveServes, AssignServes, RemoveServes, OthersServe
       DEF Next, BackendStep, UpdateQueue, DoPing
<1> QED
  BY <1>1, <1>2, TypeCorrect, PlacesInvariant, AgreementInvariant, SlotsBalance, PTL
     DEF Spec, ImplementsJobService, Service!ServiceSpec
=============================================================================
