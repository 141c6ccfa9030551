------------------------------- MODULE Agents -------------------------------
(***************************************************************************)
(* What the backend may count on from an agent, whatever its kind (the     *)
(* docker agent of agent/docker_agent.py, the MCQ agent of                 *)
(* agent/mcq_agent.py): it says hello once, runs the jobs it is sent, and  *)
(* sends one result for each.  An agent may die at any time; what it sent  *)
(* before may still arrive.                                                *)
(***************************************************************************)
EXTENDS Platform

VARIABLES
    phase,      \* "off" before the agent's start, then "up", then "dead"
    held,       \* jobs the agent has received and not answered yet
    notices     \* AgentJobStarted and AgentJobSSHDebug it may still send

agentVars == <<phase, held, notices>>

Phases == {"off", "up", "dead"}

Notices == [type : {"started", "ssh_debug"}, job : Jobs]

AgentsTypeOK ==
    /\ phase \in [Agents -> Phases]
    /\ held \in [Agents -> SUBSET Jobs]
    /\ notices \in [Agents -> SUBSET Notices]

AgentsInit ==
    /\ phase = [a \in Agents |-> "off"]
    /\ held = [a \in Agents |-> {}]
    /\ notices = [a \in Agents |-> {}]

\* An MCQ agent only ever sends results.
NoticesFor(a, j) ==
    {n \in Notices : a \in Dockers /\ n.job = j /\ (n.type = "ssh_debug" => j \in DebugJobs)}

-----------------------------------------------------------------------------
\* run_dealer: the agent connects and says hello, once.
AgentStart(a) ==
    /\ phase[a] = "off"
    /\ phase' = [phase EXCEPT ![a] = "up"]
    /\ SendToBackend(a, Message("hello", NoJob))
    /\ UNCHANGED <<held, notices, toAgent>>

\* handle_new_job: the job is taken, however many the agent runs already.
AgentReceiveJob(a) ==
    /\ phase[a] = "up"
    /\ toAgent[a] # <<>> /\ Head(toAgent[a]).type = "new_job"
    /\ toAgent' = [toAgent EXCEPT ![a] = Tail(@)]
    /\ LET j == Head(toAgent[a]).job IN
         /\ held' = [held EXCEPT ![a] = @ \cup {j}]
         /\ notices' = [notices EXCEPT ![a] = @ \cup NoticesFor(a, j)]
    /\ UNCHANGED <<phase, fromAgent>>

\* Mutant of AgentReceiveKill: the job ends without a result.
AgentDropKilled(a) ==
    /\ phase[a] = "up"
    /\ toAgent[a] # <<>> /\ Head(toAgent[a]).type = "kill_job"
    /\ toAgent' = [toAgent EXCEPT ![a] = Tail(@)]
    /\ held' = [held EXCEPT ![a] = @ \ {Head(toAgent[a]).job}]
    /\ UNCHANGED <<phase, notices, fromAgent>>

\* handle_kill_job: a job is killed to be answered sooner, if it is at all
\* (the MCQ agent ignores the message).
AgentReceiveKill(a) ==
    /\ phase[a] = "up"
    /\ toAgent[a] # <<>> /\ Head(toAgent[a]).type = "kill_job"
    /\ toAgent' = [toAgent EXCEPT ![a] = Tail(@)]
    /\ UNCHANGED <<phase, held, notices, fromAgent>>

\* The docker agent says that a job has started when docker's start returns
\* to handle_new_job; the job may have been killed and answered before that.
\* The key of a remote debug session comes from the running container.
AgentNotify(a, n) ==
    /\ phase[a] = "up"
    /\ n \in notices[a]
    /\ n.type = "ssh_debug" => n.job \in held[a]
    /\ SendToBackend(a, n)
    /\ notices' = [notices EXCEPT ![a] = @ \ {n}]
    /\ UNCHANGED <<phase, held, toAgent>>

\* send_job_result
AgentAnswer(a, j) ==
    /\ phase[a] = "up"
    /\ j \in held[a]
    /\ SendToBackend(a, Message("done", j))
    /\ held' = [held EXCEPT ![a] = @ \ {j}]
    /\ UNCHANGED <<phase, notices, toAgent>>

\* The process or its machine dies: nothing more is sent, and what was sent
\* to it is lost.
AgentCrash(a) ==
    /\ phase[a] = "up"
    /\ phase' = [phase EXCEPT ![a] = "dead"]
    /\ held' = [held EXCEPT ![a] = {}]
    /\ notices' = [notices EXCEPT ![a] = {}]
    /\ toAgent' = [toAgent EXCEPT ![a] = <<>>]
    /\ UNCHANGED fromAgent

AgentReceive(a) == AgentReceiveJob(a) \/ AgentReceiveKill(a)

AgentStep(a) ==
    \/ AgentStart(a)
    \/ AgentReceive(a)
    \/ \E n \in notices[a] : AgentNotify(a, n)
    \/ \E j \in held[a] : AgentAnswer(a, j)
    \/ AgentCrash(a)
=============================================================================
