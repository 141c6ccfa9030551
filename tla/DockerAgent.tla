---------------------------- MODULE DockerAgent ----------------------------
(***************************************************************************)
(* The docker agent (agent/docker_agent.py): it runs each job it is sent   *)
(* in a grading container, starts the student containers this one asks     *)
(* for, listens to docker's events, and sends one result for each job.     *)
(*                                                                         *)
(* The agent is one asyncio loop.  A handler runs from one await of a      *)
(* thread, of docker or of a container to the next in one step; the        *)
(* variables task, request, talk and closing say where the handlers of     *)
(* each container are.                                                     *)
(***************************************************************************)
EXTENDS KillerWatchers

CONSTANTS
    Self,       \* the address of this agent
    Ports,      \* ssh_ports at the start
    NoPort,     \* no port
    Faults,     \* the failures that may happen and that no handler expects
    MaxKills    \* bound: BackendKillJob sent

\* "prepare": making or copying the directories of a job fails;
\* "cleanup": removing them fails after docker refused the container;
\* "attach": talking to a grading container fails before it is told to start;
\* "delete": removing the directories of an ended job fails, and not because
\*           of permissions.
ASSUME DockerAgentAssumption ==
    /\ Self \in Dockers
    /\ NoPort \notin Ports
    /\ Faults \subseteq {"prepare", "cleanup", "attach", "delete"}
    /\ MaxKills \in Nat

VARIABLES
    phase,              \* "off", then "up"
    given,              \* jobs the backend has sent
    kills,              \* BackendKillJob sent
    task,               \* handle_new_job of each job
    port,               \* its ssh_port
    running,            \* _containers_running and _student_containers_running
    ending,             \* _containers_ending and _student_containers_ending
    containerForJob,    \* keys of _container_for_job
    studentsFor,        \* keys of _student_containers_for_job
    students,           \* members of the values of _student_containers_for_job
    killed,             \* _containers_killed
    sshPorts,           \* ssh_ports
    debugPort,          \* running_ssh_debug
    talk,               \* handle_running_container of each job
    future,             \* future_results of each job
    closing,            \* handle_job_closing_p2 of each job
    verdict,            \* what each container is reported to have ended with
    loop,               \* the container whose kill run_dealer waits for, in a set
    request,            \* create_student_container of each student container
    replies             \* run_student_retval sent for each

ownPorts == <<sshPorts, debugPort>>
dicts == <<running, ending, containerForJob, studentsFor, students, killed>>
jobs == <<task, port>>
talks == <<talk, future>>
closings == <<closing, verdict>>
studentTasks == <<request, replies>>
environment == <<phase, given, kills>>
vars == <<channels, dockerVars, pipeline, environment, jobs, dicts, ownPorts, talks, closings, loop, studentTasks>>

-----------------------------------------------------------------------------
Init ==
    /\ ChannelsInit /\ DockerInit /\ WatchersInit
    /\ phase = "off" /\ given = {} /\ kills = 0
    /\ task = [j \in Jobs |-> "none"]
    /\ port = [j \in Jobs |-> NoPort]
    /\ running = {} /\ ending = {} /\ containerForJob = {}
    /\ studentsFor = {} /\ students = {}
    /\ killed = [c \in Containers |-> "none"]
    /\ sshPorts = Ports
    /\ debugPort = [j \in Jobs |-> NoPort]
    /\ talk = [j \in Jobs |-> "no"]
    /\ future = [j \in Jobs |-> "pending"]
    /\ closing = [j \in Jobs |-> "no"]
    /\ verdict = [c \in Containers |-> "none"]
    /\ loop = {}
    /\ request = [s \in Students |-> "none"]
    /\ replies = [s \in Students |-> 0]

Children(j) == {s \in Students : Parent[s] = j}

\* A port that is taken back; NoPort is none.
Returned(p) == sshPorts \cup ({p} \ {NoPort})

\* send_job_result
SendJobResult(j) == SendToBackend(Self, Message("done", j))

-----------------------------------------------------------------------------
(* The backend, and what comes from it.                                     *)

SendNewJob(j) ==
    /\ j \notin given
    /\ given' = given \cup {j}
    /\ SendToAgent(Self, Message("new_job", j))
    /\ UNCHANGED <<fromAgent, dockerVars, pipeline, phase, kills, jobs, dicts, ownPorts, talks, closings, loop, studentTasks>>

SendKillJob(j) ==
    /\ j \in given /\ kills < MaxKills
    /\ kills' = kills + 1
    /\ SendToAgent(Self, Message("kill_job", j))
    /\ UNCHANGED <<fromAgent, dockerVars, pipeline, phase, given, jobs, dicts, ownPorts, talks, closings, loop, studentTasks>>

\* run_dealer
Start ==
    /\ phase = "off"
    /\ phase' = "up"
    /\ SendToBackend(Self, Message("hello", NoJob))
    /\ UNCHANGED <<toAgent, dockerVars, pipeline, given, kills, jobs, dicts, ownPorts, talks, closings, loop, studentTasks>>

\* run_dealer reads the next message of the backend.
Receive(type, j) ==
    /\ phase = "up" /\ loop = {}
    /\ toAgent[Self] # <<>> /\ Head(toAgent[Self]) = Message(type, j)
    /\ toAgent' = [toAgent EXCEPT ![Self] = Tail(@)]

\* A task is created for handle_new_job.
ReceiveNewJob(j) ==
    /\ Receive("new_job", j)
    /\ task' = [task EXCEPT ![j] = "received"]
    /\ UNCHANGED <<fromAgent, dockerVars, pipeline, environment, port, dicts, ownPorts, talks, closings, loop, studentTasks>>

\* Mutant of RefuseJob: the handler goes on.
RefuseAndGoOn(j) ==
    /\ task[j] = "received"
    /\ SendJobResult(j)
    /\ task' = [task EXCEPT ![j] = "preparing"]
    /\ UNCHANGED <<toAgent, dockerVars, pipeline, environment, port, dicts, ownPorts, talks, closings, loop, studentTasks>>

\* handle_new_job: the task or its environment is not there, it asks for too
\* much memory, no port is left or no directory can be made.
RefuseJob(j) ==
    /\ task[j] = "received"
    /\ SendJobResult(j)
    /\ task' = [task EXCEPT ![j] = "over"]
    /\ UNCHANGED <<toAgent, dockerVars, pipeline, environment, port, dicts, ownPorts, talks, closings, loop, studentTasks>>

\* Mutant of AcceptJob: the port stays among the free ones.
AcceptSharingPort(j) ==
    /\ task[j] = "received"
    /\ task' = [task EXCEPT ![j] = "preparing"]
    /\ \E p \in IF j \in DebugJobs THEN sshPorts ELSE {NoPort} : port' = [port EXCEPT ![j] = p]
    /\ UNCHANGED <<channels, dockerVars, pipeline, environment, dicts, ownPorts, talks, closings, loop, studentTasks>>

\* handle_new_job until docker is asked to create the container
AcceptJob(j) ==
    /\ task[j] = "received"
    /\ task' = [task EXCEPT ![j] = "preparing"]
    /\ \E p \in IF j \in DebugJobs THEN sshPorts ELSE {NoPort} :
         /\ port' = [port EXCEPT ![j] = p]
         /\ sshPorts' = sshPorts \ {p}
    /\ UNCHANGED <<channels, dockerVars, pipeline, environment, dicts, debugPort, talks, closings, loop, studentTasks>>

\* handle_kill_job
HandleKillJob(j) ==
    /\ Receive("kill_job", j)
    /\ IF j \in containerForJob
       THEN killed' = [killed EXCEPT ![j] = "killed"] /\ killCalls' = killCalls \cup {j}
       ELSE UNCHANGED <<killed, killCalls>>
    /\ UNCHANGED <<fromAgent, daemon, closeCalls, pipeline, environment, jobs, ownPorts, talks, closings, loop, studentTasks>>
    /\ UNCHANGED <<running, ending, containerForJob, studentsFor, students>>

-----------------------------------------------------------------------------
(* handle_new_job goes on.                                                  *)

\* An exception outside of its inner try statements ends the handler.
PrepareFails(j) ==
    /\ "prepare" \in Faults
    /\ task[j] = "preparing"
    /\ task' = [task EXCEPT ![j] = "failed"]
    /\ UNCHANGED <<channels, dockerVars, pipeline, environment, port, dicts, ownPorts, talks, closings, loop, studentTasks>>

CreateFails(j) ==
    /\ task[j] = "preparing"
    /\ SendJobResult(j)
    /\ task' = [task EXCEPT ![j] = "refused"]
    /\ UNCHANGED <<toAgent, dockerVars, pipeline, environment, port, dicts, ownPorts, talks, closings, loop, studentTasks>>

Created(j) ==
    /\ task[j] = "preparing"
    /\ Becomes(j, "created")
    /\ task' = [task EXCEPT ![j] = "starting"]
    /\ running' = running \cup {j}
    /\ containerForJob' = containerForJob \cup {j}
    /\ studentsFor' = studentsFor \cup {j}
    /\ debugPort' = [debugPort EXCEPT ![j] = port[j]]
    /\ UNCHANGED <<channels, events, died, killCalls, closeCalls, pipeline, environment, port>>
    /\ UNCHANGED <<ending, students, killed, sshPorts, talks, closings, loop, studentTasks>>

\* Docker starts a container that it has been asked to start.
Starting(c) == IF c \in Jobs THEN task[c] = "starting" ELSE request[c] = "starting"

DockerStarts(c) ==
    /\ Starting(c) /\ docker[c] = "created"
    /\ Becomes(c, "up")
    /\ UNCHANGED <<channels, events, died, killCalls, closeCalls, pipeline, environment, jobs, dicts>>
    /\ UNCHANGED <<ownPorts, talks, closings, loop, studentTasks>>

\* The call fails, and the container is not started.
StartMayFail(c) == Starting(c) /\ docker[c] = "created"

StartFails(j) ==
    /\ StartMayFail(j)
    /\ SendJobResult(j)
    /\ task' = [task EXCEPT ![j] = "refused"]
    /\ UNCHANGED <<toAgent, dockerVars, pipeline, environment, port, dicts, ownPorts, talks, closings, loop, studentTasks>>

\* The container has started, and may have ended.
Started(j) ==
    /\ Starting(j) /\ docker[j] # "created"
    /\ task' = [task EXCEPT ![j] = "over"]
    /\ talk' = [talk EXCEPT ![j] = "attaching"]
    /\ Push(j, "register")
    /\ SendToBackend(Self, Message("started", j))
    /\ UNCHANGED <<toAgent, dockerVars, checked, watching, hadError, environment, port, dicts>>
    /\ UNCHANGED <<ownPorts, future, closings, loop, studentTasks>>

\* After a refusal of docker the directories are removed and the port given
\* back.  When the directories cannot be removed, an exception skips the rest.
CleanUp(j) ==
    /\ task[j] = "refused"
    /\ \/ sshPorts' = Returned(port[j]) /\ task' = [task EXCEPT ![j] = "over"]
       \/ "cleanup" \in Faults /\ task' = [task EXCEPT ![j] = "failed"] /\ UNCHANGED sshPorts
    /\ UNCHANGED <<channels, dockerVars, pipeline, environment, port, dicts, debugPort, talks, closings, loop, studentTasks>>

-----------------------------------------------------------------------------
(* handle_running_container talks with the grading container of a job.      *)

TalkUnchanged == UNCHANGED <<toAgent, dockerVars, pipeline, environment, jobs, dicts, ownPorts, closings, loop>>

Attach(j) ==
    /\ talk[j] = "attaching" /\ docker[j] # "removed"
    /\ talk' = [talk EXCEPT ![j] = "talking"]
    /\ TalkUnchanged
    /\ UNCHANGED <<fromAgent, future, studentTasks>>

\* Nobody will set future_results.
AttachFails(j) ==
    /\ talk[j] = "attaching" /\ (docker[j] = "removed" \/ "attach" \in Faults)
    /\ talk' = [talk EXCEPT ![j] = "over"]
    /\ TalkUnchanged
    /\ UNCHANGED <<fromAgent, future, studentTasks>>

EndTalk(j, result) ==
    /\ talk[j] = "talking"
    /\ talk' = [talk EXCEPT ![j] = "over"]
    /\ future' = [future EXCEPT ![j] = result]
    /\ TalkUnchanged
    /\ UNCHANGED <<fromAgent, studentTasks>>

\* The last message of a container, or one that makes no sense
ReadResult(j) == EndTalk(j, "result")
ReadGarbage(j) == EndTalk(j, "nothing")

\* Mutant of ReadEOF: future_results is not set.
ReadEOFUnset(j) ==
    /\ docker[j] # "up" /\ talk[j] = "talking"
    /\ talk' = [talk EXCEPT ![j] = "over"]
    /\ TalkUnchanged
    /\ UNCHANGED <<fromAgent, future, studentTasks>>

\* The output of a container ends with the container.
ReadEOF(j) == docker[j] # "up" /\ EndTalk(j, "nothing")

ReadSshKey(j) ==
    /\ talk[j] = "talking"
    /\ debugPort[j] # NoPort
    /\ \A k \in DOMAIN fromAgent[Self] : fromAgent[Self][k] # Message("ssh_debug", j)
    /\ SendToBackend(Self, Message("ssh_debug", j))
    /\ TalkUnchanged
    /\ UNCHANGED <<talks, studentTasks>>

\* The grading container asks for a student container.
ReadRunStudent(s) ==
    /\ talk[Parent[s]] = "talking"
    /\ request[s] = "none"
    /\ request' = [request EXCEPT ![s] = "creating"]
    /\ TalkUnchanged
    /\ UNCHANGED <<fromAgent, talks, replies>>

-----------------------------------------------------------------------------
(* create_student_container                                                 *)

Listening(s) == talk[Parent[s]] = "talking"

\* run_student_retval; once the conversation is over, writing raises.
Reply(s) == replies' = IF Listening(s) THEN [replies EXCEPT ![s] = @ + 1] ELSE replies

\* The environment is unknown, or docker cannot create the container.
RefuseStudent(s) ==
    /\ request[s] = "creating"
    /\ request' = [request EXCEPT ![s] = "over"]
    /\ Reply(s)
    /\ UNCHANGED <<channels, dockerVars, pipeline, environment, jobs, dicts, ownPorts, talks, closings, loop>>

\* If the job has ended meanwhile, an exception ends the handler here, or
\* when it writes that the container is starting.
CreateStudent(s) ==
    /\ request[s] = "creating"
    /\ Becomes(s, "created")
    /\ IF Parent[s] \in studentsFor
       THEN students' = students \cup {s} /\ running' = running \cup {s}
       ELSE UNCHANGED <<students, running>>
    /\ request' = [request EXCEPT ![s] =
                     IF Parent[s] \in studentsFor /\ Listening(s) THEN "starting" ELSE "over"]
    /\ UNCHANGED <<channels, events, died, killCalls, closeCalls, pipeline, environment, jobs>>
    /\ UNCHANGED <<ending, containerForJob, studentsFor, killed, ownPorts, talks, closings, loop, replies>>

\* Mutant of StudentStartFails: the grading container is not told.
StudentStartFailsSilently(s) ==
    /\ StartMayFail(s)
    /\ request' = [request EXCEPT ![s] = "over"]
    /\ UNCHANGED <<channels, dockerVars, pipeline, environment, jobs, dicts, ownPorts, talks, closings, loop, replies>>

StudentStartFails(s) ==
    /\ StartMayFail(s)
    /\ request' = [request EXCEPT ![s] = "over"]
    /\ Reply(s)
    /\ UNCHANGED <<channels, dockerVars, pipeline, environment, jobs, dicts, ownPorts, talks, closings, loop>>

\* Mutant of StudentStarted: the killer pipeline does not hear of it.
StudentUnwatched(s) ==
    /\ Starting(s) /\ docker[s] # "created"
    /\ request' = [request EXCEPT ![s] = "over"]
    /\ UNCHANGED <<channels, dockerVars, pipeline, environment, jobs, dicts, ownPorts, talks, closings, loop, replies>>

StudentStarted(s) ==
    /\ Starting(s) /\ docker[s] # "created"
    /\ request' = [request EXCEPT ![s] = "over"]
    /\ Push(s, "register")
    /\ UNCHANGED <<channels, dockerVars, checked, watching, hadError, environment, jobs, dicts>>
    /\ UNCHANGED <<ownPorts, talks, closings, loop, replies>>

-----------------------------------------------------------------------------
(* handle_docker_event.  Deaths of containers that are not, or no more, in  *)
(* the dictionaries of running containers are ignored; those of the model    *)
(* die once, and are there.                                                  *)

ReadEvent(c, event) ==
    /\ loop = {}
    /\ events[c] # <<>> /\ Head(events[c]) = event
    /\ events' = [events EXCEPT ![c] = Tail(@)]

\* run_dealer itself waits for the kill.
HandleOOM(c) ==
    /\ ReadEvent(c, "oom")
    /\ IF c \in running
       THEN /\ killed' = [killed EXCEPT ![c] = "overflow"]
            /\ killCalls' = killCalls \cup {c}
            /\ loop' = {c}
       ELSE UNCHANGED <<killed, killCalls, loop>>
    /\ UNCHANGED <<channels, docker, died, closeCalls, pipeline, environment, jobs, ownPorts, talks, closings, studentTasks>>
    /\ UNCHANGED <<running, ending, containerForJob, studentsFor, students>>

\* Mutant of JobClosingP1: the container stays among those that run.
JobClosingKept(j) ==
    /\ ReadEvent(j, "die") /\ j \in running
    /\ ending' = ending \cup {j}
    /\ closeCalls' = closeCalls \cup (students \cap Children(j))
    /\ students' = students \ Children(j)
    /\ studentsFor' = studentsFor \ {j}
    /\ sshPorts' = Returned(debugPort[j])
    /\ debugPort' = [debugPort EXCEPT ![j] = NoPort]
    /\ Push(j, killed[j])
    /\ UNCHANGED <<channels, docker, died, killCalls, checked, watching, hadError, environment, jobs>>
    /\ UNCHANGED <<running, containerForJob, killed, talks, closings, loop, studentTasks>>

\* handle_job_closing_p1
JobClosingP1(j) ==
    /\ ReadEvent(j, "die") /\ j \in running
    /\ running' = running \ {j}
    /\ ending' = ending \cup {j}
    /\ closeCalls' = closeCalls \cup (students \cap Children(j))
    /\ students' = students \ Children(j)
    /\ studentsFor' = studentsFor \ {j}
    /\ sshPorts' = Returned(debugPort[j])
    /\ debugPort' = [debugPort EXCEPT ![j] = NoPort]
    /\ Push(j, killed[j])
    /\ UNCHANGED <<channels, docker, died, killCalls, checked, watching, hadError, environment, jobs>>
    /\ UNCHANGED <<containerForJob, killed, talks, closings, loop, studentTasks>>

\* handle_student_job_closing_p1
StudentClosingP1(s) ==
    /\ ReadEvent(s, "die") /\ s \in running
    /\ running' = running \ {s}
    /\ students' = students \ {s}
    /\ ending' = ending \cup {s}
    /\ Push(s, killed[s])
    /\ UNCHANGED <<channels, docker, died, killCalls, closeCalls, checked, watching, hadError, environment, jobs>>
    /\ UNCHANGED <<containerForJob, studentsFor, killed, ownPorts, talks, closings, loop, studentTasks>>

-----------------------------------------------------------------------------
(* handle_kwp_killed_status                                                 *)

ReadStatus(c, result) ==
    /\ loop = {}
    /\ c \in ending
    /\ [container |-> c, result |-> result] \in checked
    /\ checked' = checked \ {[container |-> c, result |-> result]}
    /\ ending' = ending \ {c}

\* handle_job_closing_p2 until it waits for the result or the directories.
\* An exit code that could not be read is a crash.
JobClosingP2(j) ==
    /\ \E result \in Killings, readable \in BOOLEAN :
         /\ ReadStatus(j, result)
         /\ verdict' = [verdict EXCEPT ![j] = IF result = "none" /\ ~readable THEN "crash" ELSE result]
         /\ closing' = [closing EXCEPT ![j] =
                          IF result = "none" /\ readable THEN "waiting" ELSE "deleting"]
    /\ UNCHANGED <<channels, dockerVars, pipe, watching, hadError, environment, jobs, ownPorts, talks, loop, studentTasks>>
    /\ UNCHANGED <<running, containerForJob, studentsFor, students, killed>>

\* The result of the container, which may be badly formatted
TakeResult(j) ==
    /\ closing[j] = "waiting" /\ future[j] # "pending"
    /\ \E v \in {"crash"} \cup (IF future[j] = "result" THEN {"own"} ELSE {}) :
         verdict' = [verdict EXCEPT ![j] = v]
    /\ closing' = [closing EXCEPT ![j] = "deleting"]
    /\ UNCHANGED <<channels, dockerVars, pipeline, environment, jobs, dicts, ownPorts, talks, loop, studentTasks>>

\* Mutant of SendResult: what was killed is not forgotten.
SendResultRemembering(j) ==
    /\ closing[j] = "deleting"
    /\ closing' = [closing EXCEPT ![j] = "over"]
    /\ Becomes(j, "removed")
    /\ SendJobResult(j)
    /\ containerForJob' = containerForJob \ {j}
    /\ UNCHANGED <<toAgent, events, died, killCalls, closeCalls, pipeline, environment, task, port>>
    /\ UNCHANGED <<running, ending, studentsFor, students, killed, ownPorts, talks, verdict, loop, studentTasks>>

\* handle_job_closing_p2 to its end; directories that cannot be removed for
\* lack of permission stay.
SendResult(j) ==
    /\ closing[j] = "deleting"
    /\ closing' = [closing EXCEPT ![j] = "over"]
    /\ Becomes(j, "removed")
    /\ SendJobResult(j)
    /\ containerForJob' = containerForJob \ {j}
    /\ killed' = [killed EXCEPT ![j] = "none"]
    /\ UNCHANGED <<toAgent, events, died, killCalls, closeCalls, pipeline, environment, task, port>>
    /\ UNCHANGED <<running, ending, studentsFor, students, ownPorts, talks, verdict, loop, studentTasks>>

\* Any other exception skips the rest.
DeleteFails(j) ==
    /\ closing[j] = "deleting"
    /\ closing' = [closing EXCEPT ![j] = "over"]
    /\ Becomes(j, "removed")
    /\ "delete" \in Faults
    /\ UNCHANGED <<channels, events, died, killCalls, closeCalls, pipeline, environment, jobs, dicts>>
    /\ UNCHANGED <<ownPorts, talks, verdict, loop, studentTasks>>

\* handle_student_job_closing_p2
StudentClosingP2(s) ==
    /\ \E result \in Killings :
         /\ ReadStatus(s, result)
         /\ verdict' = [verdict EXCEPT ![s] = IF result = "none" THEN "own" ELSE result]
    /\ Reply(s)
    /\ Becomes(s, "removed")
    /\ UNCHANGED <<channels, events, died, killCalls, closeCalls, pipe, watching, hadError, environment, jobs>>
    /\ UNCHANGED <<running, containerForJob, studentsFor, students, killed, ownPorts, talks, closing, loop, request>>

-----------------------------------------------------------------------------
agentState == <<channels, environment, jobs, dicts, ownPorts, talks, closings, studentTasks>>

\* The kill that run_dealer waits for ends.
KillContainer(c) == RunKill(c) /\ loop' = loop \ {c} /\ UNCHANGED <<pipeline, agentState>>

CloseContainer(s) == RunClose(s) /\ UNCHANGED <<pipeline, loop, agentState>>

Watch(c) == WatcherStep(c) /\ UNCHANGED <<loop, agentState>>

TimeOut(c) == KillItWithFire(c) /\ UNCHANGED <<loop, agentState>>

EndContainer(c) == EndByItself(c) /\ UNCHANGED <<pipeline, loop, agentState>>

ExhaustMemory(c) == OutOfMemory(c) /\ UNCHANGED <<pipeline, loop, agentState>>

ReadBackend(j) == ReceiveNewJob(j) \/ HandleKillJob(j)

NewJobStep(j) ==
    \/ RefuseJob(j) \/ AcceptJob(j)
    \/ CreateFails(j) \/ Created(j) \/ StartFails(j) \/ Started(j) \/ CleanUp(j)

ClosingStep(j) == JobClosingP1(j) \/ JobClosingP2(j) \/ TakeResult(j) \/ SendResult(j) \/ DeleteFails(j)

StudentStep(s) ==
    \/ RefuseStudent(s) \/ CreateStudent(s) \/ StudentStartFails(s) \/ StudentStarted(s)
    \/ StudentClosingP1(s) \/ StudentClosingP2(s)

ContainerStep(c) ==
    \/ DockerStarts(c) \/ KillContainer(c) \/ Watch(c) \/ TimeOut(c)
    \/ HandleOOM(c)

Next ==
    \/ Start
    \/ \E j \in Jobs :
         \/ SendNewJob(j) \/ SendKillJob(j)
         \/ ReadBackend(j) \/ NewJobStep(j) \/ PrepareFails(j)
         \/ Attach(j) \/ AttachFails(j)
         \/ ReadResult(j) \/ ReadGarbage(j) \/ ReadEOF(j) \/ ReadSshKey(j)
         \/ ClosingStep(j)
    \/ \E s \in Students : ReadRunStudent(s) \/ StudentStep(s) \/ CloseContainer(s)
    \/ \E c \in Containers : ContainerStep(c) \/ EndContainer(c) \/ ExhaustMemory(c)

Spec == Init /\ [][Next]_vars

-----------------------------------------------------------------------------
TypeOK ==
    /\ ChannelsTypeOK /\ DockerTypeOK /\ WatchersTypeOK
    /\ phase \in {"off", "up"} /\ given \subseteq Jobs /\ kills \in 0..MaxKills
    /\ task \in [Jobs -> {"none", "received", "preparing", "starting", "refused", "over", "failed"}]
    /\ port \in [Jobs -> Ports \cup {NoPort}]
    /\ running \subseteq Containers /\ ending \subseteq Containers \ running
    /\ containerForJob \subseteq Jobs /\ studentsFor \subseteq containerForJob
    /\ students \subseteq Students
    /\ killed \in [Containers -> {"none", "killed", "overflow"}]
    /\ sshPorts \subseteq Ports
    /\ debugPort \in [Jobs -> Ports \cup {NoPort}]
    /\ talk \in [Jobs -> {"no", "attaching", "talking", "over"}]
    /\ future \in [Jobs -> {"pending", "result", "nothing"}]
    /\ closing \in [Jobs -> {"no", "waiting", "deleting", "over"}]
    /\ verdict \in [Containers -> Killings \cup {"crash", "own"}]
    /\ loop \in {{}} \cup {{c} : c \in killCalls}
    /\ request \in [Students -> {"none", "creating", "starting", "over"}]
    /\ replies \in [Students -> 0..2]

\* The agent has sent a message of this type about the job.
Sent(type, j) == \E k \in DOMAIN fromAgent[Self] : fromAgent[Self][k] = Message(type, j)

\* The agent does what Dispatch and JobSystem assume of one: in particular,
\* one result for each job, whatever its handlers, docker's events and the
\* kills do in which order, and no ssh key after the result.
Received == {j \in Jobs : task[j] # "none"}

AllNotices(j) == {Message("started", j)} \cup (IF j \in DebugJobs THEN {Message("ssh_debug", j)} ELSE {})

C == INSTANCE AgentContract WITH
    phase <- [a \in Agents |-> IF a = Self THEN phase ELSE "off"],
    held <- [a \in Agents |-> IF a = Self THEN {j \in Received : ~Sent("done", j)} ELSE {}],
    notices <- [a \in Agents |->
                  IF a = Self THEN {n \in UNION {AllNotices(j) : j \in Received} : ~Sent(n.type, n.job)} ELSE {}]

ImplementsContract == C!Contract

\* The port p belongs to the job j: to its handler, even if an exception has
\* ended it, then to its container until this one has ended.
Holds(j, p) ==
    /\ port[j] = p
    /\ \/ task[j] \in {"preparing", "refused", "failed"}
       \/ debugPort[j] = p /\ (task[j] = "starting" \/ talk[j] # "no")

\* Each ssh port is free or belongs to one job, and no container runs with a
\* port that is free or belongs to another: a port cannot be given twice, and
\* comes back on every path but those of exceptions that no handler expects.
PortsAccountedFor ==
    /\ \A p \in Ports : Cardinality({j \in Jobs : Holds(j, p)}) = IF p \in sshPorts THEN 0 ELSE 1
    /\ \A j \in Jobs : docker[j] = "up" /\ port[j] # NoPort => Holds(j, port[j])

\* What ended because the agent killed it (for a user, a timeout or a lack of
\* memory) is reported so, and never with a result of its own, although the
\* kill, the death and the status go through a thread, docker and a pipeline.
KillsAreReported == \A c \in Containers : verdict[c] = "own" => died[c] # "killed"

\* Once a job is answered nothing is left of it in the dictionaries, so that
\* a late kill finds nothing; docker's refusal to start leaves it running.
ForgottenOnceAnswered ==
    \A j \in Jobs : Sent("done", j) /\ j \notin running => killed[j] = "none" /\ j \notin containerForJob

\* A grading container that runs and is listened to gets a return value for
\* each student container it asks for, or this one exists and still may give
\* it, whichever of the steps of its creation has failed; and never two.
StudentReplied ==
    \A s \in Students :
        /\ replies[s] <= 1
        /\ request[s] = "over" /\ Listening(s) /\ docker[Parent[s]] = "up" =>
             replies[s] = 1 \/ docker[s] \in {"up", "down"}

-----------------------------------------------------------------------------
(* Fairness.  The loop goes on and gets the events and answers of docker,   *)
(* threads end, and time limits are reached.  That a container ends by      *)
(* itself, gives a result or lacks memory is left to chance.                *)
Fairness ==
    /\ WF_vars(Start)
    /\ \A j \in Jobs :
         /\ WF_vars(ReadBackend(j)) /\ WF_vars(NewJobStep(j))
         /\ WF_vars(Attach(j) \/ AttachFails(j)) /\ WF_vars(ReadEOF(j))
         /\ WF_vars(ClosingStep(j))
    /\ \A s \in Students : WF_vars(StudentStep(s)) /\ WF_vars(CloseContainer(s))
    /\ \A c \in Containers : WF_vars(ContainerStep(c))

FairSpec == Spec /\ Fairness

\* A result is sent for each job, whatever its container does.
EveryJobAnswered == \A j \in Jobs : j \in given ~> Sent("done", j)

\* A student container that is up is removed in the end, even if its parent
\* has ended before.
StudentsRemoved == \A s \in Students : docker[s] = "up" ~> docker[s] = "removed"
=============================================================================
