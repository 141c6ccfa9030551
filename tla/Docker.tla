------------------------------- MODULE Docker -------------------------------
(***************************************************************************)
(* The docker daemon as the docker agent uses it (the calls are those of   *)
(* agent/_docker_interface.py): containers, the events the agent listens   *)
(* to, and the calls that run in threads of their own.                     *)
(*                                                                         *)
(* The agent creates one grading container for each job it runs; it is     *)
(* given the name of the job.  Grading containers may ask for student      *)
(* containers, the members of Students.                                    *)
(***************************************************************************)
EXTENDS Platform

CONSTANTS
    Students,   \* student containers that may be asked for
    Parent      \* the job whose grading container asks for each of them

ASSUME StudentsAssumption == Students \cap Jobs = {} /\ Parent \in [Students -> Jobs]

Containers == Jobs \cup Students

VARIABLES
    docker,     \* state of each container
    events,     \* events of each container, not yet read by the agent
    died,       \* history: why each container ended
    killCalls,  \* containers a thread is about to kill
    closeCalls  \* student containers a thread is about to kill and remove

daemon == <<docker, events, died>>
dockerVars == <<daemon, killCalls, closeCalls>>

DockerTypeOK ==
    /\ docker \in [Containers -> {"absent", "created", "up", "down", "removed"}]
    /\ events \in [Containers -> Seq({"oom", "die"})]
    /\ died \in [Containers -> {"no", "by itself", "killed", "closed"}]
    /\ killCalls \subseteq Containers
    /\ closeCalls \subseteq Students

DockerInit ==
    /\ docker = [c \in Containers |-> "absent"]
    /\ events = [c \in Containers |-> <<>>]
    /\ died = [c \in Containers |-> "no"]
    /\ killCalls = {}
    /\ closeCalls = {}

Becomes(c, state) == docker' = [docker EXCEPT ![c] = state]

Emit(c, event) == events' = [events EXCEPT ![c] = Append(@, event)]

\* The processes of a container end, for the given reason.
End(c, reason, state) ==
    /\ Becomes(c, state)
    /\ Emit(c, "die")
    /\ died' = [died EXCEPT ![c] = reason]

-----------------------------------------------------------------------------
\* A container ends by itself.
EndByItself(c) ==
    /\ docker[c] = "up"
    /\ End(c, "by itself", "down")
    /\ UNCHANGED <<killCalls, closeCalls>>

\* A container has no memory left.  With oom_kill_disable, it only hangs.
OutOfMemory(c) ==
    /\ docker[c] = "up"
    /\ events[c] = <<>>
    /\ Emit(c, "oom")
    /\ UNCHANGED <<docker, died, killCalls, closeCalls>>

\* kill_container runs.  Docker refuses to kill a container that is not up:
\* every caller ignores the exception.
RunKill(c) ==
    /\ c \in killCalls
    /\ killCalls' = killCalls \ {c}
    /\ IF docker[c] = "up" THEN End(c, "killed", "down") ELSE UNCHANGED daemon
    /\ UNCHANGED closeCalls

\* close_and_delete runs.  When the kill is refused, the exception skips the
\* removal.
RunClose(s) ==
    /\ s \in closeCalls
    /\ closeCalls' = closeCalls \ {s}
    /\ IF docker[s] = "up" THEN End(s, "closed", "removed") ELSE UNCHANGED daemon
    /\ UNCHANGED killCalls
=============================================================================
