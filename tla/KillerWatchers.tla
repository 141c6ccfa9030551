--------------------------- MODULE KillerWatchers ---------------------------
(***************************************************************************)
(* The killer pipeline of the docker agent (agent/_killer_watchers.py and  *)
(* agent/_pipeline.py), with its only element, the timeout watcher.  The   *)
(* agent pushes two messages for a container, "register" when it has       *)
(* started and a KWPKilledStatus when it has died; the watcher sends the   *)
(* second one back, with "timeout" when it killed the container itself.    *)
(*                                                                         *)
(* What is in the pipeline is kept by container: messages about different  *)
(* containers do not meet.                                                 *)
(***************************************************************************)
EXTENDS Docker

VARIABLES
    pipe,       \* pipe[c]: messages about c, not yet read by the watcher
    checked,    \* KWPKilledStatus messages on their way back to the agent
    watching,   \* containers the watcher has to kill in time
    hadError    \* container_had_error: containers it has killed

pipeline == <<pipe, checked, watching, hadError>>

\* killed_result of a KWPKilledStatus
Killings == {"none", "killed", "overflow", "timeout"}

WatchersTypeOK ==
    /\ pipe \in [Containers -> Seq({"register"} \cup Killings)]
    /\ checked \subseteq [container : Containers, result : Killings]
    /\ watching \subseteq Containers
    /\ hadError \subseteq Containers

WatchersInit ==
    /\ pipe = [c \in Containers |-> <<>>]
    /\ checked = {}
    /\ watching = {}
    /\ hadError = {}

Push(c, m) == pipe' = [pipe EXCEPT ![c] = Append(@, m)]

Pull(c) == pipe[c] # <<>> /\ pipe' = [pipe EXCEPT ![c] = Tail(@)]

-----------------------------------------------------------------------------
\* The agent ignores the KWPRegisterContainer that comes out of the pipeline.
RegisterContainer(c) ==
    /\ Pull(c)
    /\ Head(pipe[c]) = "register"
    /\ watching' = watching \cup {c}
    /\ UNCHANGED <<checked, hadError, dockerVars>>

\* A status that says already why the container was killed is passed on;
\* for the others the watcher says whether it is the killer.
AnswerStatus(c) ==
    /\ Pull(c)
    /\ Head(pipe[c]) = "none"
    /\ checked' = checked \cup
         {[container |-> c, result |-> IF c \in hadError THEN "timeout" ELSE "none"]}
    /\ watching' = watching \ {c}
    /\ hadError' = hadError \ {c}
    /\ UNCHANGED dockerVars

PassStatus(c) ==
    /\ Pull(c)
    /\ Head(pipe[c]) \notin {"register", "none"}
    /\ checked' = checked \cup {[container |-> c, result |-> Head(pipe[c])]}
    /\ UNCHANGED <<watching, hadError, dockerVars>>

\* Mutant of KillItWithFire: the container is not marked.
KillUnmarked(c) ==
    /\ c \in watching
    /\ watching' = watching \ {c}
    /\ killCalls' = killCalls \cup {c}
    /\ UNCHANGED <<pipe, checked, hadError, daemon, closeCalls>>

\* The cpu time or the wall time of a container is used up.
KillItWithFire(c) ==
    /\ c \in watching
    /\ watching' = watching \ {c}
    /\ hadError' = hadError \cup {c}
    /\ killCalls' = killCalls \cup {c}
    /\ UNCHANGED <<pipe, checked, daemon, closeCalls>>

WatcherStep(c) == RegisterContainer(c) \/ AnswerStatus(c) \/ PassStatus(c)
=============================================================================
