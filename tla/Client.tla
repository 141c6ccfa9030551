------------------------------- MODULE Client -------------------------------
(***************************************************************************)
(* The client of the backend inside a frontend process:                    *)
(* BetterParanoidPirateClient (client/_zeromq_client.py), which keeps the  *)
(* transactions and reconnects when the backend looks dead, and Client     *)
(* (client/client.py), which runs jobs over it.                            *)
(*                                                                         *)
(* Everything but new_job and the ssh callbacks runs on one asyncio loop,  *)
(* and no send suspends a coroutine on it.  new_job is called by the       *)
(* threads of the frontend; the ssh callbacks run in executor threads.     *)
(***************************************************************************)
EXTENDS Naturals, Sequences, FiniteSets

CONSTANTS
    MaxConnections, \* bound: connections the client makes
    Ids,            \* job ids (uuid4)
    Env,            \* the environments
    EnvOfId,        \* the environment of each job's task
    DebugIds,       \* the jobs submitted with debug == "ssh"
    MaxClientPing,  \* _ping_count that makes the client reconnect: 10
    MaxAttempt      \* _queue_update_last_attempt_max: 3

ASSUME ClientAssumption ==
    /\ MaxConnections \in Nat \ {0}
    /\ EnvOfId \in [Ids -> Env]
    /\ DebugIds \subseteq Ids
    /\ MaxClientPing \in Nat
    /\ MaxAttempt \in Nat

\* Every connection has an address of its own: here, its number.
Addresses == 1..MaxConnections

VARIABLES
    address,        \* the address the backend knows the current connection by
    toBackend,      \* toBackend[c]: sent over the connection c, not handled yet
    inbox,          \* inbox[c]: sent by the backend to c, not read yet
    created,        \* calls of new_job whose transaction is not created yet
    transactions,   \* keys of _transactions
    listening,      \* _run_socket is alive
    restarting,     \* _handle_unknown tasks that have not run yet
    clientPing,     \* _ping_count
    available,      \* _available_containers
    lastAttempt,    \* _queue_update_last_attempt
    sshThreads,     \* calls of the ssh callback of a job in executor threads
    sshCalled,      \* once.called of the ssh callback of each job
    sshCalls,       \* history: calls of the ssh callback given to new_job
    callbacks,      \* history: calls of the callback given to new_job
    requested       \* history: calls of new_job

connectionVars == <<address, toBackend, inbox>>
loopVars == <<listening, restarting, clientPing, available, lastAttempt>>
jobVars == <<created, transactions, requested>>
callbackVars == <<sshThreads, sshCalled, sshCalls, callbacks>>

\* A call of the ssh callback: from _handle_job_ssh_debug ("debug") or from
\* _handle_job_done ("final").
Calls == {"debug", "final"}

\* "passed": the thread has read once.called and found it false; "set": it
\* has set it, and is about to call the function.
Progress == {"none", "queued", "passed", "set", "over"}

Plain(type) == [type |-> type]
ForJob(type, i) == [type |-> type, id |-> i]

ClientInit ==
    /\ address = 1
    /\ toBackend = [c \in Addresses |-> IF c = address THEN <<Plain("hello")>> ELSE <<>>]
    /\ inbox = [c \in Addresses |-> <<>>]
    /\ created = {}
    /\ transactions = {}
    /\ listening = TRUE
    /\ restarting = 0
    /\ clientPing = 0
    /\ available = {}
    /\ lastAttempt = 0
    /\ sshThreads = [i \in Ids |-> [w \in Calls |-> "none"]]
    /\ sshCalled = [i \in Ids |-> FALSE]
    /\ sshCalls = [i \in Ids |-> 0]
    /\ callbacks = [i \in Ids |-> 0]
    /\ requested = {}

SendToBackendFrom(c, m) == toBackend' = [toBackend EXCEPT ![c] = Append(@, m)]

-----------------------------------------------------------------------------
(* Client.new_job and Client.kill_job                                       *)

\* new_job: the environment is not available, or the limits of the task
\* cannot be read.  Both callbacks are called at once.
RefuseJob(i) ==
    /\ i \notin requested
    /\ requested' = requested \cup {i}
    /\ sshCalled' = [sshCalled EXCEPT ![i] = TRUE]
    /\ sshCalls' = [sshCalls EXCEPT ![i] = @ + 1]
    /\ callbacks' = [callbacks EXCEPT ![i] = @ + 1]
    /\ UNCHANGED <<connectionVars, loopVars, created, transactions, sshThreads>>

RequestJob(i) ==
    /\ i \notin requested
    /\ EnvOfId[i] \in available
    /\ requested' = requested \cup {i}
    /\ created' = created \cup {i}
    /\ UNCHANGED <<connectionVars, loopVars, transactions, callbackVars>>

\* _create_transaction, in the loop
CreateTransaction(i) ==
    /\ i \in created
    /\ created' = created \ {i}
    /\ transactions' = transactions \cup {i}
    /\ SendToBackendFrom(address, ForJob("new_job", i))
    /\ UNCHANGED <<address, inbox, loopVars, requested, callbackVars>>

\* A submission keeps its job id until the callback has stored the result.
KillJob(i) ==
    /\ i \in requested /\ callbacks[i] = 0
    /\ SendToBackendFrom(address, ForJob("kill_job", i))
    /\ UNCHANGED <<address, inbox, loopVars, jobVars, callbackVars>>

-----------------------------------------------------------------------------
(* The end of a job                                                         *)

\* _handle_job_done (or _handle_job_abort) starts for each job of a set.
EndJobs(S) ==
    sshThreads' = [i \in Ids |->
        IF i \in S THEN [sshThreads[i] EXCEPT !["final"] = "queued"] ELSE sshThreads[i]]

\* once(): reads once.called ...
TestCalled(i, w) ==
    /\ sshThreads[i][w] = "queued"
    /\ sshThreads' = [sshThreads EXCEPT ![i][w] = IF sshCalled[i] THEN "over" ELSE "passed"]
    /\ UNCHANGED <<connectionVars, loopVars, jobVars, sshCalled, sshCalls, callbacks>>

\* ... sets it, for every thread to see ...
SetCalled(i, w) ==
    /\ sshThreads[i][w] = "passed"
    /\ sshThreads' = [sshThreads EXCEPT ![i][w] = "set"]
    /\ sshCalled' = [sshCalled EXCEPT ![i] = TRUE]
    /\ UNCHANGED <<connectionVars, loopVars, jobVars, sshCalls, callbacks>>

\* ... and calls the function.
CallSsh(i, w) ==
    /\ sshThreads[i][w] = "set"
    /\ sshThreads' = [sshThreads EXCEPT ![i][w] = "over"]
    /\ sshCalls' = [sshCalls EXCEPT ![i] = @ + 1]
    /\ UNCHANGED <<connectionVars, loopVars, jobVars, sshCalled, callbacks>>

\* Mutant of CallBack: the executor is not waited for.
CallBackAtOnce(i) ==
    /\ sshThreads[i]["final"] # "none"
    /\ sshThreads' = [sshThreads EXCEPT ![i]["final"] = "none"]
    /\ callbacks' = [callbacks EXCEPT ![i] = @ + 1]
    /\ UNCHANGED <<connectionVars, loopVars, jobVars, sshCalled, sshCalls>>

\* The rest of _handle_job_done, once the executor has returned.
CallBack(i) ==
    /\ sshThreads[i]["final"] = "over"
    /\ sshThreads' = [sshThreads EXCEPT ![i]["final"] = "none"]
    /\ callbacks' = [callbacks EXCEPT ![i] = @ + 1]
    /\ UNCHANGED <<connectionVars, loopVars, jobVars, sshCalled, sshCalls>>

-----------------------------------------------------------------------------
(* _run_socket: one message is read from the current connection.            *)

Read ==
    /\ listening
    /\ inbox[address] # <<>>
    /\ inbox' = [inbox EXCEPT ![address] = Tail(@)]

Received == Head(inbox[address])

ReadJobDone ==
    /\ Read
    /\ Received.type = "job_done" /\ Received.id \in transactions
    /\ transactions' = transactions \ {Received.id}
    /\ EndJobs({Received.id})
    /\ UNCHANGED <<address, toBackend, loopVars, created, requested>>
    /\ UNCHANGED <<sshCalled, sshCalls, callbacks>>

\* _handle_job_started only logs.
ReadJobStarted ==
    /\ Read
    /\ Received.type = "job_started" /\ Received.id \in transactions
    /\ UNCHANGED <<address, toBackend, loopVars, jobVars, callbackVars>>

\* Bound: a job that was recovered may open a second session, whose message
\* is read here after the callback for the first one has returned.
ReadJobSSHDebug ==
    /\ Read
    /\ Received.type = "job_ssh_debug" /\ Received.id \in transactions
    /\ sshThreads[Received.id]["debug"] \in {"none", "over"}
    /\ sshThreads' = [sshThreads EXCEPT ![Received.id]["debug"] = "queued"]
    /\ UNCHANGED <<address, toBackend, loopVars, jobVars>>
    /\ UNCHANGED <<sshCalled, sshCalls, callbacks>>

\* A message about a job without transaction: _run_socket raises, and its
\* task is over until the client reconnects.
ReadForUnknownTransaction ==
    /\ Read
    /\ Received.type \in {"job_done", "job_started", "job_ssh_debug"}
    /\ Received.id \notin transactions
    /\ listening' = FALSE
    /\ UNCHANGED <<address, toBackend, jobVars, callbackVars>>
    /\ UNCHANGED <<restarting, clientPing, available, lastAttempt>>

ReadPong ==
    /\ Read
    /\ Received.type = "pong"
    /\ clientPing' = 0
    /\ UNCHANGED <<address, toBackend, jobVars, callbackVars>>
    /\ UNCHANGED <<listening, restarting, available, lastAttempt>>

\* The reconnection is left to a task; messages may be read before it runs.
ReadUnknown ==
    /\ Read
    /\ Received.type = "unknown"
    /\ restarting' = restarting + 1
    /\ UNCHANGED <<address, toBackend, jobVars, callbackVars>>
    /\ UNCHANGED <<listening, clientPing, available, lastAttempt>>

ReadUpdateContainers ==
    /\ Read
    /\ Received.type = "update_containers"
    /\ available' = Received.containers
    /\ UNCHANGED <<address, toBackend, jobVars, callbackVars>>
    /\ UNCHANGED <<listening, restarting, clientPing, lastAttempt>>

\* _handle_job_queue_update; the cache it fills is only read for display.
ReadQueue ==
    /\ Read
    /\ Received.type = "queue"
    /\ lastAttempt' = 0
    /\ UNCHANGED <<address, toBackend, jobVars, callbackVars>>
    /\ UNCHANGED <<listening, restarting, clientPing, available>>

RunSocket ==
    \/ ReadJobDone \/ ReadJobStarted \/ ReadJobSSHDebug \/ ReadForUnknownTransaction
    \/ ReadPong \/ ReadUnknown \/ ReadUpdateContainers \/ ReadQueue

-----------------------------------------------------------------------------
(* Reconnection.                                                            *)

\* Mutant of Reconnect: the transactions are kept open.
ReconnectOnly ==
    /\ address < MaxConnections
    /\ address' = address + 1
    /\ SendToBackendFrom(address + 1, Plain("hello"))
    /\ inbox' = [inbox EXCEPT ![address] = <<>>]
    /\ available' = {}
    /\ clientPing' = 0
    /\ listening' = TRUE
    /\ UNCHANGED <<lastAttempt, jobVars, callbackVars>>

\* _reconnect: every transaction is aborted, the connection is given up and
\* another one made; the messages on the way to the old one are lost, those
\* sent over it still go.  _queue_update_last_attempt is not reset.
Reconnect ==
    /\ transactions' = {}
    /\ EndJobs(transactions)
    /\ address < MaxConnections
    /\ address' = address + 1
    /\ SendToBackendFrom(address + 1, Plain("hello"))
    /\ inbox' = [inbox EXCEPT ![address] = <<>>]
    /\ available' = {}
    /\ clientPing' = 0
    /\ listening' = TRUE
    /\ UNCHANGED <<created, requested, lastAttempt, sshCalled, sshCalls, callbacks>>

\* _handle_unknown
HandleUnknown ==
    /\ restarting > 0
    /\ restarting' = restarting - 1
    /\ Reconnect

\* _do_ping, every second
PingTooMany ==
    /\ clientPing > MaxClientPing
    /\ Reconnect
    /\ UNCHANGED restarting

\* Mutant of PingBackend: one ping too many.
PingBackendOnceMore ==
    /\ clientPing <= MaxClientPing + 1
    /\ clientPing' = clientPing + 1
    /\ SendToBackendFrom(address, Plain("ping"))
    /\ UNCHANGED <<address, inbox, jobVars, callbackVars>>
    /\ UNCHANGED <<listening, restarting, available, lastAttempt>>

PingBackend ==
    /\ clientPing <= MaxClientPing
    /\ clientPing' = clientPing + 1
    /\ SendToBackendFrom(address, Plain("ping"))
    /\ UNCHANGED <<address, inbox, jobVars, callbackVars>>
    /\ UNCHANGED <<listening, restarting, available, lastAttempt>>

\* _ask_queue_update, every queue_update seconds
AskQueueUpdate ==
    /\ lastAttempt = 0 \/ lastAttempt > MaxAttempt
    /\ lastAttempt' = 1
    /\ SendToBackendFrom(address, Plain("get_queue"))
    /\ UNCHANGED <<address, inbox, jobVars, callbackVars>>
    /\ UNCHANGED <<listening, restarting, clientPing, available>>

\* ZMQ loses the link to the backend and makes it again behind the client's
\* back, as when the backend restarts: the backend sees another address.  The
\* messages that were on the link are lost, the first ones of those sent and
\* the last ones of those to be received.
LinkLost ==
    /\ address < MaxConnections
    /\ address' = address + 1
    /\ \E sent \in 0..Len(toBackend[address]) :
         toBackend' = [toBackend EXCEPT
             ![address] = <<>>,
             ![address + 1] = SubSeq(toBackend[address], sent + 1, Len(toBackend[address]))]
    /\ \E received \in 0..Len(inbox[address]) :
         inbox' = [inbox EXCEPT
             ![address] = <<>>, ![address + 1] = SubSeq(inbox[address], 1, received)]
    /\ UNCHANGED <<loopVars, jobVars, callbackVars>>
=============================================================================
