# INGInious in TLA+

INGInious grades the programs that students submit.  A *frontend* (web or LTI)
hands a submission to its *client*, the client sends it as a job to the
*backend*, the backend queues it and gives it to an *agent* that has a free slot
and the right environment, the agent runs it and the answer goes back the same
way; the frontend stores the result, keeps the grade of the task up to date and
tells it to the page of the student, which has been asking for it, or to the LTI
platform.  Every part is a process (or several) that may die, be slow or lose its
connection, and the code answers with pings, recoveries, reconnections and retries.
This directory models that life of a submission from the page to the container and
back, checks it with TLC on small instances and proves the core of it with TLAPS.

Paths below are relative to `src/inginious/`.

## 1. The system

| component | state | operations | hard behaviours | what makes it correct |
|---|---|---|---|---|
| backend (`backend/backend.py`) | waiting and running jobs, registered agents, free slots, ping counts, known environments, registered clients | one handler per message, `update_queue`, `_do_ping`, `_recover_jobs` | agents that die, agents removed by mistake that still answer, kills, recoveries inside a ping round | no job lost, doubled or answered twice; slots balance; every job answered |
| client (`client/_zeromq_client.py`, `client/client.py`) | transactions, ping count, environments, queue-request state, executor threads | `new_job`, `kill_job`, one handler per message, pings, `_reconnect`, queue requests | link lost, backend restarted, late messages, callbacks in threads | every callback exactly once, in order |
| agents (`agent/docker_agent.py`, `agent/mcq_agent.py`) | jobs in hand | hello, new job, kill, result, pong | death with work in hand, slowness | one result per job |
| docker agent inside | containers running, ending and killed, ssh ports | two closing phases, docker events, kill, killer pipeline | events in any order, failures half-way | ports and jobs not leaked |
| LTI grades (`frontend/lti/lis_outcome_manager.py`) | queue in the database and in memory | `add`, worker thread, retry | restart, retry racing a newer grade | every entry sent or given up, attempts bounded, the worker survives |
| submissions (`frontend/common/submission_manager.py`, `frontend/webapp/submission_manager.py`, `user_manager.py`) | the collections `submissions` and `user_tasks`, requests and callbacks under way | `add_job`, callback, clean-up, replay and copy, `check`, `set_submission`, restart | double submission, callback before the id is stored, clean-up from an old list, grade written in several steps | one result per submission, kept; what waits is served and not deleted; `user_tasks` agrees with the submissions |
| page of a task (`static/js/task.js`, `webapp/pages/tasks.py`, `webapp/templates/task.html`) | form, list of submissions, status, timers, calls | submit, poll, load, select, reopen | answers lost or out of order, a page opened while a job runs, restart of the server | form never stuck, feedback of the input shown, page as it would be if opened again |
| course and task factories (`common/course_factory.py`, `common/task_factory.py`) | caches keyed by file times | get, update | files changed meanwhile | no stale course (not modelled) |
| the rest | | pages, installers, parsers, hooks, plugins, sessions | | not modelled |

Interactions: DEALER/ROUTER ZeroMQ sockets between client and backend and
between agent and backend; callbacks from the client into the submission
manager, in the event loop's thread; the database between managers.

`PROJECT.json` lists the components with what is modelled of each, and the
hazards with the line where each bites and the properties that cover it.

## 2. Modules

| module | models |
|---|---|
| `Platform` | jobs, addresses, messages and channels shared by the others (`common/messages.py`) |
| `Backend` | `backend/backend.py`, whole: one action per handler and per loop iteration of `update_queue` and `_do_ping` |
| `Agents` | what the backend may count on from an agent of either kind |
| `JobService` | abstract: queue, run, answer once; agents come and go |
| `Dispatch` | backend + agents + clients reduced to what the backend sees; invariants, fairness, refinement of `JobService` |
| `Client` | `_zeromq_client.py` and `client.py` |
| `JobSystem` | one frontend process + backend + agents, with lost links and restarts of the backend |
| `Docker` | the docker daemon and the threads that call it, as the docker agent uses them |
| `KillerWatchers` | `agent/_killer_watchers.py`, `agent/_pipeline.py`: who killed a container, and the time limits |
| `DockerAgent` | `agent/docker_agent.py`, whole |
| `AgentContract` | abstract: the agents of `Agents` alone, which `DockerAgent` implements |
| `LisOutcome` | `frontend/lti/lis_outcome_manager.py`: how LTI grades are transmitted |
| `SubmissionLife` | abstract: what the life of a submission may be |
| `Submissions` | the submissions of a user to a task and `user_tasks`; refinement of `SubmissionLife` |
| `TaskPage` | the page of the task in the browser, composed with `Submissions` |
| `MCDispatch`, `MCJobSystem`, `MCLisOutcome`, `MCDockerAgent`, `MCSubmissions`, `MCTaskPage` | small instances |
| `QueueLemmas` | lemmas on sequences: the queue of jobs, and channels that are sent to and read |
| `DispatchProofs`, `AgreementProofs` | `Dispatch`: type correctness, the places of a job; the agents' view, the slots, and the refinement of `JobService` |
| `JobSystemProofs` | `JobSystem`: type correctness, callbacks and transactions |
| `LisProofs` | `LisOutcome`: its inductive invariant and its theorems |
| `SubmissionProofs` | `Submissions`: type correctness, the life of each submission and the refinement; `user_tasks` and its exceptions; the best submission |
| `TaskPageProofs` | `TaskPage`: the feedback and the form; the colours of the list; the page as if it was opened again |
| `DockerProofs` | `DockerAgent`: the ssh ports; the life of the containers and what is said of their end; the refinement of `AgentContract` |

    TaskPage ──EXTENDS──> Submissions ──implements──> SubmissionLife
                              :  (new_job and its callback)
    JobSystem ──> Client + Backend + Agents
    Dispatch  ──> Backend + Agents, implements JobService
    DockerAgent ──> Docker + KillerWatchers, implements AgentContract (= Agents alone)

Operators whose comment begins with *Mutant of* are not part of the models: each
is a plausible bug of the definition it names, and a property is only kept when
putting that bug in breaks it.

### Correspondence with the code

* **A handler is atomic.**  The backend and the client are single asyncio loops;
  `ZMQUtils.send` on a ROUTER or DEALER socket completes without suspending the
  coroutine, so a handler runs to its end before another starts.  Tasks start in
  the order they were created.  The two loops inside handlers (`update_queue`,
  `_do_ping`) are one step per iteration, with `Idle` false meanwhile, so that
  agents and clients move between the iterations.  What does suspend is modelled
  by separate steps: `run_in_executor` in `_handle_job_done` and
  `_handle_job_ssh_debug` (threads that read `once.called`, set it and call the ssh
  callback, `TestCalled`, `SetCalled` and `CallSsh`; then `CallBack` in the loop), `call_soon_threadsafe` in `new_job` (`RequestJob`, then
  `CreateTransaction`), the `_handle_unknown` task (`ReadUnknown`, then
  `HandleUnknown`).
* **Addresses are connections.**  A ROUTER socket names a new connection with a
  new identity, so an agent that restarts is another member of `Agents` and a
  client that reconnects another member of `Clients`; a job is a pair of address
  and uuid (`BackendJobId`).
* **`_available_agents`** is a list with one entry per free slot.  Its order only
  decides which agent is served first; the model keeps how often each agent is
  listed and serves any of them.
* **`_containers`** also holds image ids, dates and agents, read only to log
  warnings; its keys are kept.
* **Ping and Pong** are not queued with the other messages: a pong touches
  `_ping_count` only, so it may be handled at any time while a ping is out.
  An agent that never answers its pings is as possible as one that does.
* **Recovered jobs** come back in the order of a dict; the model allows any order.
* **A link** that ZeroMQ loses and makes again (`LinkLost`) has a new address; what
  was on the wire is lost (a prefix of what was sent, a suffix of what was to be
  received), what was not yet transmitted or already received is kept.  In
  `_reconnect` the client disconnects by itself: what was on its way to it is
  lost, what it had sent still goes.
* **A restart of the backend** empties all its variables and the channels to the
  agents.  Agents say hello once (`docker_agent.py:690`, `mcq_agent.py:96`) and
  do not notice.
* **Agents** are an assumption about their code: one result for each job, sooner or
  later.  `DockerAgent` is checked to implement it (`ImplementsContract`,
  `EveryJobAnswered`), as long as nothing fails that the code does not expect; the
  findings say what happens otherwise.
* **The docker agent** is one asyncio loop whose handlers do wait: for docker's calls
  and file operations in threads, for a container's output, for the killer pipeline.
  A step of `DockerAgent` goes from one such wait to the next.  Steps that change no
  state the others see are merged (making and copying directories, then asking for
  the container).  `run_dealer` itself waits for the kill after an out-of-memory
  event (`docker_agent.py:655,706`): meanwhile, `loop`, it reads no message, event
  or status.  The container of a job has the name of the job, as a job is run once by
  an agent; running and ending containers of both kinds share a variable, as their
  ids are different.  What is in the killer pipeline is kept by container.
* **Docker** is external: a container that is up ends by itself or is killed, emits
  `oom` without ending (`oom_kill_disable`), refuses a kill when it is not up, and is
  never up again.  Creating and starting containers may fail at any time.
* **Failures** the handlers expect (no port, no directory, docker refuses) may always
  happen; those nobody expects are the members of `Faults`, so that each run says
  which it allows.

* **LTI grades.**  `LisOutcome` stands beside the others: it starts where the
  callback of a job has stored its grade.  Its threads are real threads, so `add`
  is two steps (the update of the database, the queueing of the new entry) and the
  worker is a step per call to the database, the consumer or the queue.  A user, a
  task and a result id are one *outcome*; a grade is its rank among those of the
  outcome.  The comment of `overlap` marks the one situation that the code does not
  exclude and several invariants except: `add` called after the worker thread has
  started but before it has loaded what the database held.
  `_increment_attempt` returns the document as it was *before* the increment
  (`find_one_and_update`'s default), so an entry is posted `MaxAttempt + 2` times
  before it is given up, not `MaxAttempt + 1`.

* **Requests and callbacks.**  A request runs in a thread of the web server; a step of
  `Submissions` is an access to the database, or several that nothing can tell apart.
  `thread[t].pc` is the place of the request: for `add_job`, `checked` (limit and
  `find_one` passed), `inserted`, `listed` (what `_delete_exceeding_submissions` will
  delete), `launched` (deletion done, `new_job` called), then the answer.  The list is
  taken in one step and the deletions done later, whatever the submissions have become.
  `_job_done_callback` is `StoreResult`, then `CountNew` or `CountReplay`
  (`update_user_stats`), then `SetEvaluation`.  The client calls one callback at a
  time; when the environment is not available, `new_job` calls it itself in the
  thread of the request (`sync`), which is how two callbacks may overlap.
* **Kills and time limits** change nothing in the database by themselves:
  `kill_running_submission` passes the id of the job to the client, and the callback
  comes as any other.  They are outcomes.
* **A submission deleted while its result comes** makes the callback raise: `raised`
  says so, as `new_job` then raises in the request that called it.
* **Grades** are ranks; `tried`, `stored` and `limit` are those of the user's settings.
  The order of `submitted_on` is the order of the numbers.
* **A restart of the frontend** forgets requests, jobs and callbacks, and
  `update_pending_jobs` gives up what waits.
* **The page.**  The handlers of task.js run one at a time, each a step.  A call is
  `Send`, `Arrive` (a thread begins to serve it) and one of the answers, or it is lost
  before or after it arrived.  Elements of the page are kept when a handler reads them
  or the user relies on them: the list and its colours, `#my_submission`, the status,
  the tries, the form and the feedback, the last two by the submission they are about.
  Loads of old submissions only read: they are not given a thread.

## 3. Runs

| run | configuration | shows |
|---|---|---|
| `dispatch` | 2 agents of one slot (one offers both environments), 2 jobs, `MaxPing = 1`, `FairSpec` | type, places of jobs, single answers, slots, agreement of agents and backend, no overcommit, work conservation, every step a step of `JobService`, and every accepted job answered unless stranded |
| `job_system` | 2 connections, 1 remote-debug job, 1 docker agent, 1 kill, 1 restart of the backend | the callback at most once, and not before a thread has called the ssh callback or is about to; no orphan transaction |
| `called_back` | 3 connections, 1 restart of the backend, `FairSpec` | every requested job is called back, through lost links, the death or removal of its agent, and a restart with the job in the queue or on an agent; only a job that waits for ever for an agent is excepted |
| `unknown_transaction` | 1 docker agent | **violation**: `_run_socket` raises on a late `BackendJobStarted` |
| `ssh_twice` | as `job_system` | **violation**: two threads both call the ssh callback of a job |
| `docker_agent` | 1 remote-debug job, 1 ssh port, 1 student container, 1 kill, all faults | one return value per student container, kills are reported, the port is given back once, nothing left of an answered job; implements `AgentContract` |
| `docker_liveness` | 1 job, 1 student container, no fault, `FairSpec` | every job answered, student containers removed |
| `unanswered` | fault `prepare`, `FairSpec` | **violation**: a job without result |
| `lis_outcome` | 2 outcomes of 2 and 1 grades, `MaxAttempt = 1`, 1 restart, `FairSpec` | database and memory agree, the worker survives, entries leave only when sent or given up, and do leave; attempts bounded |
| `submissions` | 2 threads, 3 submissions, 1 replay, copy or restart; the best submission with one stored and no limit, or the last of two stored with a limit of 2 | what waits is served, one result kept, `user_tasks` agrees, settings obeyed, the best grade survives deletions; implements `SubmissionLife` |
| `best_lost` | 2 threads, 3 submissions, nothing else | **violation**: the evaluated submission is deleted and replaced by a worse one |
| `task_page` | 2 calls at once, 2 submissions, 1 load, 2 events (opening, selection, call lost, restart), 1 restart of the frontend and no replay, `PageFairSpec` | feedback of the input shown, true colours, page as reopened, form never stuck |

### Bounds, and why they are enough

Two agents and two jobs are the least at which a job recovered from one agent runs
on another while the first one still works on it, a second job competes for the
slot, and an agent is set aside because only the other suits.  One slot each makes
every accounting error of one slot visible.  `MaxPing` (5 in the code) only sets
how many rounds pass before a removal: with 1, as in `dispatch`, the count has an
intermediate value that a pong can reset; with 0, as in the runs of `JobSystem`, an
agent is removed on the second round without a pong.  `MaxConnections` bounds the reconnections: two of them allow a
reconnection with messages of two older connections around.  `MaxClientPing = 0`
(10) as above.  The safety run `job_system` makes do with one reconnection, as the
remote-debug job adds threads; `called_back` has two, as a restart of the backend
takes one when the client finds out by its pings, and a link lost another.  Its one agent
says hello once, so that after a restart a job that is not aborted waits for ever:
a job that was with the old backend is aborted, which the run shows, and one
that the new backend has queued is the exception (`Unserved`).  `MaxQueue` stops
the client's two timers from filling the channels; everything else is sent whatever
the length.  `MaxKills`, `MaxRestarts`, `AsksQueue` bound or switch off sources of
events.  `OutOfConnections` marks the states where a bound, not the code, stops the
client; the liveness properties except them.

In `LisOutcome`, `MaxAttempt` is 1 instead of 5: a first post, a retry with a stale
count, a retry with the true count and giving up all happen.  Two grades of one
outcome let `add` meet an older entry in every state of the worker; the other outcome
is in the queue before, between and after.  Its run says `CHECK_DEADLOCK FALSE`: with
every grade sent and no job in sight the system rests.

In `DockerAgent` jobs share the ssh ports and nothing else.  There is one job and one
port: two jobs do not fit in the time a run may take, so that the run sees sharing through
the account of the port (`PortsAccountedFor`: a port is free or in use by exactly one job;
given back twice or never, it is not).  `PortsSafe` proves that account for any number of
jobs and ports; two jobs over one port, without students and kills, were checked apart.
One student container is enough for the race with the end of its parent.  A kill, an
out-of-memory event and a time limit may all hit the same container.  With all jobs
answered and no kill left the agent waits for the backend, hence `CHECK_DEADLOCK FALSE`.

In `Submissions`, two threads pass the check of `add_job` together, delete for each
other and race with the callbacks; a third submission is what makes the list of
submissions to delete, with one stored, hold the wrong ones.  The last submission is
evaluated among two stored: with one stored, launching the second would delete the first
while it is evaluated, and there would be no choice to make.  The submission that
the student selects is left to `task_page`: with it the run takes too long (it was checked
apart: 2.2 million states).  `MaxJobs` bounds both
submissions and jobs: a replay takes a job of its own.  `MaxIncidents` is one bound for
replays, copies and restarts together: with more than one of them the run takes too
long (a replay and a restart together have been checked apart: 2.6 million states).  Two outcomes,
a success and a lower grade, and the crash of an unavailable environment are all that
comparisons tell apart.  The run stops when every number is used (`CHECK_DEADLOCK
FALSE`, as in `TaskPage`, where the user may leave it at that).
Threads are interchangeable there (`MCSymmetry`); `task_page`, with temporal
properties, uses no symmetry.  Its two events pair each opening, selection, loss or
restart with any other; its safety properties held with three as well, before
restarts were among them.

The view of the `job_system` run leaves out `clientOut`, a scratch variable written and
read within one step.  The temporal runs use no view.

### Fairness, and why the code justifies it

The asyncio loop runs ready callbacks in their order, so a handler that is ready
again and again is started (SF on the reads of sockets and on `_do_ping`), and the
rest of a handler has nothing to wait for (WF).  Agents' loops are fair and jobs
have time limits (WF on reading and answering).  Timers go off.  Nothing is assumed
of the callers of the client, of the start or death of agents, of links, or of the
time a pong takes: an agent may always look dead.  In `LisOutcome` the worker thread
and the threads inside `add` go on (WF); posts may fail for ever, which the count of
attempts answers, and nothing is assumed of restarts or of jobs.  In `DockerAgent`
the loop goes on, threads end, docker's events arrive and time limits are reached
(WF); that a container ends, answers or lacks memory is left to chance, so that an
answer may always come from the time limit only.  In `TaskPage` the timers of the page
go off, calls arrive and are answered or lost, threads of the server go on, and each
job is called back (WF each).  The last one is an assumption on the backend and the agents:
`EventuallyCalledBack` shows it of the client, for jobs that some agent serves
(`Unserved`), and `EveryJobAnswered` of the docker agent, but after the failures of the
finding `unanswered`.  Nothing is assumed of the user, of losses or of restarts.

### What the properties except, and why

* `Stranded` (`Dispatch`): no agent offers the environment any more; the environments
  of a removed agent stay announced, so clients keep submitting such jobs.
* `Unserved` (`JobSystem`): the same for a job of the frontend, and less: the job is in the
  backend's queue and no registered agent offers its environment, for ever from some
  point on.  Everything else that happens to a job, at the backend or in an agent,
  must lead to its callbacks.  `OutOfConnections`: a bound, as above.
* `overlap` (`LisOutcome`): above.
* `replayed` (`Submissions`): `replay_job` sets a submission to waiting after `new_job`
  has returned; if the callback was faster the result is erased and nobody gives
  another one before the next restart.  `WaitingIsServed` and `SubmissionLife` except
  submissions that an administrator replays.
  That a waiting submission is graded in the end has no run of its own: it is
  `WaitingIsServed` (a request is about to launch it, or a job that runs is to bring its
  result) together with `EventuallyCalledBack` (the job is called back), with the exceptions
  of both.
* `restarts`: a restart between the result and `user_tasks` leaves the grade uncounted
  for good (`CacheAgrees`, `SettingsObeyed`).
* `overlap` (`Submissions`): requests that run side by side may exceed the limit or
  leave the earlier of two results evaluated; `SettingsObeyed` speaks of submissions one
  after the other, `CacheAgrees` and `ImplementsLife` of all of them.
* `orphaned` (`Submissions`): the evaluated submission was deleted (`best_lost`);
  `SettingsObeyed` excepts it, `BestSurvives` and `BestIsCounted` do not.
* `stale` and `openedOn` (`TaskPage`): a `check` answered between the result and
  `user_tasks` tells the page of a submission that is not evaluated yet, and a page
  opened while a submission waits enables the form when its input is loaded, so that
  the user may load another one before the feedback comes.

### Findings

1. `unknown_transaction`: `AgentJobStarted` may follow `AgentJobDone`; the exception
   at `_zeromq_client.py:226` ends the socket task and the client is deaf until its
   pings run out, when it aborts every open job.
2. `ssh_twice`: `_callable_once` reads `once.called`, sets it and calls the function
   (`client.py:21-23`) in two threads of the executor without a lock, so that both may call
   the ssh callback, though "ssh_callback ... is called at most once" (`client.py:283`) and
   "every callback will be called once and only once" (`client.py:254`).
3. `unanswered`: an exception in lines 259-275 of `docker_agent.py` ends
   `handle_new_job` without a result; the slot and the ssh port are lost.  With the
   fault `attach` or `delete` instead of `prepare` the same property fails.
4. `best_lost`: of two submissions with the best grade, the deletion keeps the earlier
   and `user_tasks` evaluates the later, which is then deleted; the next submission
   takes its place with whatever grade it has, though "the best submission is used"
   (`doc/teacher_doc/task_file.rst:88`).

The models also show, without a run of their own:

* the callback of a job may overtake its ssh callback: when the thread of the session has set
  `called` and not called yet, the one of the end passes it (`CalledBackOnce` says what is
  left: that thread is about to call);
* a student container may outlive its job: `close_and_delete` cannot kill one that is
  about to start and skips its removal (`docker_agent.py:520`), so it stays until its
  own end (`StudentsRemoved` asks for no more than this);
* a lost reply to `ClientGetQueue` is never asked for again (`lastAttempt` in `Client`);
* a grade that `add` meets an older entry for is not sent when the worker has already
  read the older one (`CreatedIsSent` speaks of the grade that made the entry);
* a result may be erased by a replay, as said above.

## 4. Proofs

### Dispatch

`DispatchProofs` proves `Spec => []TypeOK` of `Dispatch` (`TypeCorrect`), and
the invariants on the places of jobs (`QueuedOnce`, `EachJobInOnePlace`,
`AnsweredAtMostOnce`, `RunningOnRegistered`), for every set of agents,
clients, environments, jobs, slots and `MaxPing`, from `JobsAssumption` (finitely
many jobs, `NoJob` and `NoAgent` not among the jobs and agents, total functions
for owners and environments), `AgentsAssumption` and `PingAssumption`.

The argument: `EachJobInOnePlace` alone is not inductive.  An assignment moves the
job at an index out of a sequence, so one needs that the queue has no duplicate
(`QueuedOnce`) to know that it is gone; a recovery appends the jobs of an agent,
so one needs that none of them is waiting.  `RunningOnRegistered` needs that an
agent that is not registered has no slot left (`SlotsOfRegistered`), neither free
nor set aside, otherwise `update_queue` would assign a job to it; and that needs
that agents are set aside only while `update_queue` runs (`AsideWhileUpdating`),
as a removal takes place between two of its calls and clears the free slots only.
`PlacesInv` is the conjunction; `QueueLemmas` has what `RemoveAt`, `Append` and
concatenation do to the range and the injectivity of a queue.

`AgreementProofs` relates what the backend believes of an agent to what the agent has.
`AgentsAgree` says that a result or a notice is always about a job that runs on the agent
that sent it; it is not inductive, as the job must have been right before the result was
sent, when it was held, and before that, when the order was on its way.  `AgreementInv`
follows it through these places: a registered agent has each job once (`Once` in a channel,
and in one of the three places), only jobs that run on it for the backend and, while the
agent lives, all of them (`Agreed`).  Registering an agent starts from nothing only because
an agent says hello once and exchanges nothing before that hello is read (`Introduced`):
otherwise an old result could meet the slots of the new registration.  From this invariant,
`SlotsBalance` (a result frees a slot of the agent that had the job), `NeverOvercommitted`
(what an agent has in hand runs on it for the backend or was left to it when it was removed), and
`NoIdleSlot`, whose own strengthening `WorkInv` says that nothing an agent offers waits, when
its slot has been set aside by `update_queue` as well as when it is free between two handlers.
`ServiceImplemented` proves the refinement of `JobService`, one lemma per handler.

### Submissions

`SubmissionProofs` proves, for any number of threads, submissions, jobs and incidents
and for any settings and outcomes (`SubmissionsAssumption`): `TypeCorrect`,
`WaitingServed` (`WaitingIsServed`), `LifeImplemented` (`Spec => ImplementsLife`, the
whole refinement: initial states, and each step a step of `SubmissionLife` or a
stutter), `GradeAgrees` (`CacheAgrees`), `OrderObeyed` (`SettingsObeyed`) and
`BestAlwaysSurvives` (`BestSurvives`).

None of these is inductive.  That a result is given once needs that a job which is still
to be called back belongs to a submission that waits; that a list of submissions to
delete made long ago holds none that waits now needs that nothing waits again once it
has its result.  `LifeInv` is `TypeOK` and, for the submissions never replayed, `Care`:
while one waits there is exactly one request that has not launched it yet or exactly
one job that will bring its result, never both and never two, with its id stored or the
request that launched it still to store it; when it does not wait, there is none.
`Shape` says that what is stored follows from the status, and `Careful` that a request
deletes nothing that waits and replays only what is marked as replayed.  Each action has
a lemma that it keeps `Cared`, built on frame lemmas for what it leaves alone
(`ThreadFrame`, `JobFrame`, `CareFrame`), and one that it is a step of `Life`.

`CacheAgrees` speaks of quiet states, and is about writes that were prepared long before:
a callback sets a grade it was given several steps ago, and a selection writes what it has
read of a submission.  `CacheInv` therefore says of each of them what it holds: the result a
callback has stored (`StoredInv`), the evaluation it is about to set (`SettingInv`) and the
one a request is about to write (`SelectedInv`) agree with the collection as it is now, and
so does `user_tasks`, unless a replay of the evaluated submission is still to be counted
(`TaskInv`).  They keep agreeing because a submission that has its result gets no other one
unless it is replayed (`Given`, shown once for each action by `Steady`).  With replays the
argument needs that requests and replays do not meet, which is what the history `overlap`
excepts: `OneAtATime` says that without it at most one request adds a submission, at most
one job is uncounted, and no selection is made during a replay.

`SettingsObeyed` adds to it, for submissions one after the other (`Order`): the submissions
that were inserted are an initial segment, and the one that may be busy is the newest of
them; those inserted are the attempts counted and the busy one, which is the limit; and
unless the one evaluated has been deleted, it is the newest when the last one is evaluated,
and no submission that is done and counted exceeds its grade when the best one is.

`BestSurvives` speaks of one step, but the deletion uses a list made several steps ago.
`BestSpared` says that as long as nothing is replayed no list contains the submission that is
best *now*: the best one when the list was made was kept out of it, a better one later
was waiting then and was kept out too, and another request that deletes what it listed
leaves the best one where it is.  That there is a best submission at all, among those
that are done (`BestExists`), is an induction over their number, which the provers can only do as a
least counterexample: the set of the bounds up to which there is none has a least element
(`LeastNat`, from the library's `WFMin`), and the bound before that has a best one.

### Page of a task

`TaskPageProofs` proves `PageTypesCorrect`, `FeedbackFollowsForm` (`FeedbackOfForm`),
`ColoursAreTrue` (`ColoursTrue`) and `PageAsReopened` (`AsReopened`), for any number of submissions, calls, threads, loads and
events, from `SubmissionsAssumption` and `TaskPageAssumption`.

`FeedbackOfForm` rests on the form being disabled.  `FormInv` says that on a page that was
not opened on a submission that waits, at most one of these is under way: a timeout, a
call that submits or checks, the load of an input; and that while one is, the form is
disabled, so that no click starts another.  This is where a selection matters, the only
call made with the form enabled: its failure must not enable it (`Fail`).

`ColoursTrue` relates the list to a server whose threads go on between a call and its
answer.  `CheckInv` follows a check: sent; served, by a thread that has read the result
and still has to find which submission is evaluated; answered.  At each place, what will be
told is true of the submission *now*.  It stays so because a submission that has its
result keeps it until it is deleted (`SettledStays`), and this is not shown again for
each handler of the server: every step of the page that reaches it is a step of
`Submissions` without replays, and by `StepOfLife` the life of each submission moves as
`SubmissionLife` allows (`LifeStep`).  A check that fails tells nothing of the
submission, unless nothing was lost and nothing restarted: then it had been deleted, or had
ended without a success (`NotGood`), which is why red is excepted after a failure and
green never is.  `Polling` is what makes the colour of waiting temporary: it survives each
step as a timeout becomes a call and a call a timeout again, or gives another colour.

`AsReopened` compares what the page has made of its answers (a list, a number of attempts,
a submission of its own, a status) with `submissions` and `user_tasks`, which the callback
writes in several steps while the page asks.  It rests on `FreshInv`: a page that is not
`stale` (no check met a result that was not counted yet, no call met a selection, nothing
was lost or restarted) was not opened on a submission that waits, so that by `FormInv` it
has one call under way at most.  `FreshMode` says which, `cur` being the submission that
the page has made and whose result it has not been told:

* `Resting`: no call; the only timeout is the one of `cur`, if there is one;
* `Submits`: the call that submits, not reached yet, adding `cur`, with its job launched,
  or answered.  Between the launch and the answer the list of the page still has the
  submissions that were deleted and not `cur` (`ListBut`), and the page owes an attempt;
* `Polls`: the check of `cur`, whose answer waits, reads, or knows the result and whether
  it replaces the selection;
* `Selects`: the selection of a submission, made or not.

In each, the attempts of the page and those of `user_tasks` differ by the submission just
made and not told (`made`) and by the one whose callback has not counted it (`Owed`): the
two have come in either order (`TriesBut`).  The only callback left is the one of `cur`
(`JobOf`), so what a page that rests without `cur` shows is the truth.  The selection of the
server is the page's or `cur` (`MineBut`): a callback sets it to `cur` before
the check that tells so, which is where a result told before it was counted is excepted.
`ResultsKept` (a submission that has ended has a result unless it was given up by a restart)
is needed for a selection not to fail.  `FreshInv` is shown of each step in turn: those of
the server (`ServerFresh`), of the callbacks (`CallbackFresh`), of the page that asks
(`AsksFresh`) and is answered (`AnsweredFresh`), and of the page opened again (`OpenFresh`).

### Client and backend

`JobSystemProofs` proves `TypeCorrect`, `OneCallback` and `TransactionsCaredFor`, for any
number of jobs, connections, agents, kills and restarts of the backend.

That no transaction is an orphan rests on the order of a connection.  A job that a
registered client sent stays with the backend until a `job_done` is on its way; the backend
that restarts loses its jobs, and the exception of the property is that it does not know
the client any more.  Then a later `hello` of the client must not make it known while jobs
it lost are still awaited: `HelloFirst` says that `hello` is the first message of a
connection, so that while it has not been read every transaction still has its `new_job`
behind it.  For the backend each handler is shown once, whatever its caller, to keep its
types, to send only what the client reads, and not to let go of a job without an answer to
its owner (`Served`, with `Keeps`).  `OneCallback` rests on `OnceInv`, the place of a job in the
client: not requested, created, in a transaction, in the thread that ends it, called back.
`SshHeard` says that the ssh callback has been called, or that the thread of the session
has set `called` and is about to: so it is whenever the flag is set and the thread of the
end is not itself between the two, and always when that thread is over, which the callback waits for.
The ssh callback itself has no such bound (`ssh_twice`).

### LTI grades

`LisProofs` proves every safety property of `LisOutcome`, for any number of outcomes, grades,
restarts and attempts.  `LisInv` relates documents and elements in memory by their ids:
ids are given in order (`OldIds`), so that the worker that deletes by id deletes the document
it has sent and not a newer one, and a posted grade is as recent as the document with its id
(`PostedAsCreated`).  As long as no grade is added while the worker loads the documents,
there is one element for each outcome, its document counts at most one attempt more, and the
posts are those the document counts and one for each restart (`AloneInv`).  With such an
overlap two elements may share a document, and the worker dies of the one that is deleted under it:
this is why `ThreadSurvives` and `AttemptsBounded` except it.

### Docker agent

`DockerProofs!PortsSafe` proves `Spec => []PortsAccountedFor`, for any number of jobs, ports,
student containers and kills, from the assumptions on the constants of `DockerAgent` alone.

A port is taken by `handle_new_job` and given back on four paths: when no directory can be
made (one step with the refusals, where it is taken and given back), when docker refuses to
create or to start the container, and when the container has ended.  That none is given
back twice needs the order of what happens to a job: `PortInv` is the types of the variables involved (`PortTypes`),
`SentOnce` (a job is sent and read once, so its handler runs once), `PortOf` and `Account`
(each port is free, or held by one job).  `PortOf` relates the progress of the handler, the
state of the container and the port under which the agent lists it: a job refused or cleaned
up never had a running container; a container that runs, or whose death has not been read,
still has the port its handler took; and a death is the last event of a container, so that
`handle_job_closing_p1` finds the port once.

The other properties, and the refinement, rest on `DockerInv`, one conjunct for each of the
things a handler finds or leaves behind:

* `Life` follows a container from its creation to the end of `handle_job_closing_p2`: it is
  listed as running from its creation until its death is read; the death is in docker's
  events exactly once; its status is in one place only, on its way to the watcher, on its way back,
  or taken.
* `Remembered` says where the knowledge of a kill is.  That `KillsAreReported` holds at the
  end needs that the kill is known at each stage before: `_containers_killed` or
  `container_had_error` while the container is listed as running, the message in the pipeline
  or `container_had_error` after that, then the answer of the watcher.  It speaks of kills that
  a thread is still about to make as well as of those made, since the death may overtake them.
* `Answered` relates the result of a job to its handlers: a job is answered by
  `handle_new_job`, and then has no conversation and never runs, or by the last of the closing
  handlers.  So no job is answered twice, although six places send a result.
* `Served` relates the creation of a student container, its parent and the return value
  sent to it.  That none is sent twice needs that none has been sent while the container is
  up or its end not yet handled.

Each action has a lemma that it keeps `DockerInv`, given `PortInv`.  `AgentTypes`,
`KillsReported`, `AnsweredForgotten` and `StudentsReplied` follow.
`ContractImplemented` proves `Spec => ImplementsContract`: what `C` substitutes is restated
message by message (`Substituted`), and each handler is a step of the contract
or one it does not see.  That no ssh key follows the result needs the port: the
debug port of a container is taken away when its death is read, before the result.

### Model-checked only

Liveness only, which is out of the prover's reach: `EventuallyAnswered` of
`MCDispatch`, `EventuallyCalledBack` of `MCCallBack`, the properties of `MCStudentsLive`,
`EventuallySettled` of `MCLisOutcome`, and `EventuallyUnblocked` of `MCTaskPage`.  Every invariant and every
action property of the passing runs, and the three refinements, are stated by a theorem.

## 5. What is left

1. `CourseCache`: factories and file times.
2. Group tasks: several users share a submission, and `user_tasks` is written for each.

## 6. Not modelled

* Task descriptors, problem types, answer checking, markup, installers, sessions,
  hooks and plugins: sequential code over data, without interleavings.
* `CourseFactory` and `TaskFactory`: caches that compare file times at each request; what
  can go wrong there is between the program and whoever edits files by hand.
* The MCQ agent beyond its messages: `check_answer` is a function of the task; if it
  raises, the job is never answered, as in `unanswered`.
* Of the submissions: group tasks, the deadline, the period after which tokens of the
  limit come back, the archives of inputs in GridFS; of the page, the text of alerts and
  inputs; `studio.js` and `aggregations.js`, forms for teachers without calls that
  overlap.
* The msgpack encoding of messages; `client_buffer` and `client_sync`, thin layers used
  by command-line tools.  Results and feedback pass through the backend and the client
  untouched and are left out of the messages.
* Vendored JavaScript.  A count of JavaScript lines finds about 32,000 in the repository,
  of which all but 3,000 are CodeMirror, jQuery plugins and minified bundles; the program
  itself is in Python, apart from the pages.
