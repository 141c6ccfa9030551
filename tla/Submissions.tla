----------------------------- MODULE Submissions -----------------------------
(***************************************************************************)
(* The submissions of one user to one task, and what is remembered of them *)
(* in user_tasks (frontend/common/submission_manager.py,                   *)
(* frontend/webapp/submission_manager.py, user_manager.py and              *)
(* pages/tasks.py).                                                        *)
(*                                                                         *)
(* Each request runs in a thread of the web server, and the callback of a  *)
(* job in the thread of the client, or inside new_job when the environment *)
(* is not available.  A step is an access to the database, or several that *)
(* nothing can tell apart.  Submissions are numbered as they are inserted, *)
(* which is the order of their submitted_on.  Grades are ranks.            *)
(***************************************************************************)
EXTENDS Integers, FiniteSets, FiniteSetsExt

CONSTANTS
    Threads,        \* threads of the web server
    Watched,        \* those that serve the page of TaskPage
    Settings,       \* what task.yaml may say
    Outcomes,       \* the results of jobs
    MaxJobs,        \* bound: jobs, and submissions
    MaxIncidents    \* bound: replays, copies and restarts of the frontend, together

Results == {"success", "failed", "crash"}
Crash == [result |-> "crash", grade |-> 0]

ASSUME SubmissionsAssumption ==
    /\ IsFiniteSet(Threads)
    /\ Watched \subseteq Threads
    /\ Settings \subseteq [evaluate : {"best", "last", "student"}, stored : Nat, limit : Nat]
    /\ Outcomes \subseteq [result : Results, grade : Nat]
    /\ {MaxJobs, MaxIncidents} \subseteq Nat

Subs == 1 .. MaxJobs
Jobs == 1 .. MaxJobs

VARIABLES
    setting,    \* the settings of the task
    doc,        \* the collection submissions
    task,       \* the document of user_tasks
    job,        \* the jobs given to the client and what is left of their callbacks
    thread,     \* the requests being served
    answer,     \* the answers not yet read by the page
    replays,    \* replays and copies so far
    restarts,   \* restarts so far
    replayed,   \* history: submissions replayed or copied
    overlap,    \* history: a submission was inserted or replayed while another one was
                \* not counted or another request served, or a request met a replay
    orphaned    \* history: the submission used for evaluation was deleted

database == <<doc, task>>
history == <<replayed, overlap, orphaned>>
vars == <<setting, database, job, thread, answer, replays, restarts, history>>

Blank == [status |-> "none", result |-> "none", grade |-> 0, jobid |-> 0]
Idle == [pc |-> "idle", sub |-> 0, job |-> 0, remove |-> {}, set |-> {}]
NoJob == [phase |-> "none", sub |-> 0, newsub |-> FALSE, sync |-> FALSE, set |-> {}]
NoAnswer == [kind |-> "none"]

Init ==
    /\ setting \in Settings
    /\ doc = [s \in Subs |-> Blank]
    /\ task = [tried |-> 0, grade |-> 0, succeeded |-> FALSE, sub |-> 0]
    /\ job = [j \in Jobs |-> NoJob]
    /\ thread = [t \in Threads |-> Idle]
    /\ answer = [t \in Watched |-> NoAnswer]
    /\ replays = 0
    /\ restarts = 0
    /\ replayed = {}
    /\ overlap = FALSE
    /\ orphaned = FALSE

-----------------------------------------------------------------------------
evaluate == setting.evaluate    \* get_evaluate()
Stored == setting.stored        \* get_stored_submissions(): 0 keeps all
Limit == setting.limit          \* the amount of get_submission_limit(): 0 for none

Exists(s) == doc[s].status \in {"waiting", "done", "error"}
Kept == {s \in Subs : Exists(s)}
Waiting == {s \in Subs : doc[s].status = "waiting"}
Done == {s \in Subs : doc[s].status = "done"}
Uncounted == {j \in Jobs : job[j].phase \in {"sent", "stored", "setting"}}

\* The next id of a submission, of a job.
NextSub(s) == doc[s].status = "none" /\ \A u \in 1 .. s - 1 : doc[u].status # "none"
NextJob(j) == job[j] = NoJob /\ \A k \in 1 .. j - 1 : job[k] # NoJob
Checked == {t \in Threads : thread[t].pc = "checked"}
Launching == {t \in Threads : thread[t].pc \in {"inserted", "listed"}}

\* The bound MaxJobs leaves room for one more submission or replay.
Room ==
    /\ Cardinality({s \in Subs : doc[s].status # "none"} \cup Checked) < MaxJobs
    /\ Cardinality({j \in Jobs : job[j] # NoJob} \cup Checked \cup Launching) < MaxJobs

\* Something else is going on, or a replay is.
Disturbed(t) == Uncounted # {} \/ \E u \in Threads \ {t} : thread[u].pc # "idle"
Replaying == \/ \E j \in Uncounted : job[j].sub \in replayed
             \/ \E u \in Threads : thread[u].pc = "replaying"

\* Mutant of Finished: the status is the result.
FinishedAsResult(o) ==
    [status |-> o.result, result |-> o.result, grade |-> o.grade, jobid |-> 0]

\* The document of a submission whose result is o.
Finished(o) ==
    [status |-> IF o.result = "crash" THEN "error" ELSE "done",
     result |-> o.result, grade |-> o.grade, jobid |-> 0]

\* The request of t is answered by a.
Reply(t, a) ==
    /\ thread' = [thread EXCEPT ![t] = Idle]
    /\ answer' = IF t \in Watched THEN [answer EXCEPT ![t] = a] ELSE answer

Goto(t, pc) ==
    /\ thread' = [thread EXCEPT ![t].pc = pc]
    /\ UNCHANGED answer

Failure == [kind |-> "fail"]
ErrorAnswer == [kind |-> "error"]

-----------------------------------------------------------------------------
(* add_job.                                                                 *)

AtLimit == Limit > 0 /\ task.tried >= Limit

\* The limit of submissions, then find_one for one that is waiting.
Post(t) ==
    /\ thread[t].pc = "idle"
    /\ Room
    /\ IF Waiting # {} \/ AtLimit
       THEN Reply(t, ErrorAnswer)
       ELSE Goto(t, "checked")
    /\ overlap' = (overlap \/ Disturbed(t))
    /\ UNCHANGED <<setting, database, job, replays, restarts, replayed, orphaned>>

Insert(t) ==
    /\ thread[t].pc = "checked"
    /\ \E s \in Subs :
         /\ NextSub(s)
         /\ doc' = [doc EXCEPT ![s].status = "waiting"]
         /\ thread' = [thread EXCEPT ![t].sub = s, ![t].pc = "inserted"]
    /\ overlap' = (overlap \/ Disturbed(t))
    /\ UNCHANGED <<setting, task, job, answer, replays, restarts, replayed, orphaned>>

\* What _delete_exceeding_submissions keeps whatever their number: the best
\* submission (the first one with the best grade) or the one selected, and
\* those that are waiting.
BestOf(S) == {s \in S : /\ \A u \in S : doc[u].grade <= doc[s].grade
                        /\ \A u \in S : doc[u].grade = doc[s].grade => s <= u}

\* Mutant of AlwaysKept: the running submissions are not among them.
KeptIfBest ==
    CASE evaluate = "best"    -> BestOf(Done)
      [] evaluate = "student" -> {task.sub} \ {0}
      [] OTHER                -> {}

\* Mutant of AlwaysKept: the best submission is not among them.
KeptIfWaiting == Waiting

AlwaysKept ==
    (CASE evaluate = "best"    -> BestOf(Done)
       [] evaluate = "student" -> {task.sub} \ {0}
       [] OTHER                -> {})
    \cup Waiting

\* The newest ones are kept too, as long as there is room for one.
Exceeding ==
    LET Newer(s) == {u \in Kept : u > s}
    IN  IF Stored = 0 THEN {}
        ELSE {s \in Kept \ AlwaysKept : Cardinality(AlwaysKept \cup Newer(s)) >= Stored}

List(t) ==
    /\ thread[t].pc = "inserted"
    /\ thread' = [thread EXCEPT ![t].remove = Exceeding, ![t].pc = "listed"]
    /\ UNCHANGED <<setting, database, job, answer, replays, restarts, history>>

\* new_job: the job is sent, or the callback is called at once by the thread
\* because the environment is not available.
NewJob(j, s, newsub) ==
    /\ NextJob(j)
    /\ \E sync \in BOOLEAN :
         job' = [job EXCEPT ![j] = [phase |-> "sent", sub |-> s, newsub |-> newsub, sync |-> sync, set |-> {}]]

\* The submissions listed are deleted, whatever they are now, and the job is
\* created.
Launch(t) ==
    LET gone == thread[t].remove
    IN  /\ thread[t].pc = "listed"
        /\ doc' = [s \in Subs |-> IF s \in gone THEN [Blank EXCEPT !.status = "deleted"] ELSE doc[s]]
        /\ orphaned' = (orphaned \/ task.sub \in gone)
        /\ \E j \in Jobs :
             /\ NewJob(j, thread[t].sub, TRUE)
             /\ thread' = [thread EXCEPT ![t].job = j, ![t].pc = "launched"]
        /\ UNCHANGED <<setting, task, answer, replays, restarts, replayed, overlap>>

\* What is left of a job when its callback has ended: new_job may return, or
\* raise, if it has called it.
Forgotten == [NoJob EXCEPT !.phase = "over"]
Over(j, phase) == IF job[j].sync THEN [NoJob EXCEPT !.phase = phase, !.sync = TRUE] ELSE Forgotten
Return(j) == job' = IF job[j].sync THEN [job EXCEPT ![j] = Forgotten] ELSE job

Returned(j) == job[j].sync => job[j].phase \in {"called", "raised"}
Raised(j) == job[j].sync /\ job[j].phase = "raised"
IdOf(j) == IF job[j].sync THEN 0 ELSE j

\* Mutant of StoreJobId: the id is stored whatever the status.
StoreJobIdAnyway(t) ==
    LET s == thread[t].sub
        j == thread[t].job
    IN  /\ thread[t].pc = "launched" /\ Returned(j)
        /\ Reply(t, [kind |-> "ok", sub |-> s, remove |-> thread[t].remove])
        /\ doc' = [doc EXCEPT ![s].jobid = IdOf(j)]
        /\ Return(j)
        /\ UNCHANGED <<setting, task, replays, restarts, history>>

\* The id of the job is stored if the submission is still waiting.
StoreJobId(t) ==
    LET s == thread[t].sub
        j == thread[t].job
    IN  /\ thread[t].pc = "launched"
        /\ Returned(j)
        /\ IF Raised(j)
           THEN /\ Reply(t, ErrorAnswer)
                /\ UNCHANGED doc
           ELSE /\ Reply(t, [kind |-> "ok", sub |-> s, remove |-> thread[t].remove])
                /\ doc' = IF doc[s].status = "waiting" THEN [doc EXCEPT ![s].jobid = IdOf(j)] ELSE doc
        /\ Return(j)
        /\ UNCHANGED <<setting, task, replays, restarts, history>>

-----------------------------------------------------------------------------
(* replay_job, by an administrator.                                         *)

Replay(t) ==
    /\ thread[t].pc = "idle"
    /\ replays + restarts < MaxIncidents /\ Room
    /\ \E s \in Kept, j \in Jobs :
         /\ NewJob(j, s, FALSE)
         /\ thread' = [thread EXCEPT ![t] = [Idle EXCEPT !.pc = "replaying", !.sub = s, !.job = j]]
         /\ replayed' = replayed \cup {s}
    /\ replays' = replays + 1
    /\ overlap' = (overlap \/ Disturbed(t))
    /\ UNCHANGED <<setting, database, answer, restarts, orphaned>>

\* The user, an administrator, copies the submission of somebody else, with
\* its result: it is inserted as it is, and replayed.
ReplayCopy(t) ==
    /\ thread[t].pc = "idle"
    /\ replays + restarts < MaxIncidents /\ Room
    /\ \E s \in Subs, j \in Jobs :
         /\ NextSub(s)
         /\ \E o \in Outcomes : doc' = [doc EXCEPT ![s] = Finished(o)]
         /\ NewJob(j, s, TRUE)
         /\ thread' = [thread EXCEPT ![t] = [Idle EXCEPT !.pc = "replaying", !.sub = s, !.job = j]]
         /\ replayed' = replayed \cup {s}
    /\ replays' = replays + 1
    /\ overlap' = (overlap \/ Disturbed(t))
    /\ UNCHANGED <<setting, task, answer, restarts, orphaned>>

\* The submission is set to waiting, whatever its job has become meanwhile.
Overwrite(t) ==
    LET s == thread[t].sub
        j == thread[t].job
    IN  /\ thread[t].pc = "replaying"
        /\ Returned(j)
        /\ doc' = IF ~Raised(j) /\ Exists(s)
                  THEN [doc EXCEPT ![s] = [Blank EXCEPT !.status = "waiting", !.jobid = IdOf(j)]]
                  ELSE doc
        /\ Reply(t, NoAnswer)
        /\ Return(j)
        /\ UNCHANGED <<setting, task, replays, restarts, history>>

-----------------------------------------------------------------------------
(* _job_done_callback.  The client calls one callback at a time.            *)

ClientBusy == \E j \in Jobs : job[j].phase \in {"stored", "setting"} /\ ~job[j].sync

\* The result is stored, or the callback raises: the submission is deleted.
StoreResult(j) ==
    LET s == job[j].sub
    IN  /\ job[j].phase = "sent"
        /\ job[j].sync \/ ~ClientBusy
        /\ \E o \in IF job[j].sync THEN {Crash} ELSE Outcomes :
             IF Exists(s)
             THEN /\ doc' = [doc EXCEPT ![s] = Finished(o)]
                  /\ job' = [job EXCEPT ![j].phase = "stored", ![j].set = {o}]
             ELSE /\ job' = [job EXCEPT ![j] = Over(j, "raised")]
                  /\ UNCHANGED doc
        /\ UNCHANGED <<setting, task, thread, answer, replays, restarts, history>>

\* What user_tasks is set to.
Evaluation(result, grade, s) == [grade |-> grade, succeeded |-> result = "success", sub |-> s]

\* user_tasks after that: the submission 0 leaves submissionid as it is.
Evaluated(e) == [task EXCEPT !.grade = e.grade, !.succeeded = e.succeeded,
                             !.sub = IF e.sub = 0 THEN @ ELSE e.sub]

\* update_user_stats ends here when there is nothing to set.
Ready(j, set) ==
    job' = [job EXCEPT ![j] = IF set = {} THEN Over(j, "called") ELSE [@ EXCEPT !.set = set, !.phase = "setting"]]

\* Mutant of CountNew: the last submission is treated as the best one.
CountIfBetter(j) ==
    LET s == job[j].sub
    IN  /\ job[j].phase = "stored" /\ job[j].newsub /\ Exists(s)
        /\ task' = [task EXCEPT !.tried = @ + 1]
        /\ Ready(j, {Evaluation(o.result, o.grade, s) :
                       o \in {r \in job[j].set : evaluate # "student" /\ task.grade <= r.grade}})
        /\ UNCHANGED <<setting, doc, thread, answer, replays, restarts, history>>

\* update_user_stats for a new submission: an attempt is counted and the
\* former grade read.  user_saw_task has created the document, so that no
\* submission is selected here if the student selects them.
CountNew(j) ==
    LET s == job[j].sub
    IN  /\ job[j].phase = "stored" /\ job[j].newsub /\ Exists(s)
        /\ task' = [task EXCEPT !.tried = @ + 1]
        /\ Ready(j, {Evaluation(o.result, o.grade, s) :
                       o \in {r \in job[j].set : evaluate = "last" \/ (evaluate = "best" /\ task.grade <= r.grade)}})
        /\ UNCHANGED <<setting, doc, thread, answer, replays, restarts, history>>

\* Mutant of CountReplay: the grade follows the best submission only.
CountReplayIfBest(j) ==
    LET best == IF evaluate = "best" THEN BestOf(Done) ELSE {}
    IN  /\ job[j].phase = "stored" /\ ~job[j].newsub /\ Exists(job[j].sub)
        /\ Ready(j, {Evaluation(doc[d].result, doc[d].grade, d) : d \in best})
        /\ UNCHANGED <<setting, database, thread, answer, replays, restarts, history>>

\* update_user_stats for a replay: the best submission is found again, or the
\* grade follows if the submission is the one used for evaluation.
CountReplay(j) ==
    LET s == job[j].sub
        best == {d \in Done : /\ \A u \in Done : doc[u].grade <= doc[d].grade
                              /\ \A u \in Done : doc[u].grade = doc[d].grade => u <= d}
        followed == IF evaluate = "best" THEN best ELSE {s} \cap {task.sub}
        unset == {d \in followed : doc[d].result = "none"}
    IN  /\ job[j].phase = "stored" /\ ~job[j].newsub /\ Exists(s)
        /\ IF unset = {}
           THEN Ready(j, {Evaluation(doc[d].result, doc[d].grade, IF evaluate = "best" THEN d ELSE 0) : d \in followed})
           ELSE job' = [job EXCEPT ![j] = Over(j, "raised")]
        /\ UNCHANGED <<setting, database, thread, answer, replays, restarts, history>>

\* The submission has been deleted since its result was stored.
CountDeleted(j) ==
    /\ job[j].phase = "stored" /\ ~Exists(job[j].sub)
    /\ job' = [job EXCEPT ![j] = Over(j, "raised")]
    /\ UNCHANGED <<setting, database, thread, answer, replays, restarts, history>>

SetEvaluation(j) ==
    /\ job[j].phase = "setting"
    /\ \E e \in job[j].set : task' = Evaluated(e)
    /\ job' = [job EXCEPT ![j] = Over(j, "called")]
    /\ UNCHANGED <<setting, doc, thread, answer, replays, restarts, history>>

-----------------------------------------------------------------------------
(* The other requests of the page (pages/tasks.py).                         *)

DefaultMissing == task.sub = 0 \/ ~Exists(task.sub)

ResultAnswer(succeeded, replace) == [kind |-> "result", succeeded |-> succeeded, replace |-> replace]

\* "check".  A submission that is done becomes the one used for evaluation if
\* there is none.
Check(t, s) ==
    /\ thread[t].pc = "idle"
    /\ CASE ~Exists(s) -> Reply(t, Failure)
         [] s \in Waiting -> Reply(t, [kind |-> "waiting"])
         [] Exists(s) /\ s \notin Waiting /\ DefaultMissing ->
              /\ thread' = [thread EXCEPT ![t].pc = "missing", ![t].sub = s]
              /\ UNCHANGED answer
         [] OTHER -> Reply(t, ResultAnswer(doc[s].result = "success", task.sub = s))
    /\ overlap' = (overlap \/ Replaying)
    /\ UNCHANGED <<setting, database, job, replays, restarts, replayed, orphaned>>

\* "set_submission"
Select(t, s) ==
    /\ thread[t].pc = "idle"
    /\ IF evaluate = "student"
       THEN thread' = [thread EXCEPT ![t].pc = "select", ![t].sub = s] /\ UNCHANGED answer
       ELSE Reply(t, ErrorAnswer)
    /\ overlap' = (overlap \/ Replaying)
    /\ UNCHANGED <<setting, database, job, replays, restarts, replayed, orphaned>>

\* set_selected_submission: the submission is read, and there may be no result
\* to copy ...
ReadSelected(t) ==
    LET s == thread[t].sub
    IN  /\ thread[t].pc \in {"missing", "select"} /\ thread[t].set = {}
        /\ IF Exists(s) /\ doc[s].result # "none"
           THEN /\ thread' = [thread EXCEPT ![t].set = {Evaluation(doc[s].result, doc[s].grade, s)}]
                /\ UNCHANGED answer
           ELSE Reply(t, Failure)
        /\ UNCHANGED <<setting, database, job, replays, restarts, history>>

\* ... and user_tasks is set.
WriteSelected(t) ==
    /\ thread[t].pc \in {"missing", "select"}
    /\ \E e \in thread[t].set :
         /\ task' = Evaluated(e)
         /\ Reply(t, IF thread[t].pc = "select" THEN [kind |-> "done"] ELSE ResultAnswer(e.succeeded, TRUE))
    /\ UNCHANGED <<setting, doc, job, replays, restarts, history>>

-----------------------------------------------------------------------------
\* Mutant of Restart: update_pending_jobs is not called.
RestartOnly ==
    /\ replays + restarts < MaxIncidents
    /\ restarts' = restarts + 1
    /\ job' = [j \in Jobs |-> IF job[j] = NoJob THEN NoJob ELSE Forgotten]
    /\ thread' = [t \in Threads |-> Idle]
    /\ answer' = [t \in Watched |-> IF thread[t].pc = "idle" THEN answer[t] ELSE Failure]
    /\ UNCHANGED <<setting, database, replays, history>>

\* The frontend stops and starts again: the requests being served fail, the
\* jobs are unknown to the new client, and update_pending_jobs gives up all
\* that waits.
Restart ==
    /\ replays + restarts < MaxIncidents
    /\ restarts' = restarts + 1
    /\ doc' = [s \in Subs |-> IF s \in Waiting THEN [Blank EXCEPT !.status = "error"] ELSE doc[s]]
    /\ job' = [j \in Jobs |-> IF job[j] = NoJob THEN NoJob ELSE Forgotten]
    /\ thread' = [t \in Threads |-> Idle]
    /\ answer' = [t \in Watched |-> IF thread[t].pc = "idle" THEN answer[t] ELSE Failure]
    /\ UNCHANGED <<setting, task, replays, history>>

-----------------------------------------------------------------------------
Serve(t) ==
    \/ Insert(t) \/ List(t) \/ Launch(t) \/ StoreJobId(t)
    \/ Overwrite(t)
    \/ ReadSelected(t) \/ WriteSelected(t)

Callback(j) ==
    StoreResult(j) \/ CountNew(j) \/ CountReplay(j) \/ CountDeleted(j) \/ SetEvaluation(j)

Start(t) ==
    \/ Post(t)
    \/ Replay(t)
    \/ ReplayCopy(t)
    \/ \E s \in Kept : Check(t, s) \/ Select(t, s)

Next ==
    \/ \E t \in Threads : Start(t) \/ Serve(t)
    \/ \E j \in Jobs : Callback(j)
    \/ Restart

Spec == Init /\ [][Next]_vars

-----------------------------------------------------------------------------
Outcome == [result : Results, grade : Nat]
Evaluations == [grade : Nat, succeeded : BOOLEAN, sub : Subs \cup {0}]

TypeOK ==
    /\ setting \in Settings
    /\ doc \in [Subs -> [status : {"none", "waiting", "done", "error", "deleted"},
                         result : Results \cup {"none"}, grade : Nat, jobid : Jobs \cup {0}]]
    /\ task \in [tried : Nat, grade : Nat, succeeded : BOOLEAN, sub : Subs \cup {0}]
    /\ job \in [Jobs -> [phase : {"none", "sent", "stored", "setting", "called", "raised", "over"},
                         sub : Subs \cup {0}, newsub : BOOLEAN, sync : BOOLEAN,
                         set : SUBSET (Outcome \cup Evaluations)]]
    /\ \A j \in Jobs :
         /\ job[j].phase = "stored" => job[j].set \subseteq Outcome
         /\ job[j].phase = "setting" => job[j].set \subseteq Evaluations
         /\ job[j].phase \in {"sent", "stored"} => job[j].sub # 0
         /\ \A x, y \in job[j].set : x = y
    /\ thread \in [Threads -> [pc : {"idle", "checked", "inserted", "listed", "launched", "replaying",
                                     "missing", "select"},
                               sub : Subs \cup {0}, job : Jobs \cup {0}, remove : SUBSET Subs,
                               set : SUBSET Evaluations]]
    /\ \A t \in Threads : thread[t].sub = 0 => thread[t].pc \in {"idle", "checked"}
    /\ replayed \subseteq Subs
    /\ {overlap, orphaned} \subseteq BOOLEAN

\* No request is being served and no callback is left.
Quiet == Uncounted = {} /\ \A t \in Threads : thread[t].pc = "idle"

\* Submissions one after the other, each counted before the next one.
Orderly == restarts = 0 /\ replayed = {} /\ ~overlap

\* A submission that waits (is_running tells that it "is running/in queue") is
\* about to be launched or has a job that runs, whose id is known as soon as
\* the student has an answer.  Those that were replayed are excepted: Overwrite
\* may set them to waiting after their result.  And only a submission that
\* waits has the id of a job, whichever of add_job and the callback ends first:
\* kill would give the client a job that is over.
WaitingIsServed ==
    /\ \A s \in Waiting \ replayed :
         \/ \E t \in Threads : thread[t].sub = s /\ thread[t].pc \in {"inserted", "listed"}
         \/ \E j \in Jobs :
              /\ job[j].phase = "sent" /\ job[j].sub = s
              /\ \/ doc[s].jobid = j
                 \/ \E t \in Threads : thread[t].pc = "launched" /\ thread[t].job = j
    /\ \A s \in Subs : doc[s].jobid # 0 => s \in Waiting

\* When nothing is going on, the grade shown to the student and to the teacher,
\* the one of user_tasks, is the one of the submission used for evaluation, even
\* though both are written in several steps.  A replay that met another request
\* and a restart between two of these steps are excepted.
CacheAgrees ==
    Quiet /\ restarts = 0 /\ task.sub \in Done /\ (overlap => replayed = {}) =>
        /\ task.grade = doc[task.sub].grade
        /\ task.succeeded = (doc[task.sub].result = "success")

\* When submissions come one after the other, the one used for evaluation is
\* what get_evaluate tells: the last one, or one with a grade that no submission
\* exceeds, as long as it has never been deleted; and no more of them than the
\* limit are accepted.  An attempt is only counted by the callback, after the
\* submission has stopped waiting: a request between the two is excepted.
SettingsObeyed ==
    /\ Quiet /\ Orderly /\ ~orphaned /\ Kept # {} =>
         CASE evaluate = "last" -> task.sub = Max(Kept)
           [] evaluate = "best" -> \A s \in Done : doc[s].grade <= task.grade
           [] OTHER             -> TRUE
    /\ Orderly /\ Limit > 0 => Cardinality({s \in Subs : doc[s].status # "none"}) <= Limit

\* When the best submission is used for evaluation, the grade of the task is not
\* below the one of a submission that is kept.
BestIsCounted ==
    Quiet /\ Orderly /\ evaluate = "best" => \A s \in Done : doc[s].grade <= task.grade

\* The life of each submission, with whatever the other ones, the callbacks and
\* the restarts do: it waits, is given one result or given up, and is deleted
\* after that only.
LifeOf(d) == [status |-> d.status, result |-> d.result, grade |-> d.grade]

Life == INSTANCE SubmissionLife WITH
            life   <- [s \in Subs |-> LifeOf(doc[s])],
            Graded <- {LifeOf(Finished(o)) : o \in Outcomes \cup {Crash}}

\* The code does what SubmissionLife promises.
ImplementsLife == Life!Spec

\* Always keep the best submission: whatever _delete_exceeding_submissions read
\* before other threads changed it, no step leaves the user without a grade as
\* good as the best one.
BestSurvives ==
    [][evaluate = "best" /\ replayed = {} =>
         \A s \in Done : \E u \in Subs : doc'[u].status = "done" /\ doc'[u].grade >= doc[s].grade]_vars
=============================================================================
