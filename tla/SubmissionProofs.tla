-------------------------- MODULE SubmissionProofs --------------------------
(***************************************************************************)
(* Proofs about Submissions: any number of threads, submissions, replays   *)
(* and restarts, and any settings and outcomes.                            *)
(***************************************************************************)
EXTENDS Submissions, TLAPS, WellFoundedInduction, FiniteSetTheorems

-----------------------------------------------------------------------------
(* Type correctness.                                                        *)

DocType == [status : {"none", "waiting", "done", "error", "deleted"},
            result : Results \cup {"none"}, grade : Nat, jobid : Jobs \cup {0}]

JobType == [phase : {"none", "sent", "stored", "setting", "called", "raised", "over"},
            sub : Subs \cup {0}, newsub : BOOLEAN, sync : BOOLEAN,
            set : SUBSET (Outcome \cup Evaluations)]

ThreadType == [pc : {"idle", "checked", "inserted", "listed", "launched", "replaying", "missing", "select"},
               sub : Subs \cup {0}, job : Jobs \cup {0}, remove : SUBSET Subs, set : SUBSET Evaluations]

\* A request that has a submission.
ThreadSub(r) == r.sub = 0 => r.pc \in {"idle", "checked"}

\* What a callback has still to do with the result it was given.
JobSet(r) ==
    /\ r.phase = "stored" => r.set \subseteq Outcome
    /\ r.phase = "setting" => r.set \subseteq Evaluations
    /\ r.phase \in {"sent", "stored"} => r.sub # 0
    /\ \A x, y \in r.set : x = y

LEMMA FinishedType == \A o \in Outcome : Finished(o) \in DocType
BY DEF Finished, Outcome, DocType, Results

LEMMA OutcomesType == Outcomes \cup {Crash} \subseteq Outcome
BY SubmissionsAssumption DEF Crash, Outcome, Results

LEMMA RecordTypes ==
    /\ Blank \in DocType
    /\ Idle \in ThreadType /\ ThreadSub(Idle)
    /\ NoJob \in JobType /\ JobSet(NoJob)
    /\ Forgotten \in JobType /\ JobSet(Forgotten)
BY DEF Blank, DocType, Idle, ThreadType, ThreadSub, NoJob, JobType, JobSet, Forgotten, Results

\* One record replaces that of j.
LEMMA JobReplaced ==
    ASSUME TypeOK, NEW j \in Jobs, NEW r \in JobType, JobSet(r), job' = [job EXCEPT ![j] = r]
    PROVE  /\ job' \in [Jobs -> JobType]
           /\ \A k \in Jobs : JobSet(job'[k])
BY DEF TypeOK, JobType, JobSet

LEMMA OverType ==
    ASSUME TypeOK, NEW j \in Jobs, NEW p \in {"called", "raised"}
    PROVE  Over(j, p) \in JobType /\ JobSet(Over(j, p))
BY RecordTypes DEF Over, NoJob, JobType, JobSet, Forgotten

LEMMA ReturnType ==
    ASSUME TypeOK, NEW j \in Jobs \cup {0}, Return(j)
    PROVE  /\ job' \in [Jobs -> JobType]
           /\ \A k \in Jobs : JobSet(job'[k])
<1>1. job \in [Jobs -> JobType] /\ \A k \in Jobs : JobSet(job[k])
  BY DEF TypeOK, JobType, JobSet
<1> QED
  BY <1>1, RecordTypes DEF Return

LEMMA NewJobType ==
    ASSUME TypeOK, NEW j \in Jobs, NEW s \in Subs, NEW n \in BOOLEAN, NewJob(j, s, n)
    PROVE  /\ job' \in [Jobs -> JobType]
           /\ \A k \in Jobs : JobSet(job'[k])
<1>1. PICK y \in BOOLEAN :
        job' = [job EXCEPT ![j] = [phase |-> "sent", sub |-> s, newsub |-> n, sync |-> y, set |-> {}]]
  BY DEF NewJob
<1> DEFINE r == [phase |-> "sent", sub |-> s, newsub |-> n, sync |-> y, set |-> {}]
<1>2. r \in JobType /\ JobSet(r)
  BY DEF JobType, JobSet, Subs
<1> QED
  BY <1>1, <1>2, JobReplaced

LEMMA ReplyType ==
    ASSUME TypeOK, NEW t \in Threads, NEW a, Reply(t, a)
    PROVE  thread' \in [Threads -> ThreadType] /\ \A u \in Threads : ThreadSub(thread'[u])
BY RecordTypes DEF TypeOK, ThreadType, ThreadSub, Reply, Idle

LEMMA InitType == Init => TypeOK
<1> SUFFICES ASSUME Init PROVE TypeOK
  OBVIOUS
<1>1. setting \in Settings /\ replayed \subseteq Subs /\ {overlap, orphaned} \subseteq BOOLEAN
  BY DEF Init
<1>2. doc \in [Subs -> DocType] /\ thread \in [Threads -> ThreadType] /\ \A t \in Threads : ThreadSub(thread[t])
  BY RecordTypes DEF Init
<1>3. task \in [tried : Nat, grade : Nat, succeeded : BOOLEAN, sub : Subs \cup {0}]
  BY DEF Init
<1>4. job \in [Jobs -> JobType] /\ \A j \in Jobs : JobSet(job[j])
  BY RecordTypes DEF Init
<1> QED
  BY <1>1, <1>2, <1>3, <1>4 DEF TypeOK, DocType, JobType, ThreadType, ThreadSub, JobSet

TaskType == [tried : Nat, grade : Nat, succeeded : BOOLEAN, sub : Subs \cup {0}]

\* TypeOK by variable; each step below shows the parts it may disturb.
Parts ==
    /\ setting \in Settings
    /\ doc \in [Subs -> DocType]
    /\ task \in TaskType
    /\ job \in [Jobs -> JobType] /\ \A j \in Jobs : JobSet(job[j])
    /\ thread \in [Threads -> ThreadType] /\ \A t \in Threads : ThreadSub(thread[t])
    /\ replayed \subseteq Subs
    /\ overlap \in BOOLEAN /\ orphaned \in BOOLEAN

LEMMA PartsOfType == TypeOK <=> Parts
BY DEF TypeOK, Parts, DocType, TaskType, JobType, ThreadType, ThreadSub, JobSet

LEMMA EvaluationType ==
    ASSUME NEW result, NEW grade \in Nat, NEW s \in Subs \cup {0}
    PROVE  Evaluation(result, grade, s) \in Evaluations
BY DEF Evaluation, Evaluations

LEMMA EvaluatedType ==
    ASSUME Parts, NEW e \in Evaluations
    PROVE  Evaluated(e) \in TaskType
BY DEF Parts, Evaluated, Evaluations, TaskType

LEMMA ReplayingType ==
    ASSUME Parts, NEW t \in Threads, NEW s \in Subs, NEW j \in Jobs,
           thread' = [thread EXCEPT ![t] = [Idle EXCEPT !.pc = "replaying", !.sub = s, !.job = j]]
    PROVE  thread' \in [Threads -> ThreadType] /\ \A u \in Threads : ThreadSub(thread'[u])
<1> DEFINE r == [Idle EXCEPT !.pc = "replaying", !.sub = s, !.job = j]
<1>1. r \in ThreadType /\ r.sub = s
  <2>1. Idle \in ThreadType
    BY RecordTypes
  <2> QED
    BY <2>1 DEF ThreadType
<1>2. ThreadSub(r)
  BY <1>1 DEF ThreadSub, Subs
<1>3. thread' = [thread EXCEPT ![t] = r]
  OBVIOUS
<1> HIDE DEF r
<1> QED
  BY <1>1, <1>2, <1>3 DEF Parts

\* The steps of a request.
LEMMA ServeType ==
    ASSUME Parts, NEW t \in Threads, Serve(t)
    PROVE  Parts'
<1> USE PartsOfType
<1>1. CASE Insert(t)
  BY <1>1 DEF Insert, Parts, DocType, ThreadType, ThreadSub
<1>2. CASE List(t)
  <2>1. Exceeding \subseteq Subs
    BY DEF Exceeding, Kept
  <2> QED
    BY <1>2, <2>1 DEF List, Parts, ThreadType, ThreadSub, history
<1>3. CASE Launch(t)
  <2>1. doc' \in [Subs -> DocType]
    BY <1>3 DEF Launch, Parts, DocType, Blank
  <2>2. PICK j \in Jobs : /\ NewJob(j, thread[t].sub, TRUE)
                          /\ thread' = [thread EXCEPT ![t].job = j, ![t].pc = "launched"]
    BY <1>3 DEF Launch
  <2>3. /\ thread[t].sub \in Subs
        /\ thread' \in [Threads -> ThreadType] /\ \A u \in Threads : ThreadSub(thread'[u])
    BY <1>3, <2>2 DEF Launch, Parts, ThreadType, ThreadSub
  <2>4. job' \in [Jobs -> JobType] /\ \A k \in Jobs : JobSet(job'[k])
    BY <2>2, <2>3, NewJobType
  <2>5. orphaned' \in BOOLEAN
    BY <1>3 DEF Launch, Parts
  <2> QED
    BY <1>3, <2>1, <2>3, <2>4, <2>5 DEF Launch, Parts
<1>4. CASE StoreJobId(t)
  <2> DEFINE j == thread[t].job
  <2>1. j \in Jobs \cup {0}
    BY DEF Parts, ThreadType
  <2>2. job' \in [Jobs -> JobType] /\ \A k \in Jobs : JobSet(job'[k])
    BY <1>4, <2>1, ReturnType DEF StoreJobId
  <2>3. thread' \in [Threads -> ThreadType] /\ \A u \in Threads : ThreadSub(thread'[u])
    BY <1>4, ReplyType DEF StoreJobId
  <2>4. IdOf(j) \in Jobs \cup {0}
    BY <2>1 DEF IdOf
  <2>5. doc' \in [Subs -> DocType]
    BY <1>4, <2>4 DEF StoreJobId, Parts, DocType
  <2> QED
    BY <1>4, <2>2, <2>3, <2>5 DEF StoreJobId, Parts, history
<1>5. CASE Overwrite(t)
  <2> DEFINE j == thread[t].job
  <2>1. j \in Jobs \cup {0}
    BY DEF Parts, ThreadType
  <2>2. job' \in [Jobs -> JobType] /\ \A k \in Jobs : JobSet(job'[k])
    BY <1>5, <2>1, ReturnType DEF Overwrite
  <2>3. thread' \in [Threads -> ThreadType] /\ \A u \in Threads : ThreadSub(thread'[u])
    BY <1>5, ReplyType DEF Overwrite
  <2>4. IdOf(j) \in Jobs \cup {0}
    BY <2>1 DEF IdOf
  <2>5. [Blank EXCEPT !.status = "waiting", !.jobid = IdOf(j)] \in DocType
    BY <2>4 DEF Blank, DocType
  <2>6. doc' \in [Subs -> DocType]
    BY <1>5, <2>5 DEF Overwrite, Parts
  <2> QED
    BY <1>5, <2>2, <2>3, <2>6 DEF Overwrite, Parts, history
<1>6. CASE ReadSelected(t)
  <2> DEFINE s == thread[t].sub
             e == Evaluation(doc[s].result, doc[s].grade, s)
  <2>1. s \in Subs
    BY <1>6 DEF Parts, ThreadType, ThreadSub, ReadSelected
  <2>2. e \in Evaluations
    BY <2>1 DEF Parts, DocType, Evaluation, Evaluations
  <2>3. CASE Exists(s) /\ doc[s].result # "none"
    <3>1. thread' = [thread EXCEPT ![t].set = {e}]
      BY <1>6, <2>3 DEF ReadSelected
    <3>2. thread' \in [Threads -> ThreadType] /\ \A u \in Threads : ThreadSub(thread'[u])
      BY <2>2, <3>1 DEF Parts, ThreadType, ThreadSub
    <3> QED
      BY <1>6, <3>2 DEF ReadSelected, Parts, database, history
  <2>4. CASE ~(Exists(s) /\ doc[s].result # "none")
    <3>1. thread' \in [Threads -> ThreadType] /\ \A u \in Threads : ThreadSub(thread'[u])
      BY <1>6, <2>4, ReplyType DEF ReadSelected
    <3> QED
      BY <1>6, <3>1 DEF ReadSelected, Parts, database, history
  <2> QED
    BY <2>3, <2>4
<1>7. CASE WriteSelected(t)
  <2>1. PICK e \in thread[t].set :
          /\ task' = Evaluated(e)
          /\ Reply(t, IF thread[t].pc = "select" THEN [kind |-> "done"] ELSE ResultAnswer(e.succeeded, TRUE))
    BY <1>7 DEF WriteSelected
  <2>2. e \in Evaluations
    BY <2>1 DEF Parts, ThreadType
  <2>3. task' \in TaskType
    BY <2>1, <2>2, EvaluatedType
  <2>4. thread' \in [Threads -> ThreadType] /\ \A u \in Threads : ThreadSub(thread'[u])
    BY <2>1, ReplyType
  <2> QED
    BY <1>7, <2>3, <2>4 DEF WriteSelected, Parts, history
<1> QED
  BY <1>1, <1>2, <1>3, <1>4, <1>5, <1>6, <1>7 DEF Serve

\* The steps of a callback.
LEMMA CallbackType ==
    ASSUME Parts, NEW j \in Jobs, Callback(j)
    PROVE  Parts'
<1> USE PartsOfType
<1> DEFINE s == job[j].sub
<1>1. ASSUME NEW set \in SUBSET Evaluations, \A x, y \in set : x = y, Ready(j, set)
      PROVE  job' \in [Jobs -> JobType] /\ \A k \in Jobs : JobSet(job'[k])
  <2>1. CASE set = {}
    BY <1>1, <2>1, OverType, JobReplaced DEF Ready
  <2>2. CASE set # {}
    <3> DEFINE r == [job[j] EXCEPT !.set = set, !.phase = "setting"]
    <3>1. r \in JobType /\ JobSet(r)
      <4>1. job[j] \in JobType
        BY DEF Parts
      <4>2. r \in JobType /\ r.set = set /\ r.phase = "setting"
        BY <1>1, <4>1 DEF JobType
      <4> QED
        BY <1>1, <4>2 DEF JobSet
    <3>2. job' = [job EXCEPT ![j] = r]
      BY <1>1, <2>2 DEF Ready
    <3> QED
      BY <3>1, <3>2, JobReplaced
  <2> QED
    BY <2>1, <2>2
<1>2. CASE StoreResult(j)
  <2>1. s \in Subs
    BY <1>2 DEF Parts, JobType, JobSet, StoreResult
  <2>2. PICK o \in IF job[j].sync THEN {Crash} ELSE Outcomes :
             IF Exists(s)
             THEN /\ doc' = [doc EXCEPT ![s] = Finished(o)]
                  /\ job' = [job EXCEPT ![j].phase = "stored", ![j].set = {o}]
             ELSE /\ job' = [job EXCEPT ![j] = Over(j, "raised")]
                  /\ UNCHANGED doc
    BY <1>2 DEF StoreResult
  <2>3. o \in Outcome
    BY <2>2, OutcomesType
  <2>4. doc' \in [Subs -> DocType]
    BY <2>1, <2>2, <2>3, FinishedType DEF Parts
  <2>5. job' \in [Jobs -> JobType] /\ \A k \in Jobs : JobSet(job'[k])
    <3>1. CASE Exists(s)
      <4> DEFINE r == [job[j] EXCEPT !.phase = "stored", !.set = {o}]
      <4>1. r \in JobType /\ JobSet(r)
        <5>1. job[j] \in JobType
          BY DEF Parts
        <5>2. r \in JobType /\ r.set = {o} /\ r.phase = "stored" /\ r.sub = s
          BY <2>3, <5>1 DEF JobType
        <5> HIDE DEF r
        <5> QED
          BY <2>1, <2>3, <5>2 DEF JobSet, Subs
      <4>2. job' = [job EXCEPT ![j] = r]
        BY <2>2, <3>1
      <4> QED
        BY <4>1, <4>2, JobReplaced
    <3>2. CASE ~Exists(s)
      BY <2>2, <3>2, OverType, JobReplaced
    <3> QED
      BY <3>1, <3>2
  <2> QED
    BY <1>2, <2>4, <2>5 DEF StoreResult, Parts, history
<1>3. CASE CountNew(j)
  <2> DEFINE set == {Evaluation(o.result, o.grade, s) :
                       o \in {r \in job[j].set : evaluate = "last" \/ (evaluate = "best" /\ task.grade <= r.grade)}}
  <2>1. job[j].set \subseteq Outcome /\ s \in Subs \cup {0} /\ \A x, y \in job[j].set : x = y
    BY <1>3 DEF CountNew, Parts, JobType, JobSet
  <2>2. set \in SUBSET Evaluations
    <3>1. \A o \in job[j].set : o.grade \in Nat
      BY <2>1 DEF Outcome
    <3> QED
      BY <2>1, <3>1, EvaluationType
  <2>3. \A x, y \in set : x = y
    BY <2>1
  <2>4. Ready(j, set)
    BY <1>3 DEF CountNew
  <2>5. job' \in [Jobs -> JobType] /\ \A k \in Jobs : JobSet(job'[k])
    BY <1>1, <2>2, <2>3, <2>4
  <2>6. task' \in TaskType
    BY <1>3 DEF CountNew, Parts, TaskType
  <2> QED
    BY <1>3, <2>5, <2>6 DEF CountNew, Parts, history
<1>4. CASE CountReplay(j)
  <2> DEFINE best == {d \in Done : /\ \A u \in Done : doc[u].grade <= doc[d].grade
                                   /\ \A u \in Done : doc[u].grade = doc[d].grade => u <= d}
             followed == IF evaluate = "best" THEN best ELSE {s} \cap {task.sub}
             set == {Evaluation(doc[d].result, doc[d].grade, IF evaluate = "best" THEN d ELSE 0) : d \in followed}
  <2>1. s \in Subs
    BY <1>4 DEF CountReplay, Parts, JobType, JobSet
  <2>2. followed \subseteq Subs
    BY <2>1 DEF Done
  <2>3. \A d \in followed : doc[d].grade \in Nat
    BY <2>2 DEF Parts, DocType
  <2>4. set \in SUBSET Evaluations
    BY <2>2, <2>3, EvaluationType
  <2>5. \A x, y \in followed : x = y
    <3>1. CASE evaluate = "best"
      <4>1. ASSUME NEW x \in best, NEW y \in best PROVE x = y
        <5>1. x \in Subs /\ y \in Subs /\ x \in Done /\ y \in Done
          BY DEF Done
        <5>2. doc[x].grade <= doc[y].grade /\ doc[y].grade <= doc[x].grade
          BY <5>1
        <5>3. doc[x].grade = doc[y].grade
          BY <5>1, <5>2 DEF Parts, DocType
        <5>4. x <= y /\ y <= x
          BY <5>1, <5>3
        <5> QED
          BY <5>1, <5>4 DEF Subs
      <4> QED
        BY <3>1, <4>1
    <3>2. CASE evaluate # "best"
      BY <3>2
    <3> QED
      BY <3>1, <3>2
  <2>6. \A x, y \in set : x = y
    BY <2>5
  <2>7. Ready(j, set) \/ job' = [job EXCEPT ![j] = Over(j, "raised")]
    BY <1>4 DEF CountReplay
  <2>8. job' \in [Jobs -> JobType] /\ \A k \in Jobs : JobSet(job'[k])
    BY <1>1, <2>4, <2>6, <2>7, OverType, JobReplaced
  <2> QED
    BY <1>4, <2>8 DEF CountReplay, Parts, database, history
<1>5. CASE CountDeleted(j)
  BY <1>5, OverType, JobReplaced DEF CountDeleted, Parts, database, history
<1>6. CASE SetEvaluation(j)
  <2>1. PICK e \in job[j].set : task' = Evaluated(e)
    BY <1>6 DEF SetEvaluation
  <2>2. e \in Evaluations
    BY <1>6, <2>1 DEF SetEvaluation, Parts, JobSet
  <2>3. job' \in [Jobs -> JobType] /\ \A k \in Jobs : JobSet(job'[k])
    BY <1>6, OverType, JobReplaced DEF SetEvaluation
  <2> QED
    BY <1>6, <2>1, <2>2, <2>3, EvaluatedType DEF SetEvaluation, Parts, history
<1> QED
  BY <1>2, <1>3, <1>4, <1>5, <1>6 DEF Callback

\* A request begins.
LEMMA StartType ==
    ASSUME Parts, NEW t \in Threads, Start(t)
    PROVE  Parts'
<1> USE PartsOfType
<1>1. CASE Post(t)
  <2>1. thread' \in [Threads -> ThreadType] /\ \A u \in Threads : ThreadSub(thread'[u])
    BY <1>1, ReplyType DEF Post, Goto, Parts, ThreadType, ThreadSub
  <2> QED
    BY <1>1, <2>1 DEF Post, Parts, database
<1>2. CASE Replay(t)
  <2>1. PICK s \in Kept, j \in Jobs :
          /\ NewJob(j, s, FALSE)
          /\ thread' = [thread EXCEPT ![t] = [Idle EXCEPT !.pc = "replaying", !.sub = s, !.job = j]]
          /\ replayed' = replayed \cup {s}
    BY <1>2 DEF Replay
  <2>2. s \in Subs
    BY DEF Kept
  <2>3. job' \in [Jobs -> JobType] /\ \A k \in Jobs : JobSet(job'[k])
    BY <2>1, <2>2, NewJobType
  <2>4. thread' \in [Threads -> ThreadType] /\ \A u \in Threads : ThreadSub(thread'[u])
    BY <2>1, <2>2, ReplayingType
  <2> QED
    BY <1>2, <2>1, <2>2, <2>3, <2>4 DEF Replay, Parts, database
<1>3. CASE ReplayCopy(t)
  <2>1. PICK s \in Subs, j \in Jobs :
          /\ \E o \in Outcomes : doc' = [doc EXCEPT ![s] = Finished(o)]
          /\ NewJob(j, s, TRUE)
          /\ thread' = [thread EXCEPT ![t] = [Idle EXCEPT !.pc = "replaying", !.sub = s, !.job = j]]
          /\ replayed' = replayed \cup {s}
    BY <1>3 DEF ReplayCopy
  <2>2. doc' \in [Subs -> DocType]
    BY <2>1, FinishedType, OutcomesType DEF Parts
  <2>3. job' \in [Jobs -> JobType] /\ \A k \in Jobs : JobSet(job'[k])
    BY <2>1, NewJobType
  <2>4. thread' \in [Threads -> ThreadType] /\ \A u \in Threads : ThreadSub(thread'[u])
    BY <2>1, ReplayingType
  <2> QED
    BY <1>3, <2>1, <2>2, <2>3, <2>4 DEF ReplayCopy, Parts
<1>4. ASSUME NEW s \in Kept, Check(t, s) PROVE Parts'
  <2>1. s \in Subs
    BY DEF Kept
  <2>2. \/ \E a : Reply(t, a)
        \/ thread' = [thread EXCEPT ![t].pc = "missing", ![t].sub = s]
    BY <1>4 DEF Check
  <2>3. thread' \in [Threads -> ThreadType] /\ \A u \in Threads : ThreadSub(thread'[u])
    BY <2>1, <2>2, ReplyType DEF Parts, ThreadType, ThreadSub, Subs
  <2> QED
    BY <1>4, <2>3 DEF Check, Parts, database
<1>5. ASSUME NEW s \in Kept, Select(t, s) PROVE Parts'
  <2>1. s \in Subs
    BY DEF Kept
  <2>2. \/ \E a : Reply(t, a)
        \/ thread' = [thread EXCEPT ![t].pc = "select", ![t].sub = s]
    BY <1>5 DEF Select
  <2>3. thread' \in [Threads -> ThreadType] /\ \A u \in Threads : ThreadSub(thread'[u])
    BY <2>1, <2>2, ReplyType DEF Parts, ThreadType, ThreadSub, Subs
  <2> QED
    BY <1>5, <2>3 DEF Select, Parts, database
<1> QED
  BY <1>1, <1>2, <1>3, <1>4, <1>5 DEF Start

LEMMA RestartType == Parts /\ Restart => Parts'
<1> SUFFICES ASSUME Parts, Restart PROVE Parts'
  OBVIOUS
<1>1. [Blank EXCEPT !.status = "error"] \in DocType
  BY DEF Blank, DocType
<1>2. doc' \in [Subs -> DocType]
  BY <1>1 DEF Restart, Parts
<1>3. job' \in [Jobs -> JobType] /\ \A k \in Jobs : JobSet(job'[k])
  BY RecordTypes DEF Restart, Parts
<1>4. thread' \in [Threads -> ThreadType] /\ \A u \in Threads : ThreadSub(thread'[u])
  BY RecordTypes DEF Restart, Parts
<1> QED
  BY <1>2, <1>3, <1>4 DEF Restart, Parts, history

LEMMA TypeStep == TypeOK /\ [Next]_vars => TypeOK'
<1> SUFFICES ASSUME Parts, [Next]_vars PROVE Parts'
  <2>1. TypeOK' <=> Parts'
    BY PartsOfType, PTL
  <2> QED
    BY <2>1, PartsOfType
<1>1. CASE UNCHANGED vars
  BY <1>1 DEF vars, Parts, database, history
<1>2. ASSUME NEW t \in Threads, Start(t) \/ Serve(t) PROVE Parts'
  BY <1>2, StartType, ServeType
<1>3. ASSUME NEW j \in Jobs, Callback(j) PROVE Parts'
  BY <1>3, CallbackType
<1> QED
  BY <1>1, <1>2, <1>3, RestartType DEF Next

\* The variables of Submissions keep their types: whatever steps of requests,
\* callbacks, replays and restarts meet, no document is left half-written.
THEOREM TypeCorrect == Spec => []TypeOK
<1>1. Init => TypeOK
  BY InitType
<1> QED
  BY <1>1, TypeStep, PTL DEF Spec

-----------------------------------------------------------------------------
(* The life of a submission.                                                *)

\* The requests of add_job that have not launched s yet, those that have and not
\* answered, and the jobs that will give it a result.
Serving(s) == {t \in Threads : thread[t].sub = s /\ thread[t].pc \in {"inserted", "listed"}}
Launched(s) == {t \in Threads : thread[t].sub = s /\ thread[t].pc = "launched"}
Running(s) == {j \in Jobs : job[j].sub = s /\ job[j].phase = "sent"}

\* What is stored of s besides its status follows from the status.
Shape(s) ==
    /\ doc[s].status \in {"none", "waiting", "deleted"} => LifeOf(doc[s]) = Life!Without(doc[s].status)
    /\ doc[s].status \in {"done", "error"} =>
         LifeOf(doc[s]) \in {LifeOf(Finished(o)) : o \in Outcomes \cup {Crash}} \cup {Life!GivenUp}
    /\ doc[s].jobid # 0 => doc[s].status = "waiting"

\* Exactly one request or job will bring s its result, as long as it waits, and
\* none if it does not.
Care(s) ==
    /\ Serving(s) # {} \/ Running(s) # {} => doc[s].status = "waiting"
    /\ \A t, u \in Serving(s) : t = u
    /\ \A j, k \in Running(s) : j = k
    /\ Serving(s) # {} => Running(s) = {} /\ Launched(s) = {}
    /\ \A t \in Launched(s), j \in Running(s) : thread[t].job = j
    /\ Launched(s) # {} => doc[s].status # "none"
    /\ doc[s].status = "waiting" =>
         \/ Serving(s) # {}
         \/ \E j \in Running(s) : doc[s].jobid = j \/ \E t \in Launched(s) : thread[t].job = j

\* What a request may delete does not wait, and it replays what is replayed.
Careful(t) ==
    /\ \A s \in thread[t].remove \ replayed : doc[s].status \in {"done", "error", "deleted"}
    /\ thread[t].pc = "replaying" => thread[t].sub \in replayed

Cared ==
    /\ \A s \in Subs : Shape(s)
    /\ \A s \in Subs \ replayed : Care(s)
    /\ \A t \in Threads : Careful(t)

\* The inductive invariant.
LifeInv == TypeOK /\ Cared

\* Nothing about s changes.
LEMMA CareFrame ==
    ASSUME NEW s \in Subs, Care(s),
           doc'[s].status = doc[s].status, doc'[s].jobid = doc[s].jobid,
           Serving(s)' = Serving(s), Launched(s)' = Launched(s), Running(s)' = Running(s),
           \A t \in Launched(s) : thread'[t].job = thread[t].job
    PROVE  Care(s)'
BY DEF Care

\* A request that is not one of add_job takes a step, or is answered.
LEMMA ThreadFrame ==
    ASSUME thread \in [Threads -> ThreadType], NEW t \in Threads, NEW s \in Subs, NEW r,
           thread' = [thread EXCEPT ![t] = r],
           r.pc \notin {"inserted", "listed", "launched"},
           thread[t].sub = s => thread[t].pc \notin {"inserted", "listed", "launched"}
    PROVE  /\ Serving(s)' = Serving(s)
           /\ Launched(s)' = Launched(s)
           /\ \A u \in Launched(s) : thread'[u].job = thread[u].job
BY DEF Serving, Launched

\* The record of a job that has been called back changes, or of another one.
LEMMA JobFrame ==
    ASSUME job \in [Jobs -> JobType], NEW j \in Jobs, NEW s \in Subs, NEW r,
           job' = [job EXCEPT ![j] = r],
           r.sub = s => r.phase # "sent", job[j].sub = s => job[j].phase # "sent"
    PROVE  Running(s)' = Running(s)
BY DEF Running

LEMMA ReturnFrame ==
    ASSUME job \in [Jobs -> JobType], NEW j, NEW s \in Subs, Return(j), Returned(j)
    PROVE  Running(s)' = Running(s)
<1>1. Forgotten.phase = "over"
  BY DEF Forgotten, NoJob
<1> QED
  BY <1>1 DEF Return, Returned, Running

LEMMA OverFrame ==
    ASSUME NEW j \in Jobs, NEW p \in {"called", "raised"}
    PROVE  Over(j, p).phase # "sent"
BY DEF Over, Forgotten, NoJob

LEMMA NewJobFrame ==
    ASSUME job \in [Jobs -> JobType], NEW j \in Jobs, NEW u \in Subs, NEW n \in BOOLEAN, NewJob(j, u, n),
           NEW s \in Subs, s # u
    PROVE  Running(s)' = Running(s)
<1>1. PICK y \in BOOLEAN :
        job' = [job EXCEPT ![j] = [phase |-> "sent", sub |-> u, newsub |-> n, sync |-> y, set |-> {}]]
  BY DEF NewJob
<1>2. job[j].phase # "sent"
  BY DEF NewJob, NextJob, NoJob
<1> QED
  BY <1>1, <1>2, JobFrame

\* Whatever does not touch the collection preserves the shapes, and what others
\* may delete.
LEMMA ShapeFrame ==
    ASSUME NEW s \in Subs, Shape(s), doc'[s] = doc[s]
    PROVE  Shape(s)'
BY DEF Shape, LifeOf, Life!Without, Life!GivenUp

LEMMA CarefulFrame ==
    ASSUME NEW u \in Threads, Careful(u), thread'[u] = thread[u], replayed \subseteq replayed',
           \A s \in thread[u].remove \ replayed' :
             doc[s].status \in {"done", "error", "deleted"} => doc'[s].status \in {"done", "error", "deleted"}
    PROVE  Careful(u)'
BY DEF Careful

\* A result gives a document its shape.
LEMMA FinishedShape ==
    ASSUME NEW s \in Subs, NEW o \in Outcomes \cup {Crash}, doc'[s] = Finished(o)
    PROVE  Shape(s)' /\ doc'[s].status \in {"done", "error"}
<1>1. doc'[s].status \in {"done", "error"} /\ doc'[s].jobid = 0
  BY DEF Finished
<1>2. LifeOf(doc'[s]) = LifeOf(Finished(o))
  OBVIOUS
<1> QED
  BY <1>1, <1>2 DEF Shape

LEMMA BlankShape ==
    ASSUME NEW s \in Subs, NEW status \in {"waiting", "deleted", "error"}, NEW id,
           doc'[s].status = status, doc'[s].result = "none", doc'[s].grade = 0, doc'[s].jobid = id,
           id # 0 => status = "waiting"
    PROVE  Shape(s)'
<1>1. LifeOf(doc'[s]) = Life!Without(status)
  BY DEF LifeOf, Life!Without
<1> QED
  BY <1>1 DEF Shape, Life!GivenUp

LEMMA InsertKeeps ==
    ASSUME Parts, Cared, NEW t \in Threads, Insert(t)
    PROVE  Cared'
<1>1. PICK n \in Subs : /\ NextSub(n)
                        /\ doc' = [doc EXCEPT ![n].status = "waiting"]
                        /\ thread' = [thread EXCEPT ![t].sub = n, ![t].pc = "inserted"]
  BY DEF Insert
<1>2. /\ thread[t].pc = "checked" /\ UNCHANGED <<job, replayed>>
      /\ doc[n].status = "none"
  BY <1>1 DEF Insert, NextSub
<1>3. doc \in [Subs -> DocType] /\ thread \in [Threads -> ThreadType] /\ job \in [Jobs -> JobType]
  BY DEF Parts
<1>4. ASSUME NEW s \in Subs PROVE Shape(s)'
  <2>1. CASE s # n
    BY <1>1, <1>3, <2>1, ShapeFrame DEF Cared
  <2>2. CASE s = n
    <3>1. LifeOf(doc[n]) = Life!Without("none") /\ doc[n].jobid = 0
      BY <1>2 DEF Cared, Shape
    <3>2. doc[n].result = "none" /\ doc[n].grade = 0
      BY <3>1 DEF LifeOf, Life!Without
    <3>3. doc'[n] = [doc[n] EXCEPT !.status = "waiting"] /\ doc[n] \in DocType
      BY <1>1, <1>3
    <3>4. /\ doc'[n].status = "waiting" /\ doc'[n].result = "none" /\ doc'[n].grade = 0 /\ doc'[n].jobid = 0
      BY <3>1, <3>2, <3>3 DEF DocType
    <3> QED
      BY <2>2, <3>4, BlankShape
  <2> QED
    BY <2>1, <2>2
<1>5. ASSUME NEW s \in Subs \ replayed PROVE Care(s)'
  <2>1. Care(s)
    BY DEF Cared
  <2>2. CASE s # n
    <3>1. Serving(s)' = Serving(s) /\ Launched(s)' = Launched(s) /\ \A u \in Launched(s) : thread'[u].job = thread[u].job
      BY <1>1, <1>2, <1>3, <2>2 DEF Serving, Launched, ThreadType
    <3>2. Running(s)' = Running(s)
      BY <1>2 DEF Running
    <3> QED
      BY <1>1, <1>3, <2>1, <2>2, <3>1, <3>2, CareFrame
  <2>3. CASE s = n
    <3>1. Serving(s) = {} /\ Running(s) = {} /\ Launched(s) = {}
      BY <1>2, <2>1, <2>3 DEF Care
    <3>2. Serving(s)' = {t} /\ Launched(s)' = {}
      BY <1>1, <1>3, <2>3, <3>1 DEF Serving, Launched, ThreadType
    <3>3. Running(s)' = {}
      BY <1>2, <3>1 DEF Running
    <3>4. doc'[s].status = "waiting"
      BY <1>1, <1>3, <2>3 DEF DocType
    <3> QED
      BY <3>2, <3>3, <3>4 DEF Care
  <2> QED
    BY <2>2, <2>3
<1>6. ASSUME NEW u \in Threads PROVE Careful(u)'
  <2>1. Careful(u) /\ thread'[u].remove = thread[u].remove
    BY <1>1, <1>3 DEF Cared, ThreadType
  <2>2. thread'[u].pc = "replaying" => thread'[u].sub \in replayed
    BY <1>1, <1>3, <2>1 DEF Careful, ThreadType
  <2>3. \A s \in Subs : s # n => doc'[s] = doc[s]
    BY <1>1, <1>3
  <2>4. thread[u].remove \subseteq Subs
    BY <1>3 DEF ThreadType
  <2> QED
    BY <1>2, <2>1, <2>2, <2>3, <2>4 DEF Careful
<1> QED
  BY <1>2, <1>4, <1>5, <1>6 DEF Cared

LEMMA ListKeeps ==
    ASSUME Parts, Cared, NEW t \in Threads, List(t)
    PROVE  Cared'
<1>1. /\ thread' = [thread EXCEPT ![t].remove = Exceeding, ![t].pc = "listed"]
      /\ thread[t].pc = "inserted" /\ UNCHANGED <<doc, job, replayed>>
  BY DEF List, database, history
<1>2. thread \in [Threads -> ThreadType] /\ job \in [Jobs -> JobType]
  BY DEF Parts
<1>3. ASSUME NEW s \in Subs PROVE Shape(s)'
  BY <1>1, ShapeFrame DEF Cared
<1>4. ASSUME NEW s \in Subs \ replayed PROVE Care(s)'
  <2>1. Serving(s)' = Serving(s) /\ Launched(s)' = Launched(s) /\ \A u \in Launched(s) : thread'[u].job = thread[u].job
    BY <1>1, <1>2 DEF Serving, Launched, ThreadType
  <2>2. Running(s)' = Running(s)
    BY <1>1 DEF Running
  <2> QED
    BY <1>1, <2>1, <2>2, CareFrame DEF Cared
<1>5. ASSUME NEW u \in Threads PROVE Careful(u)'
  <2>1. CASE u # t
    BY <1>1, <1>2, <2>1, CarefulFrame DEF Cared
  <2>2. CASE u = t
    <3>1. \A s \in Exceeding : doc[s].status \in {"done", "error"}
      BY DEF Exceeding, Kept, Exists, AlwaysKept, Waiting
    <3>2. thread'[u].remove = Exceeding /\ thread'[u].pc = "listed"
      BY <1>1, <1>2, <2>2 DEF ThreadType
    <3> QED
      BY <1>1, <3>1, <3>2 DEF Careful
  <2> QED
    BY <2>1, <2>2
<1> QED
  BY <1>1, <1>3, <1>4, <1>5 DEF Cared

LEMMA LaunchKeeps ==
    ASSUME Parts, Cared, NEW t \in Threads, Launch(t)
    PROVE  Cared'
<1> DEFINE gone == thread[t].remove
           n == thread[t].sub
<1>1. PICK j \in Jobs : /\ NewJob(j, n, TRUE)
                        /\ thread' = [thread EXCEPT ![t].job = j, ![t].pc = "launched"]
  BY DEF Launch
<1>2. doc \in [Subs -> DocType] /\ thread \in [Threads -> ThreadType] /\ job \in [Jobs -> JobType]
  BY DEF Parts
<1>3. /\ thread[t].pc = "listed" /\ n \in Subs /\ t \in Serving(n)
      /\ doc' = [s \in Subs |-> IF s \in gone THEN [Blank EXCEPT !.status = "deleted"] ELSE doc[s]]
      /\ replayed' = replayed
  BY <1>2 DEF Launch, Parts, ThreadType, ThreadSub, Serving
<1>4. \A s \in gone \ replayed : doc[s].status \in {"done", "error", "deleted"}
  BY DEF Cared, Careful
<1>5. ASSUME NEW s \in Subs, s \in gone
      PROVE  /\ doc'[s].status = "deleted" /\ doc'[s].result = "none"
             /\ doc'[s].grade = 0 /\ doc'[s].jobid = 0
  BY <1>3, <1>5 DEF Blank
<1>6. ASSUME NEW s \in Subs PROVE Shape(s)'
  <2>1. CASE s \in gone
    BY <1>5, <2>1, BlankShape
  <2>2. CASE s \notin gone
    BY <1>3, <2>2, ShapeFrame DEF Cared
  <2> QED
    BY <2>1, <2>2
<1>7. ASSUME NEW s \in Subs \ replayed PROVE Care(s)'
  <2>1. Care(s)
    BY DEF Cared
  <2>2. CASE s # n
    <3>1. Serving(s)' = Serving(s) /\ Launched(s)' = Launched(s) /\ \A u \in Launched(s) : thread'[u].job = thread[u].job
      BY <1>1, <1>2, <2>2 DEF Serving, Launched, ThreadType
    <3>2. Running(s)' = Running(s)
      BY <1>1, <1>2, <1>3, <2>2, NewJobFrame
    <3>3. CASE s \notin gone
      BY <1>3, <2>1, <3>1, <3>2, <3>3, CareFrame
    <3>4. CASE s \in gone
      <4>1. Serving(s) = {} /\ Running(s) = {}
        BY <1>4, <2>1, <3>4 DEF Care
      <4>2. doc'[s].status = "deleted"
        BY <1>5, <3>4
      <4> QED
        BY <3>1, <3>2, <4>1, <4>2 DEF Care
    <3> QED
      BY <3>3, <3>4
  <2>3. CASE s = n
    <3>1. doc[s].status = "waiting" /\ Serving(s) = {t} /\ Running(s) = {} /\ Launched(s) = {}
      BY <1>3, <2>1, <2>3 DEF Care
    <3>2. doc'[s] = doc[s]
      BY <1>3, <1>4, <3>1
    <3>3. Serving(s)' = {} /\ Launched(s)' = {t} /\ thread'[t].job = j
      BY <1>1, <1>2, <2>3, <3>1 DEF Serving, Launched, ThreadType
    <3>4. Running(s)' = {j}
      <4>1. PICK y \in BOOLEAN :
              job' = [job EXCEPT ![j] = [phase |-> "sent", sub |-> n, newsub |-> TRUE, sync |-> y, set |-> {}]]
        BY <1>1 DEF NewJob
      <4> QED
        BY <1>2, <2>3, <3>1, <4>1 DEF Running
    <3> QED
      BY <3>1, <3>2, <3>3, <3>4 DEF Care
  <2> QED
    BY <2>2, <2>3
<1>8. ASSUME NEW u \in Threads PROVE Careful(u)'
  <2>1. Careful(u) /\ thread'[u].remove = thread[u].remove
    BY <1>1, <1>2 DEF Cared, ThreadType
  <2>2. thread'[u].pc = "replaying" => thread'[u].sub \in replayed
    BY <1>1, <1>2, <2>1 DEF Careful, ThreadType
  <2>3. \A s \in Subs : doc'[s].status = doc[s].status \/ doc'[s].status = "deleted"
    BY <1>3, <1>5
  <2>4. thread[u].remove \subseteq Subs
    BY <1>2 DEF ThreadType
  <2> QED
    BY <1>3, <2>1, <2>2, <2>3, <2>4 DEF Careful
<1> QED
  BY <1>3, <1>6, <1>7, <1>8 DEF Cared

\* A request that leaves the collection alone and is not launching anything.
LEMMA ThreadKeeps ==
    ASSUME Parts, Cared, NEW t \in Threads, NEW r,
           thread' = [thread EXCEPT ![t] = r],
           thread[t].pc \notin {"inserted", "listed", "launched"},
           r.pc \notin {"inserted", "listed", "launched", "replaying"},
           r.remove = {} \/ r.remove = thread[t].remove,
           doc' = doc, job' = job, replayed' = replayed
    PROVE  Cared'
<1>1. thread \in [Threads -> ThreadType] /\ job \in [Jobs -> JobType]
  BY DEF Parts
<1>2. ASSUME NEW s \in Subs PROVE Shape(s)'
  BY ShapeFrame DEF Cared
<1>3. ASSUME NEW s \in Subs \ replayed PROVE Care(s)'
  <2>1. Serving(s)' = Serving(s) /\ Launched(s)' = Launched(s) /\ \A u \in Launched(s) : thread'[u].job = thread[u].job
    BY <1>1, ThreadFrame
  <2>2. Running(s)' = Running(s)
    BY DEF Running
  <2> QED
    BY <2>1, <2>2, CareFrame DEF Cared
<1>4. ASSUME NEW u \in Threads PROVE Careful(u)'
  BY <1>1 DEF Cared, Careful
<1> QED
  BY <1>2, <1>3, <1>4 DEF Cared

\* The request t is over; r is what was stored of its submission.
LEMMA EndKeeps ==
    ASSUME Parts, Cared, NEW t \in Threads, NEW a, Reply(t, a), replayed' = replayed,
           thread[t].pc \in {"launched", "replaying"},
           Return(thread[t].job), Returned(thread[t].job),
           \A s \in Subs : Shape(s)',
           \A s \in Subs : s # thread[t].sub => doc'[s] = doc[s],
           \/ thread[t].sub \in replayed
           \/ /\ doc'[thread[t].sub].status = doc[thread[t].sub].status
              /\ (doc[thread[t].sub].status = "waiting" /\ ~job[thread[t].job].sync)
                   => doc'[thread[t].sub].jobid = thread[t].job
    PROVE  Cared'
<1> DEFINE n == thread[t].sub
           j == thread[t].job
<1>1. thread \in [Threads -> ThreadType] /\ job \in [Jobs -> JobType] /\ thread' = [thread EXCEPT ![t] = Idle]
  BY DEF Parts, Reply
<1>2. Idle.pc = "idle" /\ Idle.remove = {}
  BY DEF Idle
<1>3. ASSUME NEW s \in Subs \ replayed PROVE Care(s)'
  <2>1. Care(s)
    BY DEF Cared
  <2>2. Running(s)' = Running(s)
    BY <1>1, ReturnFrame
  <2>3. CASE s # n
    <3>1. Serving(s)' = Serving(s) /\ Launched(s)' = Launched(s) /\ \A u \in Launched(s) : thread'[u].job = thread[u].job
      BY <1>1, <1>2, <2>3, ThreadFrame
    <3> QED
      BY <2>1, <2>2, <2>3, <3>1, CareFrame
  <2>4. CASE s = n
    <3>1. thread[t].pc = "launched" /\ t \in Launched(s)
      BY <2>4 DEF Cared, Careful, Launched
    <3>2. Serving(s) = {} /\ Serving(s)' = {} /\ Launched(s)' = Launched(s) \ {t}
      BY <1>1, <1>2, <2>1, <3>1 DEF Care, Serving, Launched
    <3>3. \A u \in Launched(s)' : thread'[u].job = thread[u].job
      BY <1>1, <1>2, <3>2 DEF Launched
    <3>4. \A k \in Running(s) : k = j /\ ~job[k].sync
      BY <2>1, <3>1 DEF Care, Running, Returned
    <3>5. doc'[s].status = "waiting" => \E k \in Running(s) : doc'[s].jobid = k
      BY <2>1, <2>4, <3>2, <3>4 DEF Care
    <3> QED
      BY <2>1, <2>2, <2>4, <3>2, <3>3, <3>5 DEF Care
  <2> QED
    BY <2>3, <2>4
<1>4. ASSUME NEW u \in Threads PROVE Careful(u)'
  <2>1. CASE u = t
    BY <1>1, <1>2, <2>1 DEF Careful
  <2>2. CASE u # t
    <3>1. thread[u].remove \subseteq Subs /\ thread'[u] = thread[u]
      BY <1>1, <2>2 DEF ThreadType
    <3> QED
      BY <3>1, CarefulFrame DEF Cared
  <2> QED
    BY <2>1, <2>2
<1> QED
  BY <1>3, <1>4 DEF Cared

LEMMA ServeKeeps ==
    ASSUME Parts, Cared, NEW t \in Threads, Serve(t)
    PROVE  Cared'
<1> DEFINE n == thread[t].sub
           j == thread[t].job
<1>1. doc \in [Subs -> DocType] /\ thread \in [Threads -> ThreadType]
  BY DEF Parts
<1>2. CASE StoreJobId(t)
  <2>1. PICK a : Reply(t, a)
    BY <1>2 DEF StoreJobId
  <2>2. /\ thread[t].pc = "launched" /\ n \in Subs
        /\ Return(j) /\ Returned(j) /\ replayed' = replayed
    BY <1>1, <1>2 DEF StoreJobId, history, Parts, ThreadType, ThreadSub
  <2>3. \/ doc' = doc /\ (Raised(j) \/ doc[n].status # "waiting")
        \/ /\ doc' = [doc EXCEPT ![n].jobid = IdOf(j)]
           /\ doc[n].status = "waiting"
    BY <1>2 DEF StoreJobId
  <2>4. \A s \in Subs : s # n => doc'[s] = doc[s]
    BY <1>1, <2>3
  <2>5. doc[n] \in DocType /\ Shape(n)
    BY <1>1, <2>2 DEF Cared
  <2>6. /\ doc'[n].status = doc[n].status /\ doc'[n].result = doc[n].result /\ doc'[n].grade = doc[n].grade
        /\ doc[n].status # "waiting" => doc'[n].jobid = doc[n].jobid
        /\ doc[n].status = "waiting" /\ ~Raised(j) => doc'[n].jobid = IdOf(j)
    BY <1>1, <2>2, <2>3, <2>5 DEF DocType
  <2>7. ASSUME NEW s \in Subs PROVE Shape(s)'
    <3>1. CASE s # n
      BY <2>4, <3>1, ShapeFrame DEF Cared
    <3>2. CASE s = n
      <4>1. LifeOf(doc'[n]) = LifeOf(doc[n])
        BY <2>6 DEF LifeOf
      <4>2. doc'[n].jobid # 0 => doc'[n].status = "waiting"
        BY <2>5, <2>6 DEF Shape
      <4> QED
        BY <2>5, <2>6, <3>2, <4>1, <4>2 DEF Shape, Life!Without, Life!GivenUp
    <3> QED
      BY <3>1, <3>2
  <2>8. ~job[j].sync => ~Raised(j) /\ IdOf(j) = j
    BY DEF Raised, IdOf
  <2> QED
    BY <2>1, <2>2, <2>4, <2>6, <2>7, <2>8, EndKeeps
<1>3. CASE Overwrite(t)
  <2>1. Reply(t, NoAnswer)
    BY <1>3 DEF Overwrite
  <2>2. /\ thread[t].pc = "replaying" /\ n \in Subs /\ n \in replayed
        /\ Return(j) /\ Returned(j) /\ replayed' = replayed
    BY <1>1, <1>3 DEF Overwrite, history, Parts, ThreadType, ThreadSub, Cared, Careful
  <2>3. doc' = doc \/ doc' = [doc EXCEPT ![n] = [Blank EXCEPT !.status = "waiting", !.jobid = IdOf(j)]]
    BY <1>3 DEF Overwrite
  <2>4. \A s \in Subs : s # n => doc'[s] = doc[s]
    BY <1>1, <2>3
  <2>5. ASSUME NEW s \in Subs PROVE Shape(s)'
    <3>1. CASE doc'[s] = doc[s]
      BY <3>1, ShapeFrame DEF Cared
    <3>2. CASE s = n /\ doc' = [doc EXCEPT ![n] = [Blank EXCEPT !.status = "waiting", !.jobid = IdOf(j)]]
      <4>1. /\ doc'[n].status = "waiting" /\ doc'[n].result = "none" /\ doc'[n].grade = 0
            /\ doc'[n].jobid = IdOf(j)
        BY <1>1, <2>2, <3>2 DEF Blank
      <4> QED
        BY <3>2, <4>1, BlankShape
    <3> QED
      BY <2>3, <2>4, <3>1, <3>2
  <2> QED
    BY <2>1, <2>2, <2>4, <2>5, EndKeeps
<1>4. CASE ReadSelected(t)
  <2>1. PICK r : /\ thread' = [thread EXCEPT ![t] = r] /\ r.pc \in {"idle", "missing", "select"}
                 /\ r.remove = {} \/ r.remove = thread[t].remove
    <3> DEFINE set == {Evaluation(doc[n].result, doc[n].grade, n)}
    <3>1. CASE Exists(n) /\ doc[n].result # "none"
      <4>1. thread' = [thread EXCEPT ![t] = [thread[t] EXCEPT !.set = set]]
        BY <1>4, <3>1 DEF ReadSelected
      <4>2. thread[t] \in ThreadType /\ thread[t].pc \in {"missing", "select"}
        BY <1>1, <1>4 DEF ReadSelected
      <4>3. [thread[t] EXCEPT !.set = set].pc = thread[t].pc /\ [thread[t] EXCEPT !.set = set].remove = thread[t].remove
        BY <4>2 DEF ThreadType
      <4> QED
        BY <4>1, <4>2, <4>3
    <3>2. CASE ~(Exists(n) /\ doc[n].result # "none")
      BY <1>4, <3>2 DEF ReadSelected, Reply, Idle
    <3> QED
      BY <3>1, <3>2
  <2> QED
    BY <1>4, <2>1, ThreadKeeps DEF ReadSelected, database, history
<1>5. CASE WriteSelected(t)
  <2>1. thread' = [thread EXCEPT ![t] = Idle]
    BY <1>5 DEF WriteSelected, Reply
  <2>2. Idle.pc = "idle" /\ Idle.remove = {}
    BY DEF Idle
  <2> QED
    BY <1>5, <2>1, <2>2, ThreadKeeps DEF WriteSelected, history
<1> QED
  BY <1>2, <1>3, <1>4, <1>5, InsertKeeps, ListKeeps, LaunchKeeps DEF Serve

\* A callback that has stored its result already changes nothing here.
LEMMA JobKeeps ==
    ASSUME Parts, Cared, NEW j \in Jobs, NEW r, job' = [job EXCEPT ![j] = r],
           r.phase # "sent", job[j].phase # "sent" \/ job[j].sub \in replayed,
           doc' = doc, thread' = thread, replayed' = replayed
    PROVE  Cared'
<1>1. job \in [Jobs -> JobType]
  BY DEF Parts
<1>2. ASSUME NEW s \in Subs PROVE Shape(s)'
  BY ShapeFrame DEF Cared
<1>3. ASSUME NEW s \in Subs \ replayed PROVE Care(s)'
  <2>1. Serving(s)' = Serving(s) /\ Launched(s)' = Launched(s)
    BY DEF Serving, Launched
  <2>2. Running(s)' = Running(s)
    BY <1>1, JobFrame
  <2> QED
    BY <2>1, <2>2, CareFrame DEF Cared
<1>4. ASSUME NEW u \in Threads PROVE Careful(u)'
  BY DEF Cared, Careful
<1> QED
  BY <1>2, <1>3, <1>4 DEF Cared

LEMMA StoreResultKeeps ==
    ASSUME Parts, Cared, NEW j \in Jobs, StoreResult(j)
    PROVE  Cared'
<1>0. PICK n : n = job[j].sub
  OBVIOUS
<1>1. /\ doc \in [Subs -> DocType] /\ thread \in [Threads -> ThreadType] /\ job \in [Jobs -> JobType]
      /\ n \in Subs /\ j \in Running(n)
      /\ thread' = thread /\ replayed' = replayed
  BY <1>0 DEF StoreResult, Parts, JobType, JobSet, Running, history
<1>2. PICK o \in IF job[j].sync THEN {Crash} ELSE Outcomes :
             IF Exists(n)
             THEN /\ doc' = [doc EXCEPT ![n] = Finished(o)]
                  /\ job' = [job EXCEPT ![j].phase = "stored", ![j].set = {o}]
             ELSE /\ job' = [job EXCEPT ![j] = Over(j, "raised")]
                  /\ UNCHANGED doc
  BY <1>0 DEF StoreResult
<1>3. CASE Exists(n)
  <2> DEFINE r == [job[j] EXCEPT !.phase = "stored", !.set = {o}]
  <2>1. job' = [job EXCEPT ![j] = r] /\ r.phase = "stored"
    BY <1>1, <1>2, <1>3 DEF JobType
  <2>2. doc'[n] = Finished(o) /\ \A s \in Subs : s # n => doc'[s] = doc[s]
    <3>1. doc' = [doc EXCEPT ![n] = Finished(o)]
      BY <1>2, <1>3
    <3> QED
      BY <1>1, <3>1
  <2>3. doc'[n].status \in {"done", "error"} /\ Shape(n)'
    BY <1>1, <2>2, FinishedShape
  <2>4. ASSUME NEW s \in Subs PROVE Shape(s)'
    BY <2>2, <2>3, ShapeFrame DEF Cared
  <2>5. ASSUME NEW s \in Subs \ replayed PROVE Care(s)'
    <3>1. Care(s) /\ Serving(s)' = Serving(s) /\ Launched(s)' = Launched(s)
      BY <1>1 DEF Cared, Serving, Launched
    <3>2. CASE s # n
      <4>1. Running(s)' = Running(s)
        BY <1>0, <1>1, <2>1, <3>2, JobFrame
      <4> QED
        BY <1>1, <2>2, <3>1, <3>2, <4>1, CareFrame
    <3>3. CASE s = n
      <4>1. Serving(s) = {} /\ Running(s) = {j}
        BY <1>1, <3>1, <3>3 DEF Care
      <4>2. Running(s)' = {}
        BY <1>0, <1>1, <2>1, <3>3, <4>1 DEF Running
      <4> QED
        BY <2>3, <3>1, <3>3, <4>1, <4>2 DEF Care
    <3> QED
      BY <3>2, <3>3
  <2>6. ASSUME NEW u \in Threads PROVE Careful(u)'
    <3>1. thread[u].remove \subseteq Subs
      BY <1>1 DEF ThreadType
    <3> QED
      BY <1>1, <2>2, <2>3, <3>1, CarefulFrame DEF Cared
  <2> QED
    BY <1>1, <2>4, <2>5, <2>6 DEF Cared
<1>4. CASE ~Exists(n)
  <2>1. n \in replayed
    BY <1>1, <1>4 DEF Cared, Care, Exists
  <2> QED
    BY <1>0, <1>1, <1>2, <1>4, <2>1, OverFrame, JobKeeps
<1> QED
  BY <1>3, <1>4

LEMMA CallbackKeeps ==
    ASSUME Parts, Cared, NEW j \in Jobs, Callback(j)
    PROVE  Cared'
<1>1. CASE StoreResult(j)
  BY <1>1, StoreResultKeeps
<1>2. ASSUME NEW set, Ready(j, set)
      PROVE  \E r : job' = [job EXCEPT ![j] = r] /\ r.phase # "sent"
  <2>1. CASE set = {}
    BY <1>2, <2>1, OverFrame DEF Ready
  <2>2. CASE set # {}
    <3> DEFINE r == [job[j] EXCEPT !.set = set, !.phase = "setting"]
    <3>1. job' = [job EXCEPT ![j] = r]
      BY <1>2, <2>2 DEF Ready
    <3>2. r.phase = "setting"
      BY DEF Parts, JobType
    <3> QED
      BY <3>1, <3>2
  <2> QED
    BY <2>1, <2>2
<1>3. CASE CountNew(j)
  <2>1. /\ job[j].phase # "sent" /\ doc' = doc /\ thread' = thread /\ replayed' = replayed
        /\ \E set : Ready(j, set)
    BY <1>3 DEF CountNew, history
  <2> QED
    BY <1>2, <2>1, JobKeeps
<1>4. CASE CountReplay(j)
  <2>1. /\ job[j].phase # "sent" /\ doc' = doc /\ thread' = thread /\ replayed' = replayed
        /\ (\E set : Ready(j, set)) \/ job' = [job EXCEPT ![j] = Over(j, "raised")]
    BY <1>4 DEF CountReplay, database, history
  <2> QED
    BY <1>2, <2>1, OverFrame, JobKeeps
<1>5. CASE CountDeleted(j)
  <2>1. /\ job[j].phase # "sent" /\ doc' = doc /\ thread' = thread /\ replayed' = replayed
        /\ job' = [job EXCEPT ![j] = Over(j, "raised")]
    BY <1>5 DEF CountDeleted, database, history
  <2> QED
    BY <2>1, OverFrame, JobKeeps
<1>6. CASE SetEvaluation(j)
  <2>1. /\ job[j].phase # "sent" /\ doc' = doc /\ thread' = thread /\ replayed' = replayed
        /\ job' = [job EXCEPT ![j] = Over(j, "called")]
    BY <1>6 DEF SetEvaluation, history
  <2> QED
    BY <2>1, OverFrame, JobKeeps
<1> QED
  BY <1>1, <1>3, <1>4, <1>5, <1>6 DEF Callback

LEMMA ReplayingRecord ==
    ASSUME NEW t \in Threads, NEW n \in Subs, NEW j \in Jobs,
           thread' = [thread EXCEPT ![t] = [Idle EXCEPT !.pc = "replaying", !.sub = n, !.job = j]]
    PROVE  \E r : /\ thread' = [thread EXCEPT ![t] = r]
                  /\ r.pc = "replaying" /\ r.sub = n /\ r.remove = {}
<1> DEFINE r == [Idle EXCEPT !.pc = "replaying", !.sub = n, !.job = j]
<1>1. Idle \in ThreadType /\ Idle.remove = {}
  BY RecordTypes DEF Idle
<1>2. r.pc = "replaying" /\ r.sub = n /\ r.remove = {}
  BY <1>1 DEF ThreadType
<1>3. thread' = [thread EXCEPT ![t] = r]
  OBVIOUS
<1> QED
  BY <1>2, <1>3

LEMMA ReplayKeeps ==
    ASSUME Parts, Cared, NEW t \in Threads, NEW n \in Subs, NEW j \in Jobs, NEW b \in BOOLEAN,
           NewJob(j, n, b),
           NEW r, thread' = [thread EXCEPT ![t] = r],
           r.pc = "replaying", r.sub = n, r.remove = {},
           thread[t].pc = "idle",
           replayed' = replayed \cup {n},
           Shape(n)', \A s \in Subs : s # n => doc'[s] = doc[s]
    PROVE  Cared'
<1>1. thread \in [Threads -> ThreadType] /\ job \in [Jobs -> JobType]
  BY DEF Parts
<1>3. ASSUME NEW s \in Subs PROVE Shape(s)'
  BY ShapeFrame DEF Cared
<1>4. ASSUME NEW s \in Subs \ replayed' PROVE Care(s)'
  <2>1. s \in Subs /\ s # n /\ Care(s)
    BY DEF Cared
  <2>2. Running(s)' = Running(s)
    BY <1>1, <2>1, NewJobFrame
  <2>3. Serving(s)' = Serving(s) /\ Launched(s)' = Launched(s) /\ \A u \in Launched(s) : thread'[u].job = thread[u].job
    BY <1>1, <2>1, ThreadFrame
  <2> QED
    BY <2>1, <2>2, <2>3, CareFrame
<1>5. ASSUME NEW u \in Threads PROVE Careful(u)'
  <2>1. CASE u # t
    <3>1. thread[u].remove \subseteq Subs /\ thread'[u] = thread[u]
      BY <1>1, <2>1 DEF ThreadType
    <3> QED
      BY <3>1, CarefulFrame DEF Cared
  <2>2. CASE u = t
    BY <1>1, <2>2 DEF Careful
  <2> QED
    BY <2>1, <2>2
<1> QED
  BY <1>3, <1>4, <1>5 DEF Cared

LEMMA StartKeeps ==
    ASSUME Parts, Cared, NEW t \in Threads, Start(t)
    PROVE  Cared'
<1>0. thread \in [Threads -> ThreadType] /\ doc \in [Subs -> DocType] /\ Idle.pc = "idle" /\ Idle.remove = {}
  BY DEF Parts, Idle
<1>1. ASSUME NEW r, NEW pc \in {"checked", "missing", "select"}, NEW n,
             \/ r = Idle
             \/ r = [thread[t] EXCEPT !.pc = pc]
             \/ r = [thread[t] EXCEPT !.pc = pc, !.sub = n]
      PROVE  r.pc \in {"idle", "checked", "missing", "select"} /\ (r.remove = {} \/ r.remove = thread[t].remove)
  <2>1. thread[t] \in ThreadType
    BY <1>0
  <2> QED
    BY <1>0, <1>1, <2>1 DEF ThreadType
<1>2. CASE Post(t)
  <2>1. \/ thread' = [thread EXCEPT ![t] = Idle]
        \/ thread' = [thread EXCEPT ![t] = [thread[t] EXCEPT !.pc = "checked"]]
    BY <1>2 DEF Post, Reply, Goto
  <2>2. thread[t].pc = "idle" /\ doc' = doc /\ job' = job /\ replayed' = replayed
    BY <1>2 DEF Post, database
  <2>3. PICK r : /\ thread' = [thread EXCEPT ![t] = r]
                 /\ r.pc \in {"idle", "checked", "missing", "select"}
                 /\ r.remove = {} \/ r.remove = thread[t].remove
    BY <1>1, <2>1
  <2>4. /\ thread[t].pc \notin {"inserted", "listed", "launched"}
        /\ r.pc \notin {"inserted", "listed", "launched", "replaying"}
    BY <2>2, <2>3
  <2> QED
    BY <2>2, <2>3, <2>4, ThreadKeeps
<1>3. CASE Replay(t)
  <2>1. PICK n \in Subs, j \in Jobs :
          /\ NewJob(j, n, FALSE)
          /\ thread' = [thread EXCEPT ![t] = [Idle EXCEPT !.pc = "replaying", !.sub = n, !.job = j]]
          /\ replayed' = replayed \cup {n}
    BY <1>3 DEF Replay, Kept
  <2>2. thread[t].pc = "idle" /\ doc' = doc
    BY <1>3 DEF Replay, database
  <2>3. Shape(n)'
    BY <2>2, ShapeFrame DEF Cared
  <2> QED
    <3>1. PICK r : thread' = [thread EXCEPT ![t] = r] /\ r.pc = "replaying" /\ r.sub = n /\ r.remove = {}
      BY <2>1, ReplayingRecord
    <3>2. thread[t].pc = "idle" /\ NewJob(j, n, FALSE) /\ replayed' = replayed \cup {n}
      BY <2>1, <2>2
    <3>3. \A s \in Subs : s # n => doc'[s] = doc[s]
      BY <2>2
    <3> QED
      BY <2>2, <2>3, <3>1, <3>2, <3>3, ReplayKeeps
<1>4. CASE ReplayCopy(t)
  <2>1. PICK n \in Subs, j \in Jobs :
          /\ \E o \in Outcomes : doc' = [doc EXCEPT ![n] = Finished(o)]
          /\ NewJob(j, n, TRUE)
          /\ thread' = [thread EXCEPT ![t] = [Idle EXCEPT !.pc = "replaying", !.sub = n, !.job = j]]
          /\ replayed' = replayed \cup {n}
    BY <1>4 DEF ReplayCopy
  <2>2. PICK o \in Outcomes : doc' = [doc EXCEPT ![n] = Finished(o)]
    BY <2>1
  <2>3. doc'[n] = Finished(o) /\ \A s \in Subs : s # n => doc'[s] = doc[s]
    BY <1>0, <2>2
  <2>4. Shape(n)'
    BY <2>3, FinishedShape
  <2>5. thread[t].pc = "idle"
    BY <1>4 DEF ReplayCopy
  <2> QED
    <3>1. PICK r : thread' = [thread EXCEPT ![t] = r] /\ r.pc = "replaying" /\ r.sub = n /\ r.remove = {}
      BY <2>1, ReplayingRecord
    <3>2. NewJob(j, n, TRUE) /\ replayed' = replayed \cup {n}
      BY <2>1
    <3> QED
      BY <2>3, <2>4, <2>5, <3>1, <3>2, ReplayKeeps
<1>5. ASSUME NEW s \in Kept, Check(t, s) PROVE Cared'
  <2>1. \/ thread' = [thread EXCEPT ![t] = Idle]
        \/ thread' = [thread EXCEPT ![t] = [thread[t] EXCEPT !.pc = "missing", !.sub = s]]
    BY <1>5 DEF Check, Reply
  <2>2. thread[t].pc = "idle" /\ doc' = doc /\ job' = job /\ replayed' = replayed
    BY <1>5 DEF Check, database
  <2>3. PICK r : /\ thread' = [thread EXCEPT ![t] = r]
                 /\ r.pc \in {"idle", "checked", "missing", "select"}
                 /\ r.remove = {} \/ r.remove = thread[t].remove
    BY <1>1, <2>1
  <2>4. /\ thread[t].pc \notin {"inserted", "listed", "launched"}
        /\ r.pc \notin {"inserted", "listed", "launched", "replaying"}
    BY <2>2, <2>3
  <2> QED
    BY <2>2, <2>3, <2>4, ThreadKeeps
<1>6. ASSUME NEW s \in Kept, Select(t, s) PROVE Cared'
  <2>1. \/ thread' = [thread EXCEPT ![t] = Idle]
        \/ thread' = [thread EXCEPT ![t] = [thread[t] EXCEPT !.pc = "select", !.sub = s]]
    BY <1>6 DEF Select, Reply
  <2>2. thread[t].pc = "idle" /\ doc' = doc /\ job' = job /\ replayed' = replayed
    BY <1>6 DEF Select, database
  <2>3. PICK r : /\ thread' = [thread EXCEPT ![t] = r]
                 /\ r.pc \in {"idle", "checked", "missing", "select"}
                 /\ r.remove = {} \/ r.remove = thread[t].remove
    BY <1>1, <2>1
  <2>4. /\ thread[t].pc \notin {"inserted", "listed", "launched"}
        /\ r.pc \notin {"inserted", "listed", "launched", "replaying"}
    BY <2>2, <2>3
  <2> QED
    BY <2>2, <2>3, <2>4, ThreadKeeps
<1> QED
  BY <1>2, <1>3, <1>4, <1>5, <1>6 DEF Start

LEMMA RestartKeeps ==
    ASSUME Parts, Cared, Restart
    PROVE  Cared'
<1>1. /\ doc' = [s \in Subs |-> IF s \in Waiting THEN [Blank EXCEPT !.status = "error"] ELSE doc[s]]
      /\ job' = [j \in Jobs |-> IF job[j] = NoJob THEN NoJob ELSE Forgotten]
      /\ thread' = [t \in Threads |-> Idle]
      /\ replayed' = replayed
  BY DEF Restart, history
<1>2. Idle.pc = "idle" /\ Idle.remove = {} /\ NoJob.phase = "none" /\ Forgotten.phase = "over"
  BY DEF Idle, NoJob, Forgotten
<1>3. ASSUME NEW s \in Subs PROVE Shape(s)' /\ doc'[s].status # "waiting"
  <2>1. CASE s \in Waiting
    <3>1. /\ doc'[s].status = "error" /\ doc'[s].result = "none"
          /\ doc'[s].grade = 0 /\ doc'[s].jobid = 0
      BY <1>1, <2>1 DEF Blank
    <3> QED
      BY <3>1, BlankShape
  <2>2. CASE s \notin Waiting
    <3>1. doc'[s] = doc[s] /\ doc[s].status # "waiting"
      BY <1>1, <2>2 DEF Waiting
    <3> QED
      BY <3>1, ShapeFrame DEF Cared
  <2> QED
    BY <2>1, <2>2
<1>4. ASSUME NEW s \in Subs PROVE Care(s)'
  <2>1. Serving(s)' = {} /\ Launched(s)' = {}
    BY <1>1, <1>2 DEF Serving, Launched
  <2>2. Running(s)' = {}
    BY <1>1, <1>2 DEF Running
  <2> QED
    BY <1>3, <2>1, <2>2 DEF Care
<1>5. ASSUME NEW u \in Threads PROVE Careful(u)'
  BY <1>1, <1>2 DEF Careful
<1> QED
  BY <1>3, <1>4, <1>5 DEF Cared

LEMMA InitCared == Init => Cared
<1> SUFFICES ASSUME Init PROVE Cared
  OBVIOUS
<1>1. /\ doc = [s \in Subs |-> Blank] /\ job = [j \in Jobs |-> NoJob]
      /\ thread = [t \in Threads |-> Idle]
  BY DEF Init
<1>2. Idle.pc = "idle" /\ Idle.remove = {} /\ NoJob.phase = "none"
  BY DEF Idle, NoJob
<1>3. ASSUME NEW s \in Subs PROVE Shape(s) /\ doc[s].status = "none"
  <2>1. doc[s].status = "none" /\ doc[s].jobid = 0 /\ LifeOf(doc[s]) = Life!Without("none")
    BY <1>1 DEF Blank, LifeOf, Life!Without
  <2> QED
    BY <2>1 DEF Shape
<1>4. ASSUME NEW s \in Subs PROVE Care(s)
  <2>1. Serving(s) = {} /\ Launched(s) = {} /\ Running(s) = {}
    BY <1>1, <1>2 DEF Serving, Launched, Running
  <2> QED
    BY <1>3, <2>1 DEF Care
<1>5. ASSUME NEW u \in Threads PROVE Careful(u)
  BY <1>1, <1>2 DEF Careful
<1> QED
  BY <1>3, <1>4, <1>5 DEF Cared

LEMMA LifeInvStep == LifeInv /\ [Next]_vars => LifeInv'
<1> SUFFICES ASSUME LifeInv, [Next]_vars PROVE Cared'
  BY TypeStep DEF LifeInv
<1>0. Parts /\ Cared
  BY PartsOfType DEF LifeInv
<1>1. CASE UNCHANGED vars
  BY <1>0, <1>1 DEF vars, database, history, Cared, Shape, Care, Careful, Serving, Launched, Running, LifeOf
<1>2. ASSUME NEW t \in Threads, Start(t) \/ Serve(t) PROVE Cared'
  BY <1>0, <1>2, StartKeeps, ServeKeeps
<1>3. ASSUME NEW j \in Jobs, Callback(j) PROVE Cared'
  BY <1>0, <1>3, CallbackKeeps
<1> QED
  BY <1>0, <1>1, <1>2, <1>3, RestartKeeps DEF Next

\* The inductive invariant behind the next theorems: whatever requests, replays,
\* deletions and callbacks do to one another, a submission that was not replayed
\* has exactly one request or job in charge of it while it waits, and none after.
THEOREM LifeInvariant == Spec => []LifeInv
<1>1. Init => LifeInv
  BY InitType, InitCared DEF LifeInv
<1> QED
  BY <1>1, LifeInvStep, PTL DEF Spec

\* A submission that waits is served: kill and the page find its job, and never
\* the id of a job that is over.
THEOREM WaitingServed == Spec => []WaitingIsServed
<1>1. LifeInv => WaitingIsServed
  <2> SUFFICES ASSUME LifeInv PROVE WaitingIsServed
    OBVIOUS
  <2>1. ASSUME NEW s \in Waiting \ replayed
        PROVE  \/ \E t \in Threads : thread[t].sub = s /\ thread[t].pc \in {"inserted", "listed"}
               \/ \E j \in Jobs :
                    /\ job[j].phase = "sent" /\ job[j].sub = s
                    /\ \/ doc[s].jobid = j
                       \/ \E t \in Threads : thread[t].pc = "launched" /\ thread[t].job = j
    <3>1. s \in Subs \ replayed /\ doc[s].status = "waiting" /\ Care(s)
      BY DEF Waiting, LifeInv, Cared
    <3> QED
      BY <3>1 DEF Care, Serving, Launched, Running
  <2>2. \A s \in Subs : doc[s].jobid # 0 => s \in Waiting
    BY DEF LifeInv, Cared, Shape, Waiting
  <2> QED
    BY <2>1, <2>2 DEF WaitingIsServed
<1> QED
  BY <1>1, LifeInvariant, PTL

-----------------------------------------------------------------------------
(* The refinement of SubmissionLife.                                        *)

Lives == [s \in Subs |-> LifeOf(doc[s])]
GradedLives == {LifeOf(Finished(o)) : o \in Outcomes \cup {Crash}}
LifeStep == Life!Next \/ (Lives' = Lives /\ replayed' = replayed)

LEMMA LifeExcept ==
    ASSUME Parts, NEW s \in Subs, NEW r, doc' = [doc EXCEPT ![s] = r]
    PROVE  Lives' = [Lives EXCEPT ![s] = LifeOf(r)]
BY DEF Parts, Lives

LEMMA LifeSame ==
    ASSUME doc' = doc, replayed' = replayed
    PROVE  LifeStep
BY DEF Lives, LifeStep

LEMMA InsertLife ==
    ASSUME Parts, Cared, NEW t \in Threads, Insert(t)
    PROVE  LifeStep
<1>1. PICK n \in Subs : NextSub(n) /\ doc' = [doc EXCEPT ![n].status = "waiting"]
  BY DEF Insert
<1>2. LifeOf(doc[n]) = Life!Without("none") /\ Shape(n)
  BY <1>1 DEF NextSub, Cared, Shape
<1>3. Lives[n] = Life!Without("none")
  BY <1>2 DEF Lives
<1>4. doc[n] \in DocType /\ doc[n].result = "none" /\ doc[n].grade = 0
  BY <1>2 DEF Parts, LifeOf, Life!Without
<1>5. LifeOf([doc[n] EXCEPT !.status = "waiting"]) = Life!Without("waiting")
  BY <1>4 DEF LifeOf, Life!Without, DocType
<1>6. doc' = [doc EXCEPT ![n] = [doc[n] EXCEPT !.status = "waiting"]]
  BY <1>1 DEF Parts
<1>7. Lives' = [Lives EXCEPT ![n] = Life!Without("waiting")]
  BY <1>5, <1>6, LifeExcept
<1>8. replayed' = replayed
  BY DEF Insert
<1> QED
  BY <1>3, <1>7, <1>8 DEF LifeStep, Life!Next, Life!Insert, Lives

LEMMA LaunchLife ==
    ASSUME Parts, Cared, NEW t \in Threads, Launch(t)
    PROVE  LifeStep
<1> DEFINE gone == thread[t].remove
<1>1. gone \in SUBSET Subs
  BY DEF Parts, ThreadType
<1>2. doc' = [s \in Subs |-> IF s \in gone THEN [Blank EXCEPT !.status = "deleted"] ELSE doc[s]]
  BY DEF Launch
<1>3. LifeOf([Blank EXCEPT !.status = "deleted"]) = Life!Without("deleted")
  BY DEF LifeOf, Blank, Life!Without
<1>4. Lives' = [s \in Subs |-> IF s \in gone THEN Life!Without("deleted") ELSE Lives[s]]
  BY <1>2, <1>3 DEF Lives
<1>5. ASSUME NEW s \in gone \ replayed
      PROVE  Lives[s] \in GradedLives \cup {Life!GivenUp, Life!Without("deleted")}
  <2>1. s \in Subs /\ doc[s].status \in {"done", "error", "deleted"} /\ Shape(s)
    BY <1>1 DEF Cared, Careful
  <2> QED
    BY <2>1 DEF Shape, Lives, GradedLives
<1>6. replayed' = replayed
  BY DEF Launch
<1>7. Life!Delete(gone)
  BY <1>4, <1>5, <1>6 DEF Life!Delete, Lives, GradedLives
<1> QED
  BY <1>1, <1>7 DEF LifeStep, Life!Next

LEMMA StoreJobIdLife ==
    ASSUME Parts, NEW t \in Threads, StoreJobId(t)
    PROVE  LifeStep
<1> DEFINE s == thread[t].sub
<1>1. s \in Subs /\ replayed' = replayed
  BY DEF StoreJobId, Parts, ThreadType, ThreadSub, history
<1>2. doc' = doc \/ doc' = [doc EXCEPT ![s].jobid = IdOf(thread[t].job)]
  BY DEF StoreJobId
<1>3. CASE doc' = [doc EXCEPT ![s].jobid = IdOf(thread[t].job)]
  <2>1. doc' = [doc EXCEPT ![s] = [doc[s] EXCEPT !.jobid = IdOf(thread[t].job)]]
    BY <1>1, <1>3 DEF Parts
  <2>2. LifeOf([doc[s] EXCEPT !.jobid = IdOf(thread[t].job)]) = Lives[s]
    BY <1>1 DEF Parts, DocType, LifeOf, Lives
  <2>3. Lives' = [Lives EXCEPT ![s] = Lives[s]]
    BY <1>1, <2>1, <2>2, LifeExcept
  <2>4. Lives' = Lives
    BY <2>3 DEF Lives
  <2> QED
    BY <1>1, <2>4 DEF LifeStep
<1> QED
  BY <1>1, <1>2, <1>3, LifeSame

LEMMA OverwriteLife ==
    ASSUME Parts, Cared, NEW t \in Threads, Overwrite(t)
    PROVE  LifeStep
<1> DEFINE s == thread[t].sub
<1> DEFINE r == [Blank EXCEPT !.status = "waiting", !.jobid = IdOf(thread[t].job)]
<1>1. s \in Subs /\ s \in replayed /\ replayed' = replayed
  BY DEF Overwrite, Parts, ThreadType, ThreadSub, history, Cared, Careful
<1>2. doc' = doc \/ doc' = [doc EXCEPT ![s] = r]
  BY DEF Overwrite
<1>3. CASE doc' = [doc EXCEPT ![s] = r]
  <2>1. LifeOf(r) = Life!Without("waiting")
    BY DEF LifeOf, Blank, Life!Without
  <2>2. Lives' = [Lives EXCEPT ![s] = Life!Without("waiting")]
    BY <1>1, <1>3, <2>1, LifeExcept
  <2>3. Life!Replayed(s)
    BY <1>1, <2>2 DEF Life!Replayed, Lives
  <2> QED
    BY <1>1, <2>3 DEF LifeStep, Life!Next
<1> QED
  BY <1>1, <1>2, <1>3, LifeSame

LEMMA ReplayLife ==
    ASSUME Parts, Cared, NEW t \in Threads, Replay(t) \/ ReplayCopy(t)
    PROVE  LifeStep
<1>1. CASE Replay(t)
  <2>1. PICK n \in Subs : replayed' = replayed \cup {n}
    BY <1>1 DEF Replay, Kept
  <2>2. Lives' = Lives
    BY <1>1 DEF Replay, database, Lives
  <2>3. Life!Replay(n)
    BY <2>1, <2>2 DEF Life!Replay, Lives
  <2> QED
    BY <2>3 DEF LifeStep, Life!Next
<1>2. CASE ReplayCopy(t)
  <2>1. PICK n \in Subs : /\ NextSub(n) /\ replayed' = replayed \cup {n}
                          /\ \E o \in Outcomes : doc' = [doc EXCEPT ![n] = Finished(o)]
    BY <1>2 DEF ReplayCopy
  <2>2. PICK o \in Outcomes : doc' = [doc EXCEPT ![n] = Finished(o)]
    BY <2>1
  <2>3. Lives' = [Lives EXCEPT ![n] = LifeOf(Finished(o))]
    BY <2>2, LifeExcept
  <2>4. Lives[n] = Life!Without("none")
    BY <2>1 DEF NextSub, Cared, Shape, Lives
  <2>5. \E g \in GradedLives : Lives' = [Lives EXCEPT ![n] = g]
    BY <2>3 DEF GradedLives
  <2>6. Life!Replay(n)
    BY <2>1, <2>4, <2>5 DEF Life!Replay, Lives, GradedLives
  <2> QED
    BY <2>6 DEF LifeStep, Life!Next
<1> QED
  BY <1>1, <1>2

LEMMA StoreResultLife ==
    ASSUME Parts, Cared, NEW j \in Jobs, StoreResult(j)
    PROVE  LifeStep
<1> DEFINE s == job[j].sub
<1>1. s \in Subs /\ replayed' = replayed /\ job[j].phase = "sent"
  BY DEF StoreResult, Parts, JobType, JobSet, history
<1>2. doc' = doc \/ \E o \in Outcomes \cup {Crash} : doc' = [doc EXCEPT ![s] = Finished(o)]
  BY DEF StoreResult
<1>3. ASSUME NEW o \in Outcomes \cup {Crash}, doc' = [doc EXCEPT ![s] = Finished(o)]
      PROVE  Life!Next
  <2>1. Lives' = [Lives EXCEPT ![s] = LifeOf(Finished(o))]
    BY <1>1, <1>3, LifeExcept
  <2>2. \E g \in GradedLives : Lives' = [Lives EXCEPT ![s] = g]
    BY <2>1 DEF GradedLives
  <2>3. CASE s \in replayed
    <3>1. Life!Replayed(s)
      BY <1>1, <2>2, <2>3 DEF Life!Replayed, Lives, GradedLives
    <3> QED
      BY <1>1, <3>1 DEF Life!Next
  <2>4. CASE s \notin replayed
    <3>1. Care(s) /\ Shape(s) /\ j \in Running(s)
      BY <1>1, <2>4 DEF Cared, Running
    <3>2. Lives[s] = Life!Without("waiting")
      BY <1>1, <3>1 DEF Care, Shape, Lives
    <3>3. Life!Grade(s)
      BY <1>1, <2>2, <3>2 DEF Life!Grade, Lives, GradedLives
    <3> QED
      BY <1>1, <3>3 DEF Life!Next
  <2> QED
    BY <2>3, <2>4
<1> QED
  BY <1>1, <1>2, <1>3, LifeSame DEF LifeStep

LEMMA RestartLife ==
    ASSUME Parts, Cared, Restart
    PROVE  LifeStep
<1> DEFINE given == [Blank EXCEPT !.status = "error"]
<1>1. /\ doc' = [s \in Subs |-> IF s \in Waiting THEN given ELSE doc[s]]
      /\ replayed' = replayed
  BY DEF Restart, history
<1>2. LifeOf(given) = Life!GivenUp
  BY DEF LifeOf, Blank, Life!GivenUp, Life!Without
<1>3. ASSUME NEW s \in Subs
      PROVE  s \in Waiting <=> Lives[s] = Life!Without("waiting")
  <2>1. Shape(s)
    BY DEF Cared
  <2>2. Lives[s] = LifeOf(doc[s]) /\ Lives[s].status = doc[s].status
    BY DEF Lives, LifeOf
  <2>3. Life!Without("waiting").status = "waiting"
    BY DEF Life!Without
  <2> QED
    BY <2>1, <2>2, <2>3 DEF Shape, Waiting
<1>4. Lives' = [s \in Subs |-> IF Lives[s] = Life!Without("waiting") THEN Life!GivenUp ELSE Lives[s]]
  <2>1. Lives' = [s \in Subs |-> LifeOf(doc'[s])]
    BY DEF Lives
  <2>2. ASSUME NEW s \in Subs
        PROVE  LifeOf(doc'[s]) = IF Lives[s] = Life!Without("waiting") THEN Life!GivenUp ELSE Lives[s]
    BY <1>1, <1>2, <1>3 DEF Lives
  <2> QED
    BY <2>1, <2>2
<1>5. Life!GiveUp
  BY <1>1, <1>4 DEF Life!GiveUp, Lives
<1> QED
  BY <1>5 DEF LifeStep, Life!Next

LEMMA StepOfLife == LifeInv /\ [Next]_vars => LifeStep
<1> SUFFICES ASSUME LifeInv, [Next]_vars PROVE LifeStep
  OBVIOUS
<1>0. Parts /\ Cared
  BY PartsOfType DEF LifeInv
<1>1. CASE UNCHANGED vars
  BY <1>1, LifeSame DEF vars, database, history
<1>2. ASSUME NEW t \in Threads, Start(t) PROVE LifeStep
  <2>1. CASE Post(t)
    BY <2>1, LifeSame DEF Post, database
  <2>2. CASE Replay(t) \/ ReplayCopy(t)
    BY <1>0, <2>2, ReplayLife
  <2>3. CASE \E s \in Kept : Check(t, s) \/ Select(t, s)
    BY <2>3, LifeSame DEF Check, Select, database
  <2> QED
    BY <1>2, <2>1, <2>2, <2>3 DEF Start
<1>3. ASSUME NEW t \in Threads, Serve(t) PROVE LifeStep
  <2>1. CASE List(t) \/ ReadSelected(t) \/ WriteSelected(t)
    BY <2>1, LifeSame DEF List, ReadSelected, WriteSelected, database, history
  <2> QED
    BY <1>0, <1>3, <2>1, InsertLife, LaunchLife, StoreJobIdLife, OverwriteLife DEF Serve
<1>4. ASSUME NEW j \in Jobs, Callback(j) PROVE LifeStep
  <2>1. CASE CountNew(j) \/ CountReplay(j) \/ CountDeleted(j) \/ SetEvaluation(j)
    BY <2>1, LifeSame DEF CountNew, CountReplay, CountDeleted, SetEvaluation, database, history
  <2> QED
    BY <1>0, <1>4, <2>1, StoreResultLife DEF Callback
<1> QED
  BY <1>0, <1>1, <1>2, <1>3, <1>4, RestartLife DEF Next

\* A submission is given one result, kept until it is deleted, and nothing that
\* waits is deleted, whatever the threads, the callbacks and the restarts do.
THEOREM LifeImplemented == Spec => ImplementsLife
<1>1. Init => Life!Init
  BY DEF Init, Life!Init, Life!Without, LifeOf, Blank
<1>2. LifeInv /\ [Next]_vars => [Life!Next]_(Life!vars)
  BY StepOfLife DEF LifeStep, Life!vars, Lives
<1> QED
  BY <1>1, <1>2, LifeInvariant, PTL DEF Spec, ImplementsLife, Life!Spec

-----------------------------------------------------------------------------
(* The best of a set of submissions.                                        *)

\* A set of natural numbers has a least one.
LEMMA LeastNat ==
    ASSUME NEW T, T \subseteq Nat, T # {}
    PROVE  \E x \in T : \A y \in T : x <= y
<1>1. PICK x \in T : \A y \in T : ~ (<<y, x>> \in OpToRel(<, Nat))
  BY NatLessThanWellFounded, WFMin
<1>2. x \in Nat /\ \A y \in T : y \in Nat /\ ~(y < x)
  BY <1>1 DEF OpToRel
<1>3. \A y \in T : x <= y
  BY <1>2
<1> QED
  BY <1>1, <1>3

\* Among finitely many numbers some have the greatest value of g: there is a least
\* one of those (by the least bound up to which there is none) ...
LEMMA BestExists ==
    ASSUME NEW N \in Nat, NEW S \in SUBSET (1 .. N), S # {}, NEW g, \A s \in S : g[s] \in Nat
    PROVE  \E b \in S : \A s \in S : g[s] < g[b] \/ (g[s] = g[b] /\ b <= s)
<1> DEFINE Best(b, T) == b \in T /\ \A s \in T : g[s] < g[b] \/ (g[s] = g[b] /\ b <= s)
           Bad == {n \in 0 .. N : S \cap (1 .. n) # {} /\ ~ \E b \in S : Best(b, S \cap (1 .. n))}
<1>1. SUFFICES Bad = {}
  <2>1. S \cap (1 .. N) = S
    OBVIOUS
  <2>2. N \notin Bad
    BY <1>1
  <2> QED
    BY <2>1, <2>2
<1>2. SUFFICES ASSUME Bad # {} PROVE FALSE
  OBVIOUS
<1>3. PICK n \in Bad : \A m \in Bad : n <= m
  <2>1. Bad \subseteq Nat
    OBVIOUS
  <2> HIDE DEF Bad
  <2> QED
    BY <1>2, <2>1, LeastNat
<1>4. n \in 0 .. N /\ S \cap (1 .. n) # {} /\ \A b \in S : ~Best(b, S \cap (1 .. n))
  BY <1>3
<1>5. n # 0 /\ n - 1 \in 0 .. N /\ n - 1 \notin Bad
  BY <1>3, <1>4
<1> DEFINE T == S \cap (1 .. n)
           U == S \cap (1 .. n - 1)
<1>6. \A s \in T : s \in U \/ s = n
  BY <1>4
<1>7. n \in S /\ n \in T
  <2>1. n \notin S => T = U
    BY <1>4, <1>6
  <2>2. n \notin S => Bad # Bad
    BY <1>4, <1>5, <2>1
  <2> QED
    BY <1>4, <1>5, <2>2
<1>8. CASE U = {}
  BY <1>4, <1>6, <1>7, <1>8
<1>9. CASE U # {}
  <2>1. PICK b \in S : Best(b, U)
    BY <1>5, <1>9
  <2>2. b \in U /\ b \in T /\ b < n /\ \A s \in U : g[s] < g[b] \/ (g[s] = g[b] /\ b <= s)
    BY <1>4, <2>1
  <2>3. CASE g[n] <= g[b]
    <3>1. Best(b, T)
      BY <1>4, <1>6, <1>7, <2>2, <2>3
    <3> QED
      BY <1>4, <3>1
  <2>4. CASE ~(g[n] <= g[b])
    <3>1. \A s \in T : g[s] < g[n] \/ (g[s] = g[n] /\ n <= s)
      BY <1>4, <1>6, <1>7, <2>2, <2>4
    <3> QED
      BY <1>4, <1>7, <3>1
  <2> QED
    BY <2>3, <2>4
<1> QED
  BY <1>8, <1>9

\* ... and a greatest one.
LEMMA LatestBestExists ==
    ASSUME NEW N \in Nat, NEW S \in SUBSET (1 .. N), S # {}, NEW g, \A s \in S : g[s] \in Nat
    PROVE  \E b \in S : \A s \in S : g[s] < g[b] \/ (g[s] = g[b] /\ s <= b)
<1> DEFINE T == {x \in 1 .. N : N + 1 - x \in S}
           h == [x \in T |-> g[N + 1 - x]]
<1>1. \A s \in S : N + 1 - s \in T /\ h[N + 1 - s] = g[s]
  <2>1. \A s \in S : s \in 1 .. N /\ N + 1 - s \in 1 .. N /\ N + 1 - (N + 1 - s) = s
    OBVIOUS
  <2>2. \A s \in S : N + 1 - s \in T
    BY <2>1
  <2> QED
    BY <2>1, <2>2
<1>2. T \in SUBSET (1 .. N) /\ T # {} /\ \A x \in T : h[x] \in Nat /\ N + 1 - x \in S
  BY <1>1
<1>3. PICK c \in T : \A x \in T : h[x] < h[c] \/ (h[x] = h[c] /\ c <= x)
  <2> HIDE DEF T, h
  <2> QED
    BY <1>2, BestExists
<1>4. N + 1 - c \in S /\ h[c] = g[N + 1 - c] /\ c \in 1 .. N
  BY <1>2
<1>5. ASSUME NEW s \in S PROVE g[s] < g[N + 1 - c] \/ (g[s] = g[N + 1 - c] /\ s <= N + 1 - c)
  <2>1. h[N + 1 - s] < h[c] \/ (h[N + 1 - s] = h[c] /\ c <= N + 1 - s)
    BY <1>1, <1>3
  <2>2. h[N + 1 - s] = g[s] /\ s \in 1 .. N
    BY <1>1
  <2> HIDE DEF T, h
  <2> QED
    BY <1>4, <2>1, <2>2
<1> QED
  BY <1>4, <1>5

-----------------------------------------------------------------------------
(* Requests, replays and the evaluation.                                    *)

\* A request that inserts or replays a submission, or selects one.
Adder(t) == thread[t].pc \in {"checked", "inserted", "listed", "launched", "replaying"}
Adding(t) == thread[t].pc \in {"checked", "inserted", "listed"}
Selecting(t) == thread[t].pc \in {"missing", "select"}

\* Without overlap, submissions are inserted, replayed and counted one at a time,
\* and a request and a replay do not meet.
OneAtATime ==
    ~overlap =>
      /\ \A t, u \in Threads : Adder(t) /\ Adder(u) => t = u
      /\ \A j, k \in Uncounted : j = k
      /\ \A t \in Threads : Adding(t) => Uncounted = {}
      /\ \A t \in Threads : Selecting(t) => ~Replaying
      /\ \A t \in Threads : thread[t].pc \in {"inserted", "listed"} => thread[t].sub \notin replayed

\* What holds of requests and replays in any case.
Tidy ==
    /\ \A t \in Threads : thread[t].pc = "idle" => thread[t] = Idle
    /\ \A t \in Threads : thread[t].set # {} => Selecting(t)
    /\ \A s \in replayed : doc[s].status # "none"
    /\ \A j \in Uncounted : ~job[j].newsub => job[j].sub \in replayed

\* The jobs whose callbacks have not ended, by what may happen to them.
LEMMA OverIsCounted ==
    ASSUME Parts, NEW j \in Jobs, NEW p \in {"called", "raised"}, job' = [job EXCEPT ![j] = Over(j, p)]
    PROVE  /\ Uncounted' = Uncounted \ {j}
           /\ \A k \in Uncounted' : job'[k] = job[k]
<1>1. job'[j] = Over(j, p) /\ \A k \in Jobs : k # j => job'[k] = job[k]
  BY DEF Parts
<1>2. Over(j, p).phase \in {"called", "raised", "over"}
  BY DEF Over, Forgotten, NoJob
<1> QED
  BY <1>1, <1>2 DEF Uncounted

LEMMA ReturnedIsCounted ==
    ASSUME Parts, NEW j, Return(j), Returned(j)
    PROVE  /\ Uncounted' = Uncounted
           /\ \A k \in Uncounted' : job'[k] = job[k]
<1>1. Forgotten.phase = "over"
  BY DEF Forgotten, NoJob
<1>2. job' = job \/ (job' = [job EXCEPT ![j] = Forgotten] /\ job[j].phase \in {"called", "raised"})
  BY DEF Return, Returned
<1> QED
  BY <1>1, <1>2 DEF Uncounted, Parts

LEMMA NewIsUncounted ==
    ASSUME Parts, NEW j \in Jobs, NEW s \in Subs, NEW n \in BOOLEAN, NewJob(j, s, n)
    PROVE  /\ j \notin Uncounted /\ Uncounted' = Uncounted \cup {j}
           /\ job'[j].phase = "sent" /\ job'[j].sub = s /\ job'[j].newsub = n
           /\ \A k \in Jobs : k # j => job'[k] = job[k]
<1>1. PICK y \in BOOLEAN :
        job' = [job EXCEPT ![j] = [phase |-> "sent", sub |-> s, newsub |-> n, sync |-> y, set |-> {}]]
  BY DEF NewJob
<1>2. job[j].phase = "none"
  BY DEF NewJob, NextJob, NoJob
<1>3. /\ job'[j].phase = "sent" /\ job'[j].sub = s /\ job'[j].newsub = n
      /\ \A k \in Jobs : k # j => job'[k] = job[k]
  BY <1>1 DEF Parts
<1> QED
  BY <1>2, <1>3 DEF Uncounted

\* The record of a job moves on within its callback.
LEMMA MovedIsUncounted ==
    ASSUME Parts, NEW j \in Jobs, NEW r \in JobType, job' = [job EXCEPT ![j] = r],
           j \in Uncounted, r.phase \in {"stored", "setting"}
    PROVE  Uncounted' = Uncounted
BY DEF Parts, Uncounted

LEMMA ReadyIsCounted ==
    ASSUME Parts, NEW j \in Uncounted, NEW set, Ready(j, set)
    PROVE  /\ set = {} => Uncounted' = Uncounted \ {j}
           /\ set # {} => /\ Uncounted' = Uncounted
                          /\ job'[j].phase = "setting" /\ job'[j].set = set
                          /\ job'[j].sub = job[j].sub /\ job'[j].newsub = job[j].newsub
           /\ \A k \in Jobs \ {j} : job'[k] = job[k]
<1>0. j \in Jobs /\ job[j] \in JobType
  BY DEF Uncounted, Parts
<1>1. \A k \in Jobs \ {j} : job'[k] = job[k]
  BY <1>0 DEF Ready, Parts
<1>2. CASE set = {}
  <2>1. job' = [job EXCEPT ![j] = Over(j, "called")]
    BY <1>2 DEF Ready
  <2> QED
    BY <1>0, <1>1, <1>2, <2>1, OverIsCounted
<1>3. CASE set # {}
  <2>1. job'[j] = [job[j] EXCEPT !.set = set, !.phase = "setting"]
    BY <1>0, <1>3 DEF Ready, Parts
  <2>2. /\ job'[j].phase = "setting" /\ job'[j].set = set
        /\ job'[j].sub = job[j].sub /\ job'[j].newsub = job[j].newsub
    BY <1>0, <2>1 DEF JobType
  <2>3. Uncounted' = Uncounted
    BY <1>0, <1>1, <2>2 DEF Uncounted
  <2> QED
    BY <1>1, <1>3, <2>2, <2>3
<1> QED
  BY <1>2, <1>3

\* What a callback does to the jobs.
LEMMA CallbackJobs ==
    ASSUME Parts, NEW j \in Jobs, Callback(j)
    PROVE  /\ j \in Uncounted
           /\ Uncounted' \subseteq Uncounted /\ Uncounted \subseteq Uncounted' \cup {j}
           /\ \A k \in Jobs \ {j} : job'[k] = job[k]
           /\ j \in Uncounted' => job'[j].sub = job[j].sub /\ job'[j].newsub = job[j].newsub
<1>1. j \in Uncounted
  BY DEF Callback, StoreResult, CountNew, CountReplay, CountDeleted, SetEvaluation, Uncounted
<1>2. \/ \E o : job' = [job EXCEPT ![j].phase = "stored", ![j].set = {o}]
      \/ \E p \in {"called", "raised"} : job' = [job EXCEPT ![j] = Over(j, p)]
      \/ \E set : Ready(j, set)
  BY DEF Callback, StoreResult, CountNew, CountReplay, CountDeleted, SetEvaluation
<1>3. ASSUME NEW o, job' = [job EXCEPT ![j].phase = "stored", ![j].set = {o}]
      PROVE  /\ job'[j].phase = "stored" /\ job'[j].sub = job[j].sub /\ job'[j].newsub = job[j].newsub
             /\ \A k \in Jobs \ {j} : job'[k] = job[k]
  <2>1. job[j] \in JobType /\ job'[j] = [job[j] EXCEPT !.phase = "stored", !.set = {o}]
    BY <1>3 DEF Parts
  <2> QED
    BY <1>3, <2>1 DEF Parts, JobType
<1>4. CASE \E o : job' = [job EXCEPT ![j].phase = "stored", ![j].set = {o}]
  BY <1>1, <1>3, <1>4 DEF Uncounted
<1>5. ASSUME NEW p \in {"called", "raised"}, job' = [job EXCEPT ![j] = Over(j, p)]
      PROVE  Uncounted' = Uncounted \ {j} /\ \A k \in Jobs \ {j} : job'[k] = job[k]
  BY <1>5, OverIsCounted DEF Parts
<1>6. CASE \E set : Ready(j, set)
  <2>1. PICK set : Ready(j, set)
    BY <1>6
  <2> QED
    BY <1>1, <2>1, ReadyIsCounted
<1> QED
  BY <1>1, <1>2, <1>4, <1>5, <1>6

\* s has been given a result, and no other one will come unless it is replayed.
Given(s) == doc[s].status # "none" /\ (s \notin replayed => doc[s].status # "waiting")

\* A step gives s no result.
Steady(s) ==
    /\ doc[s].status # "none" => doc'[s].status # "none"
    /\ Given(s) =>
         /\ Given(s)'
         /\ doc'[s].status = "done" =>
              doc[s].status = "done" /\ doc'[s].grade = doc[s].grade /\ doc'[s].result = doc[s].result

LEMMA SteadyFrame ==
    ASSUME NEW s \in Subs, doc'[s] = doc[s], replayed \subseteq replayed'
    PROVE  Steady(s)
BY DEF Steady, Given

LEMMA ServeSteady ==
    ASSUME Parts, Cared, NEW t \in Threads, Serve(t), NEW s \in Subs
    PROVE  Steady(s)
<1>0. doc \in [Subs -> DocType] /\ doc[s] \in DocType
  BY DEF Parts
<1>1. CASE Insert(t)
  <2>1. PICK n \in Subs : NextSub(n) /\ doc' = [doc EXCEPT ![n].status = "waiting"]
    BY <1>1 DEF Insert
  <2>2. replayed' = replayed /\ doc[n].status = "none"
    BY <1>1, <2>1 DEF Insert, NextSub
  <2>3. s # n => doc'[s] = doc[s]
    BY <1>0, <2>1
  <2>4. s = n => doc'[s].status = "waiting"
    BY <1>0, <2>1 DEF DocType
  <2> QED
    BY <2>2, <2>3, <2>4, SteadyFrame DEF Steady, Given
<1>2. CASE Launch(t)
  <2>1. replayed' = replayed /\ (doc'[s] = doc[s] \/ doc'[s].status = "deleted")
    BY <1>2 DEF Launch, Blank
  <2> QED
    BY <2>1, SteadyFrame DEF Steady, Given
<1>3. CASE StoreJobId(t)
  <2>1. doc' = doc \/ doc' = [doc EXCEPT ![thread[t].sub].jobid = IdOf(thread[t].job)]
    BY <1>3 DEF StoreJobId
  <2>2. /\ doc'[s].status = doc[s].status /\ doc'[s].grade = doc[s].grade
        /\ doc'[s].result = doc[s].result /\ replayed' = replayed
    BY <1>0, <1>3, <2>1 DEF StoreJobId, history, DocType
  <2> QED
    BY <2>2 DEF Steady, Given
<1>4. CASE Overwrite(t)
  <2>1. /\ replayed' = replayed /\ thread[t].sub \in replayed
        /\ \/ doc' = doc
           \/ doc' = [doc EXCEPT ![thread[t].sub] = [Blank EXCEPT !.status = "waiting", !.jobid = IdOf(thread[t].job)]]
    BY <1>4 DEF Overwrite, history, Cared, Careful
  <2>2. doc'[s] = doc[s] \/ (s \in replayed /\ doc'[s].status = "waiting")
    BY <1>0, <2>1 DEF Blank
  <2> QED
    BY <2>1, <2>2, SteadyFrame DEF Steady, Given
<1>5. CASE List(t) \/ ReadSelected(t) \/ WriteSelected(t)
  <2>1. doc' = doc /\ replayed' = replayed
    BY <1>5 DEF List, ReadSelected, WriteSelected, database, history
  <2> QED
    BY <2>1, SteadyFrame
<1> QED
  BY <1>1, <1>2, <1>3, <1>4, <1>5 DEF Serve

LEMMA StartSteady ==
    ASSUME Parts, NEW t \in Threads, Start(t), NEW s \in Subs
    PROVE  Steady(s)
<1>1. CASE ReplayCopy(t)
  <2>1. PICK n \in Subs : /\ NextSub(n)
                          /\ \E o \in Outcomes : doc' = [doc EXCEPT ![n] = Finished(o)]
                          /\ replayed' = replayed \cup {n}
    BY <1>1 DEF ReplayCopy
  <2>2. doc[n].status = "none" /\ (s # n => doc'[s] = doc[s]) /\ (s = n => doc'[s].status # "none")
    BY <2>1 DEF NextSub, Parts, Finished
  <2> QED
    BY <2>1, <2>2, SteadyFrame DEF Steady, Given
<1>2. CASE ~ReplayCopy(t)
  <2>1. doc' = doc /\ replayed \subseteq replayed'
    BY <1>2 DEF Start, Post, Replay, Check, Select, database
  <2> QED
    BY <2>1, SteadyFrame
<1> QED
  BY <1>1, <1>2

\* Where the requests and the jobs go, in one step of a request.
LEMMA ServeMoves ==
    ASSUME Parts, NEW t \in Threads, Serve(t)
    PROVE  /\ thread[t].pc # "idle"
           /\ \A u \in Threads \ {t} : thread'[u] = thread[u]
           /\ \/ thread'[t] = Idle
              \/ thread'[t].pc # "idle" /\ thread'[t].set = thread[t].set /\ Adder(t) /\ Adder(t)'
              \/ thread'[t].pc # "idle" /\ Selecting(t) /\ Selecting(t)'
           /\ Adding(t)' => Adding(t)
           /\ thread'[t].pc # "replaying"
           /\ thread'[t].pc \in {"inserted", "listed"} =>
                (thread'[t].sub = thread[t].sub /\ thread[t].pc = "inserted") \/ doc[thread'[t].sub].status = "none"
           /\ replayed' = replayed /\ (overlap => overlap')
<1>1. thread \in [Threads -> ThreadType] /\ thread[t] \in ThreadType
  BY DEF Parts
<1>2. CASE Insert(t)
  <2>1. PICK s \in Subs : NextSub(s) /\ thread' = [thread EXCEPT ![t].sub = s, ![t].pc = "inserted"]
    BY <1>2 DEF Insert
  <2>2. /\ thread[t].pc = "checked" /\ doc[s].status = "none"
        /\ thread'[t].pc = "inserted" /\ thread'[t].sub = s /\ thread'[t].set = thread[t].set
        /\ replayed' = replayed /\ (overlap => overlap')
    BY <1>1, <1>2, <2>1 DEF Insert, NextSub, ThreadType, Parts
  <2> QED
    BY <1>1, <2>1, <2>2 DEF Adder, Adding, Selecting
<1>3. CASE List(t)
  <2>1. /\ thread[t].pc = "inserted" /\ thread'[t].pc = "listed"
        /\ thread'[t].sub = thread[t].sub /\ thread'[t].set = thread[t].set
        /\ \A u \in Threads \ {t} : thread'[u] = thread[u]
        /\ replayed' = replayed /\ overlap' = overlap
    BY <1>1, <1>3 DEF List, ThreadType, history
  <2> QED
    BY <2>1 DEF Adder, Adding, Selecting
<1>4. CASE Launch(t)
  <2>1. PICK j \in Jobs : thread' = [thread EXCEPT ![t].job = j, ![t].pc = "launched"]
    BY <1>4 DEF Launch
  <2>2. /\ thread[t].pc = "listed" /\ thread'[t].pc = "launched" /\ thread'[t].set = thread[t].set
        /\ \A u \in Threads \ {t} : thread'[u] = thread[u]
        /\ replayed' = replayed /\ overlap' = overlap
    BY <1>1, <1>4, <2>1 DEF Launch, ThreadType
  <2> QED
    BY <2>2 DEF Adder, Adding, Selecting
<1>5. ASSUME NEW a, Reply(t, a), thread[t].pc # "idle", UNCHANGED history
      PROVE  /\ thread[t].pc # "idle"
             /\ \A u \in Threads \ {t} : thread'[u] = thread[u]
             /\ thread'[t] = Idle /\ thread'[t].pc = "idle"
             /\ replayed' = replayed /\ overlap' = overlap
  BY <1>1, <1>5 DEF Reply, Idle, history
<1>6. CASE StoreJobId(t)
  <2>1. PICK a : Reply(t, a)
    BY <1>6 DEF StoreJobId
  <2>2. thread[t].pc # "idle" /\ UNCHANGED history
    BY <1>6 DEF StoreJobId
  <2> QED
    BY <1>5, <2>1, <2>2 DEF Adding
<1>7. CASE Overwrite(t)
  BY <1>5, <1>7 DEF Overwrite, Adding
<1>8. CASE ReadSelected(t)
  <2>1. thread[t].pc \in {"missing", "select"} /\ UNCHANGED history
    BY <1>8 DEF ReadSelected
  <2>2. Reply(t, Failure) \/ \E e : thread' = [thread EXCEPT ![t].set = {e}]
    BY <1>8 DEF ReadSelected
  <2>3. CASE Reply(t, Failure)
    BY <1>5, <2>1, <2>3 DEF Adding
  <2>4. CASE \E e : thread' = [thread EXCEPT ![t].set = {e}]
    <3>1. thread'[t].pc = thread[t].pc /\ \A u \in Threads \ {t} : thread'[u] = thread[u]
      BY <1>1, <2>4 DEF ThreadType
    <3> QED
      BY <2>1, <3>1 DEF Adding, Selecting, history
  <2> QED
    BY <2>2, <2>3, <2>4
<1>9. CASE WriteSelected(t)
  <2>1. PICK a : Reply(t, a)
    BY <1>9 DEF WriteSelected
  <2>2. thread[t].pc # "idle" /\ UNCHANGED history
    BY <1>9 DEF WriteSelected
  <2> QED
    BY <1>5, <2>1, <2>2 DEF Adding
<1> QED
  BY <1>2, <1>3, <1>4, <1>6, <1>7, <1>8, <1>9 DEF Serve

LEMMA ServeJobs ==
    ASSUME Parts, NEW t \in Threads, Serve(t), ~Launch(t)
    PROVE  /\ Uncounted' = Uncounted
           /\ \A k \in Uncounted : job'[k] = job[k]
<1>1. CASE StoreJobId(t) \/ Overwrite(t)
  <2>1. Return(thread[t].job) /\ Returned(thread[t].job)
    BY <1>1 DEF StoreJobId, Overwrite
  <2> QED
    BY <2>1, ReturnedIsCounted
<1>2. CASE ~(StoreJobId(t) \/ Overwrite(t))
  <2>1. job' = job
    BY <1>2 DEF Serve, Insert, List, ReadSelected, WriteSelected, database
  <2> QED
    BY <2>1 DEF Uncounted
<1> QED
  BY <1>1, <1>2

LEMMA ServeTidy ==
    ASSUME Parts, Cared, Tidy, NEW t \in Threads, Serve(t)
    PROVE  Tidy'
<1>1. /\ \A u \in Threads \ {t} : thread'[u] = thread[u]
      /\ \/ thread'[t] = Idle
         \/ thread'[t].pc # "idle" /\ thread'[t].set = thread[t].set /\ Adder(t) /\ Adder(t)'
         \/ thread'[t].pc # "idle" /\ Selecting(t) /\ Selecting(t)'
      /\ replayed' = replayed
  BY ServeMoves
<1>2. Idle.set = {}
  BY DEF Idle
<1>3. \A u \in Threads : thread'[u].pc = "idle" => thread'[u] = Idle
  BY <1>1 DEF Tidy
<1>4. \A u \in Threads : thread'[u].set # {} => Selecting(u)'
  <2>1. Adder(t) => thread[t].set = {}
    BY DEF Tidy, Adder, Selecting
  <2> QED
    BY <1>1, <1>2, <2>1 DEF Tidy, Selecting
<1>5. \A s \in replayed' : doc'[s].status # "none"
  <2>1. replayed \subseteq Subs
    BY DEF Parts
  <2> QED
    BY <1>1, <2>1, ServeSteady DEF Steady, Tidy
<1>6. \A j \in Uncounted' : ~job'[j].newsub => job'[j].sub \in replayed
  <2>1. CASE Launch(t)
    <3>1. thread[t].sub \in Subs
      BY <2>1 DEF Launch, Parts, ThreadType, ThreadSub
    <3>2. PICK j \in Jobs : NewJob(j, thread[t].sub, TRUE)
      BY <2>1 DEF Launch
    <3>3. job'[j].newsub /\ Uncounted' = Uncounted \cup {j} /\ \A k \in Jobs : k # j => job'[k] = job[k]
      BY <3>1, <3>2, NewIsUncounted
    <3> QED
      BY <3>3 DEF Tidy, Uncounted
  <2>2. CASE ~Launch(t)
    BY <2>2, ServeJobs DEF Tidy
  <2> QED
    BY <2>1, <2>2
<1> QED
  BY <1>1, <1>3, <1>4, <1>5, <1>6 DEF Tidy

LEMMA ServeOne ==
    ASSUME Parts, Tidy, OneAtATime, NEW t \in Threads, Serve(t)
    PROVE  OneAtATime'
<1>1. SUFFICES ASSUME ~overlap' PROVE OneAtATime'
  BY DEF OneAtATime
<1>2. /\ \A u \in Threads \ {t} : thread'[u] = thread[u]
      /\ \/ thread'[t] = Idle
         \/ thread'[t].pc # "idle" /\ thread'[t].set = thread[t].set /\ Adder(t) /\ Adder(t)'
         \/ thread'[t].pc # "idle" /\ Selecting(t) /\ Selecting(t)'
      /\ Adding(t)' => Adding(t)
      /\ thread'[t].pc # "replaying"
      /\ thread'[t].pc \in {"inserted", "listed"} =>
           (thread'[t].sub = thread[t].sub /\ thread[t].pc = "inserted") \/ doc[thread'[t].sub].status = "none"
      /\ replayed' = replayed /\ ~overlap
  BY <1>1, ServeMoves
<1>3. Idle.pc = "idle"
  BY DEF Idle
<1>4. \A u \in Threads : (Adder(u)' => Adder(u)) /\ (Adding(u)' => Adding(u)) /\ (Selecting(u)' => Selecting(u))
  BY <1>2, <1>3 DEF Adder, Adding, Selecting
<1>5. \A u \in Threads : thread'[u].pc \in {"inserted", "listed"} => thread'[u].sub \notin replayed'
  BY <1>2 DEF OneAtATime, Tidy
<1>6. \A u, v \in Threads : Adder(u)' /\ Adder(v)' => u = v
  BY <1>2, <1>4 DEF OneAtATime
<1>7. CASE Launch(t)
  <2>1. thread[t].sub \in Subs /\ thread[t].pc = "listed"
    BY <1>7 DEF Launch, Parts, ThreadType, ThreadSub
  <2>2. PICK j \in Jobs : NewJob(j, thread[t].sub, TRUE) /\ thread' = [thread EXCEPT ![t].job = j, ![t].pc = "launched"]
    BY <1>7 DEF Launch
  <2>3. Uncounted = {} /\ thread[t].sub \notin replayed /\ Adder(t)
    BY <1>2, <2>1 DEF OneAtATime, Adding, Adder
  <2>4. Uncounted' = {j} /\ job'[j].sub = thread[t].sub
    BY <2>1, <2>2, <2>3, NewIsUncounted
  <2>5. thread'[t].pc = "launched"
    BY <2>2 DEF Parts, ThreadType
  <2>6. \A u \in Threads : ~Adding(u)' /\ thread'[u].pc # "replaying"
    BY <1>2, <2>3, <2>5 DEF OneAtATime, Adder, Adding
  <2>7. ~Replaying'
    BY <1>2, <2>3, <2>4, <2>6 DEF Replaying
  <2> QED
    BY <1>5, <1>6, <2>4, <2>6, <2>7 DEF OneAtATime
<1>8. CASE ~Launch(t)
  <2>1. Uncounted' = Uncounted /\ \A k \in Uncounted : job'[k] = job[k]
    BY <1>8, ServeJobs
  <2>2. Replaying' => Replaying
    BY <1>2, <2>1 DEF Replaying
  <2> QED
    BY <1>2, <1>4, <1>5, <1>6, <2>1, <2>2 DEF OneAtATime
<1> QED
  BY <1>7, <1>8

LEMMA CallbackTidy ==
    ASSUME Parts, Tidy, NEW j \in Jobs, Callback(j)
    PROVE  Tidy' /\ (OneAtATime => OneAtATime')
<1>1. thread' = thread /\ replayed' = replayed /\ overlap' = overlap
  BY DEF Callback, StoreResult, CountNew, CountReplay, CountDeleted, SetEvaluation, history
<1>2. /\ j \in Uncounted
      /\ Uncounted' \subseteq Uncounted
      /\ \A k \in Jobs \ {j} : job'[k] = job[k]
      /\ j \in Uncounted' => job'[j].sub = job[j].sub /\ job'[j].newsub = job[j].newsub
  BY CallbackJobs
<1>3. Uncounted \subseteq Jobs
  BY DEF Uncounted
<1>4. \A s \in Subs : doc[s].status # "none" => doc'[s].status # "none"
  <2>1. doc' = doc \/ \E o : doc' = [doc EXCEPT ![job[j].sub] = Finished(o)]
    BY DEF Callback, StoreResult, CountNew, CountReplay, CountDeleted, SetEvaluation, database
  <2>2. ASSUME NEW o PROVE Finished(o).status # "none"
    BY DEF Finished
  <2>3. ASSUME NEW s \in Subs, doc[s].status # "none" PROVE doc'[s].status # "none"
    <3>1. doc'[s] = doc[s] \/ \E o : doc'[s] = Finished(o)
      BY <2>1 DEF Parts
    <3> QED
      BY <2>2, <2>3, <3>1
  <2> QED
    BY <2>3
<1>5. Tidy'
  <2>1. replayed \subseteq Subs
    BY DEF Parts
  <2> QED
    BY <1>1, <1>2, <1>3, <1>4, <2>1 DEF Tidy, Selecting
<1>6. ASSUME OneAtATime PROVE OneAtATime'
  <2>1. Replaying' => Replaying
    BY <1>1, <1>2, <1>3 DEF Replaying
  <2>2. Uncounted = {} => Uncounted' = {}
    BY <1>2
  <2> QED
    BY <1>1, <1>2, <1>6, <2>1, <2>2 DEF OneAtATime, Adder, Adding, Selecting
<1> QED
  BY <1>5, <1>6

\* A request that begins when nothing else goes on.
LEMMA Undisturbed ==
    ASSUME NEW t \in Threads, thread[t].pc = "idle", ~Disturbed(t)
    PROVE  Uncounted = {} /\ \A u \in Threads : thread[u].pc = "idle"
BY DEF Disturbed

LEMMA ReplayingThread ==
    ASSUME Parts, NEW t \in Threads, NEW s \in Subs, NEW j \in Jobs,
           thread' = [thread EXCEPT ![t] = [Idle EXCEPT !.pc = "replaying", !.sub = s, !.job = j]]
    PROVE  /\ thread'[t].pc = "replaying" /\ thread'[t].sub = s /\ thread'[t].set = {}
           /\ \A u \in Threads \ {t} : thread'[u] = thread[u]
<1> DEFINE r == [Idle EXCEPT !.pc = "replaying", !.sub = s, !.job = j]
<1>1. Idle \in ThreadType /\ Idle.set = {}
  BY RecordTypes DEF Idle
<1>2. r.pc = "replaying" /\ r.sub = s /\ r.set = {}
  BY <1>1 DEF ThreadType
<1>3. thread'[t] = r /\ \A u \in Threads \ {t} : thread'[u] = thread[u]
  BY DEF Parts
<1> QED
  BY <1>2, <1>3

\* A submission is replayed.
LEMMA ReplayTidy ==
    ASSUME Parts, Tidy, OneAtATime, NEW t \in Threads, Replay(t) \/ ReplayCopy(t)
    PROVE  Tidy' /\ OneAtATime'
<1>1. PICK s \in Subs, j \in Jobs, n \in BOOLEAN :
        /\ NewJob(j, s, n)
        /\ thread' = [thread EXCEPT ![t] = [Idle EXCEPT !.pc = "replaying", !.sub = s, !.job = j]]
        /\ replayed' = replayed \cup {s}
        /\ doc'[s].status # "none"
  <2>1. CASE Replay(t)
    BY <2>1 DEF Replay, Kept, Exists, database
  <2>2. CASE ReplayCopy(t)
    <3>1. PICK s \in Subs, j \in Jobs :
            /\ \E o \in Outcomes : doc' = [doc EXCEPT ![s] = Finished(o)]
            /\ NewJob(j, s, TRUE)
            /\ thread' = [thread EXCEPT ![t] = [Idle EXCEPT !.pc = "replaying", !.sub = s, !.job = j]]
            /\ replayed' = replayed \cup {s}
      BY <2>2 DEF ReplayCopy
    <3>2. doc'[s].status # "none"
      BY <3>1 DEF Parts, Finished
    <3> QED
      BY <3>1, <3>2
  <2> QED
    BY <2>1, <2>2
<1>2. thread[t].pc = "idle" /\ overlap' = (overlap \/ Disturbed(t)) /\ Start(t)
  BY DEF Replay, ReplayCopy, Start
<1>3. /\ thread'[t].pc = "replaying" /\ thread'[t].sub = s /\ thread'[t].set = {}
      /\ \A u \in Threads \ {t} : thread'[u] = thread[u]
  BY <1>1, ReplayingThread
<1>4. /\ Uncounted' = Uncounted \cup {j} /\ j \notin Uncounted
      /\ job'[j].sub = s
      /\ \A k \in Jobs : k # j => job'[k] = job[k]
  BY <1>1, NewIsUncounted
<1>5. Tidy'
  <2>1. \A u \in replayed' : doc'[u].status # "none"
    BY <1>1, <1>2, StartSteady DEF Steady, Tidy, Parts
  <2>2. \A k \in Uncounted' : ~job'[k].newsub => job'[k].sub \in replayed'
    BY <1>1, <1>4 DEF Tidy, Uncounted
  <2> QED
    BY <1>3, <2>1, <2>2 DEF Tidy, Selecting
<1>6. OneAtATime'
  <2>1. SUFFICES ASSUME ~overlap' PROVE OneAtATime'
    BY DEF OneAtATime
  <2>2. Uncounted = {} /\ \A u \in Threads : thread[u].pc = "idle"
    BY <1>2, <2>1, Undisturbed
  <2>3. \A u \in Threads : (u # t => ~Adder(u)') /\ ~Adding(u)' /\ ~Selecting(u)' /\ thread'[u].pc \notin {"inserted", "listed"}
    BY <1>3, <2>2 DEF Adder, Adding, Selecting
  <2> QED
    BY <1>4, <2>2, <2>3 DEF OneAtATime
<1> QED
  BY <1>5, <1>6

LEMMA StartTidy ==
    ASSUME Parts, Tidy, OneAtATime, NEW t \in Threads, Start(t)
    PROVE  Tidy' /\ OneAtATime'
<1>0. Idle.set = {} /\ thread \in [Threads -> ThreadType]
  BY DEF Idle, Parts
<1>1. ASSUME NEW pc \in {"idle", "checked", "missing", "select"},
             thread[t].pc = "idle", doc' = doc, job' = job, replayed' = replayed, overlap => overlap',
             thread'[t].pc = pc, pc = "idle" => thread'[t] = Idle, thread'[t].set = {},
             \A u \in Threads \ {t} : thread'[u] = thread[u],
             pc = "checked" /\ ~overlap' => ~Disturbed(t),
             pc \in {"missing", "select"} /\ ~overlap' => ~Replaying
      PROVE  Tidy' /\ OneAtATime'
  <2>1. Uncounted' = Uncounted /\ \A j \in Uncounted : job'[j] = job[j]
    BY <1>1 DEF Uncounted
  <2>2. Tidy'
    BY <1>1, <2>1 DEF Tidy, Selecting
  <2>3. Replaying' => Replaying
    BY <1>1, <2>1 DEF Replaying
  <2>4. CASE pc = "checked"
    <3>1. ~overlap' => Uncounted = {} /\ \A u \in Threads : thread[u].pc = "idle"
      BY <1>1, <2>4, Undisturbed
    <3>2. ~overlap' => \A u \in Threads \ {t} : ~Adder(u)' /\ ~Selecting(u)'
      BY <1>1, <3>1 DEF Adder, Selecting
    <3>3. ~Selecting(t)' /\ ~(thread'[t].pc \in {"inserted", "listed"})
      BY <1>1, <2>4 DEF Selecting
    <3> QED
      BY <1>1, <2>1, <2>2, <3>1, <3>2, <3>3 DEF OneAtATime, Adder
  <2>5. CASE pc # "checked"
    <3>1. ~Adder(t)' /\ ~Adding(t)'
      BY <1>1, <2>5 DEF Adder, Adding
    <3>2. \A u \in Threads : (Adder(u)' => Adder(u)) /\ (Adding(u)' => Adding(u))
      BY <1>1, <3>1 DEF Adder, Adding
    <3>3. \A u \in Threads : ~overlap' /\ Selecting(u)' => ~Replaying
      BY <1>1, <2>5 DEF Selecting, OneAtATime
    <3>4. \A u \in Threads : thread'[u].pc \in {"inserted", "listed"} => thread'[u] = thread[u]
      BY <1>1
    <3> QED
      BY <1>1, <2>1, <2>2, <2>3, <3>2, <3>3, <3>4 DEF OneAtATime
  <2> QED
    BY <2>4, <2>5
<1>2. ASSUME NEW a, Reply(t, a), thread[t].pc = "idle"
      PROVE  thread'[t].pc = "idle" /\ thread'[t] = Idle /\ thread'[t].set = {} /\ \A u \in Threads \ {t} : thread'[u] = thread[u]
  BY <1>0, <1>2 DEF Reply, Idle
<1>3. thread[t].pc = "idle" => thread[t].set = {}
  BY <1>0 DEF Tidy
<1>4. CASE Post(t)
  <2>1. /\ thread[t].pc = "idle" /\ doc' = doc /\ job' = job /\ replayed' = replayed
        /\ overlap' = (overlap \/ Disturbed(t))
    BY <1>4 DEF Post, database
  <2>2. CASE Reply(t, ErrorAnswer)
    BY <1>1, <1>2, <2>1, <2>2
  <2>3. CASE Goto(t, "checked")
    <3>1. thread'[t].pc = "checked" /\ thread'[t].set = {} /\ \A u \in Threads \ {t} : thread'[u] = thread[u]
      BY <1>0, <1>3, <2>1, <2>3 DEF Goto, ThreadType
    <3> QED
      BY <1>1, <2>1, <3>1
  <2> QED
    BY <1>4, <2>2, <2>3 DEF Post
<1>5. ASSUME NEW s \in Kept, Check(t, s) \/ Select(t, s)
      PROVE  Tidy' /\ OneAtATime'
  <2>1. /\ thread[t].pc = "idle" /\ doc' = doc /\ job' = job /\ replayed' = replayed
        /\ overlap' = (overlap \/ Replaying)
    BY <1>5 DEF Check, Select, database
  <2>2. \/ \E a : Reply(t, a)
        \/ \E pc \in {"missing", "select"} : thread' = [thread EXCEPT ![t].pc = pc, ![t].sub = s]
    BY <1>5 DEF Check, Select
  <2>3. CASE \E a : Reply(t, a)
    BY <1>1, <1>2, <2>1, <2>3
  <2>4. CASE \E pc \in {"missing", "select"} : thread' = [thread EXCEPT ![t].pc = pc, ![t].sub = s]
    <3>1. PICK pc \in {"missing", "select"} : thread' = [thread EXCEPT ![t].pc = pc, ![t].sub = s]
      BY <2>4
    <3>2. thread'[t].pc = pc /\ thread'[t].set = {} /\ \A u \in Threads \ {t} : thread'[u] = thread[u]
      BY <1>0, <1>3, <2>1, <3>1 DEF ThreadType
    <3> QED
      BY <1>1, <2>1, <3>2
  <2> QED
    BY <2>2, <2>3, <2>4
<1> QED
  BY <1>4, <1>5, ReplayTidy DEF Start

LEMMA RestartTidy ==
    ASSUME Parts, Tidy, Restart
    PROVE  Tidy' /\ OneAtATime'
<1>1. /\ \A s \in Subs : doc[s].status # "none" => doc'[s].status # "none"
      /\ job' = [j \in Jobs |-> IF job[j] = NoJob THEN NoJob ELSE Forgotten]
      /\ thread' = [t \in Threads |-> Idle]
      /\ replayed' = replayed /\ replayed \subseteq Subs
  BY DEF Restart, history, Parts
<1>2. Idle.pc = "idle" /\ Idle.set = {} /\ NoJob.phase = "none" /\ Forgotten.phase = "over"
  BY DEF Idle, NoJob, Forgotten
<1>3. Uncounted' = {} /\ \A t \in Threads : thread'[t] = Idle
  BY <1>1, <1>2 DEF Uncounted
<1>4. \A t \in Threads : ~Adder(t)' /\ ~Adding(t)' /\ ~Selecting(t)'
  BY <1>2, <1>3 DEF Adder, Adding, Selecting
<1> QED
  BY <1>1, <1>2, <1>3, <1>4 DEF Tidy, OneAtATime, Adding

\* Submissions are handled one at a time, as long as nothing overlaps.
LEMMA TidyStep == Parts /\ Cared /\ Tidy /\ OneAtATime /\ [Next]_vars => Tidy' /\ OneAtATime'
<1> SUFFICES ASSUME Parts, Cared, Tidy, OneAtATime, [Next]_vars PROVE Tidy' /\ OneAtATime'
  OBVIOUS
<1>1. CASE UNCHANGED vars
  <2>1. Uncounted' = Uncounted /\ Replaying' = Replaying
    BY <1>1 DEF vars, Uncounted, Replaying, history
  <2> QED
    BY <1>1, <2>1 DEF vars, database, history, Tidy, OneAtATime, Adder, Adding, Selecting
<1>2. ASSUME NEW t \in Threads, Start(t) \/ Serve(t) PROVE Tidy' /\ OneAtATime'
  BY <1>2, StartTidy, ServeTidy, ServeOne
<1>3. ASSUME NEW j \in Jobs, Callback(j) PROVE Tidy' /\ OneAtATime'
  BY <1>3, CallbackTidy
<1> QED
  BY <1>1, <1>2, <1>3, RestartTidy DEF Next

LEMMA InitTidy == Init => Tidy /\ OneAtATime
<1> SUFFICES ASSUME Init PROVE Tidy /\ OneAtATime
  OBVIOUS
<1>1. \A t \in Threads : thread[t] = Idle
  BY DEF Init
<1>2. Idle.pc = "idle" /\ Idle.set = {} /\ NoJob.phase = "none"
  BY DEF Idle, NoJob
<1>3. Uncounted = {} /\ replayed = {}
  BY <1>2 DEF Init, Uncounted
<1> QED
  BY <1>1, <1>2, <1>3 DEF Tidy, OneAtATime, Adder, Adding, Selecting

-----------------------------------------------------------------------------
(* The grade of user_tasks agrees with the submission used for evaluation.  *)

\* The cases that CacheAgrees does not except.
Fine == restarts = 0 /\ (overlap => replayed = {})

\* The evaluation e is what the collection says of s, if s is done.
Matches(e, s) ==
    s \in Done => e.grade = doc[s].grade /\ e.succeeded = (doc[s].result = "success")

\* The replay of s is not counted yet.
ReplayPending(s) == \E j \in Uncounted : job[j].sub = s /\ s \in replayed

TaskInv == task.sub # 0 => Given(task.sub) /\ (Matches(task, task.sub) \/ ReplayPending(task.sub))

StoredInv(j) ==
    job[j].phase = "stored" =>
      /\ Given(job[j].sub)
      /\ \A o \in job[j].set :
           job[j].sub \in Done => o.grade = doc[job[j].sub].grade /\ o.result = doc[job[j].sub].result

SettingInv(j) ==
    job[j].phase = "setting" =>
      \A e \in job[j].set :
        /\ e.sub # 0 => Given(e.sub) /\ Matches(e, e.sub)
        /\ e.sub = 0 => job[j].sub \in replayed /\ Matches(e, task.sub)

\* The job of a copy comes before the copy is used for evaluation.
NewInv(j) ==
    job[j].phase \in {"sent", "stored"} /\ job[j].newsub /\ job[j].sub \in replayed => task.sub # job[j].sub

SelectedInv(t) == \A e \in thread[t].set : e.sub # 0 /\ Given(e.sub) /\ Matches(e, e.sub)

Cache ==
    /\ TaskInv
    /\ \A j \in Jobs : StoredInv(j) /\ SettingInv(j) /\ NewInv(j)
    /\ \A t \in Threads : SelectedInv(t)

\* The inductive invariant.
CacheInv == LifeInv /\ Tidy /\ OneAtATime /\ restarts \in Nat /\ (Fine => Cache)

LEMMA GivenType ==
    ASSUME Parts, Cared
    PROVE  /\ task.sub \in Subs \cup {0}
           /\ \A j \in Jobs : job[j].sub \in Subs \cup {0}
           /\ \A j \in Jobs : job[j].phase \in {"sent", "stored"} => job[j].sub \in Subs
           /\ \A j \in Jobs : job[j].phase = "setting" => \A e \in job[j].set : e \in Evaluations /\ e.sub \in Subs \cup {0}
           /\ \A t \in Threads : \A e \in thread[t].set : e \in Evaluations /\ e.sub \in Subs \cup {0}
           /\ 0 \notin Subs /\ Done \subseteq Subs
BY DEF Parts, TaskType, JobType, JobSet, ThreadType, Evaluations, Subs, Done

\* What was given stays given, and what matches it matches it still.
LEMMA GivenStays ==
    ASSUME NEW s \in Subs, Steady(s), Given(s), NEW e
    PROVE  Given(s)' /\ (Matches(e, s) => (s \in Done' => e.grade = doc'[s].grade /\ e.succeeded = (doc'[s].result = "success")))
BY DEF Steady, Matches, Done

LEMMA TaskStays ==
    ASSUME Parts, Cared, TaskInv, \A s \in Subs : Steady(s),
           task'.sub = task.sub, task'.grade = task.grade, task'.succeeded = task.succeeded,
           ReplayPending(task.sub) => ReplayPending(task.sub)'
    PROVE  TaskInv'
<1> SUFFICES ASSUME task.sub # 0 PROVE Given(task.sub)' /\ (Matches(task, task.sub)' \/ ReplayPending(task.sub)')
  BY DEF TaskInv, ReplayPending, Given, Matches
<1>1. task.sub \in Subs /\ Given(task.sub) /\ (Matches(task, task.sub) \/ ReplayPending(task.sub))
  BY GivenType DEF TaskInv
<1>2. Given(task.sub)'
  BY <1>1 DEF Steady, Given
<1>3. Matches(task, task.sub) => Matches(task, task.sub)'
  BY <1>1 DEF Steady, Matches, Done
<1> QED
  BY <1>1, <1>2, <1>3

LEMMA StoredStays ==
    ASSUME Parts, Cared, \A s \in Subs : Steady(s), NEW j \in Jobs, StoredInv(j),
           job'[j] = job[j]
    PROVE  StoredInv(j)'
<1>1. job[j].phase = "stored" => job[j].sub \in Subs
  BY GivenType
<1> QED
  BY <1>1 DEF StoredInv, Steady, Given, Done

LEMMA SettingStays ==
    ASSUME Parts, Cared, \A s \in Subs : Steady(s), NEW j \in Jobs, SettingInv(j), TaskInv,
           job'[j] = job[j], task'.sub = task.sub, replayed \subseteq replayed'
    PROVE  SettingInv(j)'
<1> SUFFICES ASSUME job[j].phase = "setting", NEW e \in job[j].set
             PROVE  /\ e.sub # 0 => Given(e.sub)' /\ Matches(e, e.sub)'
                    /\ e.sub = 0 => job[j].sub \in replayed /\ Matches(e, task.sub)'
  BY DEF SettingInv, Given, Matches
<1>1. e.sub \in Subs \cup {0} /\ task.sub \in Subs \cup {0} /\ 0 \notin Subs
  BY GivenType
<1>2. ASSUME NEW s \in Subs, Given(s), Matches(e, s) PROVE Given(s)' /\ Matches(e, s)'
  BY <1>2 DEF Steady, Given, Matches, Done
<1>3. CASE e.sub # 0
  BY <1>1, <1>2, <1>3 DEF SettingInv
<1>4. CASE e.sub = 0
  <2>1. job[j].sub \in replayed /\ Matches(e, task.sub)
    BY <1>4 DEF SettingInv
  <2>2. CASE task.sub = 0
    <3>1. task'.sub \notin Done'
      BY <1>1, <2>2 DEF Done
    <3> QED
      BY <1>4, <2>1, <3>1 DEF Matches
  <2>3. CASE task.sub # 0
    <3>1. Given(task.sub)
      BY <2>3 DEF TaskInv
    <3>2. Matches(e, task.sub)'
      BY <1>1, <2>1, <2>3, <3>1 DEF Steady, Given, Matches, Done
    <3> QED
      BY <1>4, <2>1, <3>2
  <2> QED
    BY <2>2, <2>3
<1> QED
  BY <1>3, <1>4

LEMMA SelectedStays ==
    ASSUME Parts, Cared, \A s \in Subs : Steady(s), NEW t \in Threads, SelectedInv(t),
           thread'[t].set \subseteq thread[t].set
    PROVE  SelectedInv(t)'
<1> SUFFICES ASSUME NEW e \in thread[t].set PROVE e.sub # 0 /\ Given(e.sub)' /\ Matches(e, e.sub)'
  BY DEF SelectedInv, Given, Matches
<1>1. e.sub \in Subs /\ Given(e.sub) /\ Matches(e, e.sub) /\ e.sub # 0
  BY GivenType DEF SelectedInv
<1> QED
  BY <1>1 DEF Steady, Given, Matches, Done

\* A step that gives no result and does not touch user_tasks nor the callbacks,
\* except for the jobs that are new or over.
LEMMA CacheFrame ==
    ASSUME Parts, Cared, Cache, \A s \in Subs : Steady(s), task' = task,
           replayed \subseteq replayed', replayed' = replayed \/ Uncounted = {},
           \A j \in Uncounted : job'[j] = job[j],
           \A j \in Jobs \ Uncounted : job'[j].phase \notin {"stored", "setting"} /\ NewInv(j)',
           \A t \in Threads : SelectedInv(t)'
    PROVE  Cache'
<1>1. Uncounted \subseteq Uncounted' /\ Uncounted \subseteq Jobs
  BY DEF Uncounted
<1>2. TaskInv'
  <2>1. ReplayPending(task.sub) => ReplayPending(task.sub)'
    BY <1>1 DEF ReplayPending
  <2> QED
    BY <2>1, TaskStays DEF Cache
<1>3. ASSUME NEW j \in Jobs PROVE StoredInv(j)' /\ SettingInv(j)' /\ NewInv(j)'
  <2>1. CASE j \in Uncounted
    <3>1. NewInv(j)'
      BY <2>1 DEF Cache, NewInv
    <3> QED
      BY <2>1, <3>1, StoredStays, SettingStays DEF Cache
  <2>2. CASE j \notin Uncounted
    BY <2>2 DEF StoredInv, SettingInv
  <2> QED
    BY <2>1, <2>2
<1> QED
  BY <1>2, <1>3 DEF Cache

LEMMA ServeCache ==
    ASSUME Parts, Cared, Tidy, OneAtATime, Fine, Cache, NEW t \in Threads, Serve(t), ~WriteSelected(t)
    PROVE  Cache'
<1>1. /\ \A u \in Threads \ {t} : thread'[u] = thread[u]
      /\ \/ thread'[t] = Idle
         \/ thread'[t].pc # "idle" /\ thread'[t].set = thread[t].set /\ Adder(t) /\ Adder(t)'
         \/ thread'[t].pc # "idle" /\ Selecting(t) /\ Selecting(t)'
      /\ replayed' = replayed
  BY ServeMoves
<1>2. \A s \in Subs : Steady(s)
  BY ServeSteady
<1>3. task' = task
  BY DEF Serve, Insert, List, Launch, StoreJobId, Overwrite, ReadSelected, database
<1>4. \A u \in Threads : SelectedInv(u)'
  <2>1. \A u \in Threads \ {t} : SelectedInv(u)'
    BY <1>1, <1>2, SelectedStays DEF Cache
  <2>2. CASE ReadSelected(t)
    <3>0. PICK s, e : s = thread[t].sub /\ e = Evaluation(doc[s].result, doc[s].grade, s)
      OBVIOUS
    <3>1. CASE Reply(t, Failure)
      <4>1. thread'[t].set = {}
        BY <3>1 DEF Reply, Parts, Idle
      <4> QED
        BY <2>1, <4>1 DEF SelectedInv
    <3>2. CASE ~Reply(t, Failure)
      <4>1. Exists(s) /\ doc[s].result # "none" /\ thread' = [thread EXCEPT ![t].set = {e}] /\ doc' = doc
        BY <2>2, <3>0, <3>2 DEF ReadSelected, database
      <4>2. thread'[t].set = {e} /\ s \in Subs
        BY <2>2, <3>0, <4>1 DEF Parts, ThreadType, ThreadSub, ReadSelected
      <4>3. doc[s].status # "waiting" /\ doc[s].status # "none"
        BY <4>1, <4>2 DEF Cared, Shape, LifeOf, Life!Without, Exists
      <4>4. e.sub = s /\ e.grade = doc[s].grade /\ e.succeeded = (doc[s].result = "success")
        BY <3>0 DEF Evaluation
      <4>5. s # 0 /\ Given(s)' /\ Matches(e, s)'
        BY <4>1, <4>2, <4>3, <4>4 DEF Given, Matches, Done, Subs
      <4>6. SelectedInv(t)'
        BY <4>2, <4>4, <4>5 DEF SelectedInv, Given, Matches
      <4> QED
        BY <2>1, <4>6
    <3> QED
      BY <3>1, <3>2
  <2>3. CASE ~ReadSelected(t)
    <3>1. thread'[t].set = {} \/ thread'[t].set = thread[t].set
      <4>1. ~Selecting(t)
        BY <2>3 DEF Serve, Insert, List, Launch, StoreJobId, Overwrite, Selecting
      <4> QED
        BY <1>1, <4>1 DEF Idle
    <3> QED
      BY <1>2, <2>1, <3>1, SelectedStays DEF Cache, SelectedInv
  <2> QED
    BY <2>2, <2>3
<1>5. CASE Launch(t)
  <2>1. thread[t].sub \in Subs /\ thread[t].pc \in {"inserted", "listed"}
    BY <1>5 DEF Launch, Parts, ThreadType, ThreadSub
  <2>2. PICK j \in Jobs : NewJob(j, thread[t].sub, TRUE)
    BY <1>5 DEF Launch
  <2>3. /\ j \notin Uncounted /\ Uncounted' = Uncounted \cup {j}
        /\ job'[j].phase = "sent" /\ job'[j].sub = thread[t].sub
        /\ \A k \in Jobs : k # j => job'[k] = job[k]
    BY <2>1, <2>2, NewIsUncounted
  <2>4. thread[t].sub \notin replayed
    BY <2>1 DEF OneAtATime, Fine
  <2>5. \A k \in Jobs \ Uncounted : job'[k].phase \notin {"stored", "setting"} /\ NewInv(k)'
    BY <1>1, <2>3, <2>4 DEF Uncounted, NewInv
  <2> QED
    BY <1>1, <1>2, <1>3, <1>4, <2>3, <2>5, CacheFrame DEF Uncounted
<1>6. CASE ~Launch(t)
  <2>1. Uncounted' = Uncounted /\ \A k \in Uncounted : job'[k] = job[k]
    BY <1>6, ServeJobs
  <2>2. \A k \in Jobs \ Uncounted : job'[k].phase \notin {"sent", "stored", "setting"}
    BY <2>1 DEF Uncounted
  <2> QED
    BY <1>1, <1>2, <1>3, <1>4, <2>1, <2>2, CacheFrame DEF NewInv
<1> QED
  BY <1>5, <1>6

\* A selection replaces the evaluation: no replay goes on.
LEMMA WriteSelectedCache ==
    ASSUME Parts, Cared, Tidy, OneAtATime, Fine, Cache, NEW t \in Threads, WriteSelected(t)
    PROVE  Cache'
<1>1. PICK e \in thread[t].set : /\ task' = Evaluated(e)
                                 /\ \E a : Reply(t, a)
  BY DEF WriteSelected
<1>2. doc' = doc /\ job' = job /\ replayed' = replayed /\ thread' = [thread EXCEPT ![t] = Idle] /\ Selecting(t)
  BY <1>1 DEF WriteSelected, Reply, history, Selecting
<1>3. e.sub \in Subs /\ e.sub # 0 /\ Given(e.sub) /\ Matches(e, e.sub)
  BY <1>1, GivenType DEF Cache, SelectedInv
<1>4. task'.sub = e.sub /\ task'.grade = e.grade /\ task'.succeeded = e.succeeded
  BY <1>1, <1>3 DEF Evaluated, Parts, TaskType
<1>5. \A s \in Subs : Steady(s)
  BY <1>2, SteadyFrame
<1>6. TaskInv'
  BY <1>2, <1>3, <1>4 DEF TaskInv, Given, Matches, Done
<1>7. \A j \in Uncounted : job[j].sub \notin replayed
  BY <1>2 DEF Fine, OneAtATime, Replaying
<1>8. ASSUME NEW j \in Jobs PROVE StoredInv(j)' /\ SettingInv(j)' /\ NewInv(j)'
  <2>1. StoredInv(j)'
    BY <1>2, <1>5, StoredStays DEF Cache
  <2>2. job[j].phase \in {"sent", "stored", "setting"} => job[j].sub \notin replayed
    BY <1>7 DEF Uncounted
  <2>3. SettingInv(j) /\ NewInv(j)
    BY DEF Cache
  <2> QED
    BY <1>2, <2>1, <2>2, <2>3 DEF SettingInv, NewInv, Given, Matches, Done
<1>9. \A u \in Threads : SelectedInv(u)'
  <2>1. Idle.set = {}
    BY DEF Idle
  <2> QED
    BY <1>2, <1>5, <2>1, SelectedStays DEF Cache, Parts
<1> QED
  BY <1>6, <1>8, <1>9 DEF Cache

LEMMA StartCache ==
    ASSUME Parts, Cared, Tidy, OneAtATime, Fine, Fine', Cache, NEW t \in Threads, Start(t)
    PROVE  Cache'
<1>1. \A s \in Subs : Steady(s)
  BY StartSteady
<1>2. task' = task
  BY DEF Start, Post, Replay, ReplayCopy, Check, Select, database
<1>3. thread[t].pc = "idle" /\ thread[t].set = {}
  <2>1. thread[t].pc = "idle"
    BY DEF Start, Post, Replay, ReplayCopy, Check, Select
  <2> QED
    BY <2>1 DEF Tidy, Selecting
<1>4. ASSUME \A u \in Threads : thread'[u].set \subseteq thread[u].set
      PROVE  \A u \in Threads : SelectedInv(u)'
  BY <1>1, <1>4, SelectedStays DEF Cache
<1>5. CASE Replay(t) \/ ReplayCopy(t)
  <2>1. PICK s \in Subs, j \in Jobs, n \in BOOLEAN :
          /\ NewJob(j, s, n)
          /\ thread' = [thread EXCEPT ![t] = [Idle EXCEPT !.pc = "replaying", !.sub = s, !.job = j]]
          /\ replayed' = replayed \cup {s}
          /\ n => doc[s].status = "none"
    BY <1>5 DEF Replay, ReplayCopy, Kept, NextSub
  <2>2. /\ Uncounted' = Uncounted \cup {j} /\ j \notin Uncounted
        /\ job'[j].phase = "sent" /\ job'[j].sub = s /\ job'[j].newsub = n
        /\ \A k \in Jobs : k # j => job'[k] = job[k]
    BY <2>1, NewIsUncounted
  <2>3. \A u \in Threads : thread'[u].set \subseteq thread[u].set
    BY <2>1, ReplayingThread
  <2>4. Uncounted = {}
    BY <1>5, <2>1, Undisturbed DEF Fine, Replay, ReplayCopy
  <2>5. NewInv(j)'
    <3>1. n => task.sub # s
      BY <2>1 DEF Cache, TaskInv, Given, Subs
    <3> QED
      BY <1>2, <2>2, <3>1 DEF NewInv
  <2>6. \A k \in Jobs \ Uncounted : job'[k].phase \notin {"stored", "setting"} /\ NewInv(k)'
    BY <2>2, <2>5 DEF Uncounted, NewInv
  <2> QED
    BY <1>1, <1>2, <1>4, <2>1, <2>2, <2>3, <2>4, <2>6, CacheFrame
<1>6. CASE ~(Replay(t) \/ ReplayCopy(t))
  <2>1. job' = job /\ replayed' = replayed
    BY <1>6 DEF Start, Post, Check, Select
  <2>2. \/ \E a : Reply(t, a)
        \/ \E pc \in {"checked", "missing", "select"} : \E s : thread' = [thread EXCEPT ![t].pc = pc, ![t].sub = s]
        \/ thread' = [thread EXCEPT ![t].pc = "checked"]
    BY <1>6 DEF Start, Post, Check, Select, Goto
  <2>3. \A u \in Threads : thread'[u].set \subseteq thread[u].set
    <3>1. thread \in [Threads -> ThreadType] /\ Idle.set = {}
      BY DEF Parts, Idle
    <3> QED
      BY <1>3, <2>2, <3>1 DEF Reply, ThreadType
  <2>4. \A j \in Jobs \ Uncounted : job[j].phase \notin {"sent", "stored", "setting"}
    BY DEF Uncounted
  <2> QED
    BY <1>1, <1>2, <1>4, <2>1, <2>3, <2>4, CacheFrame DEF NewInv, Uncounted
<1> QED
  BY <1>5, <1>6

\* A callback that ends without a change of user_tasks: nothing is expected of it.
LEMMA EndedCache ==
    ASSUME Parts, Cared, Cache, NEW j \in Jobs,
           job[j].sub \in Done /\ job[j].sub \in replayed => task.sub # job[j].sub,
           Uncounted' = Uncounted \ {j}, \A k \in Uncounted' : job'[k] = job[k],
           doc' = doc, thread' = thread, replayed' = replayed,
           task'.sub = task.sub, task'.grade = task.grade, task'.succeeded = task.succeeded
    PROVE  Cache'
<1>1. \A s \in Subs : Steady(s)
  BY SteadyFrame
<1>2. TaskInv'
  <2>1. CASE ReplayPending(task.sub) /\ job[j].sub = task.sub
    <3>1. task'.sub \notin Done'
      BY <2>1 DEF Done, ReplayPending
    <3>2. task.sub # 0 => Given(task.sub)
      BY DEF Cache, TaskInv
    <3> QED
      BY <3>1, <3>2 DEF TaskInv, Given, Matches
  <2>2. CASE ~(ReplayPending(task.sub) /\ job[j].sub = task.sub)
    <3>1. ReplayPending(task.sub) => ReplayPending(task.sub)'
      BY <2>2 DEF ReplayPending
    <3> QED
      BY <1>1, <3>1, TaskStays DEF Cache
  <2> QED
    BY <2>1, <2>2
<1>3. ASSUME NEW k \in Jobs PROVE StoredInv(k)' /\ SettingInv(k)' /\ NewInv(k)'
  <2>1. CASE k \in Uncounted'
    <3>1. job'[k] = job[k]
      BY <2>1
    <3>2. NewInv(k)'
      BY <3>1 DEF Cache, NewInv
    <3> QED
      BY <1>1, <3>1, <3>2, StoredStays, SettingStays DEF Cache
  <2>2. CASE k \notin Uncounted'
    BY <2>2 DEF StoredInv, SettingInv, NewInv, Uncounted
  <2> QED
    BY <2>1, <2>2
<1>4. \A t \in Threads : SelectedInv(t)'
  BY <1>1, SelectedStays DEF Cache
<1> QED
  BY <1>2, <1>3, <1>4 DEF Cache

\* The callback of j has something to set.
LEMMA SettingCache ==
    ASSUME Parts, Cared, Cache, NEW j \in Uncounted, NEW set,
           job'[j].phase = "setting", job'[j].set = set, job'[j].sub = job[j].sub,
           Uncounted' = Uncounted, \A k \in Jobs \ {j} : job'[k] = job[k],
           doc' = doc, thread' = thread, replayed' = replayed,
           task'.sub = task.sub, task'.grade = task.grade, task'.succeeded = task.succeeded,
           \A e \in set : /\ e.sub # 0 => Given(e.sub) /\ Matches(e, e.sub)
                          /\ e.sub = 0 => job[j].sub \in replayed /\ Matches(e, task.sub)
    PROVE  Cache'
<1>1. \A s \in Subs : Steady(s)
  BY SteadyFrame
<1>2. Uncounted \subseteq Jobs
  BY DEF Uncounted
<1>3. TaskInv'
  <2>1. \A k \in Uncounted : job'[k].sub = job[k].sub
    BY <1>2
  <2>2. ReplayPending(task.sub) => ReplayPending(task.sub)'
    BY <2>1 DEF ReplayPending
  <2> QED
    BY <1>1, <2>2, TaskStays DEF Cache
<1>4. ASSUME NEW k \in Jobs PROVE StoredInv(k)' /\ SettingInv(k)' /\ NewInv(k)'
  <2>1. CASE k = j
    BY <2>1 DEF StoredInv, SettingInv, NewInv, Given, Matches, Done
  <2>2. CASE k # j
    <3>1. job'[k] = job[k]
      BY <2>2
    <3>2. NewInv(k)'
      BY <3>1 DEF Cache, NewInv
    <3> QED
      BY <1>1, <3>1, <3>2, StoredStays, SettingStays DEF Cache
  <2> QED
    BY <2>1, <2>2
<1>5. \A t \in Threads : SelectedInv(t)'
  BY <1>1, SelectedStays DEF Cache
<1> QED
  BY <1>3, <1>4, <1>5 DEF Cache

LEMMA StoreResultCache ==
    ASSUME Parts, Cared, Tidy, OneAtATime, Fine, Cache, NEW j \in Jobs, StoreResult(j)
    PROVE  Cache'
<1>0. PICK s : s = job[j].sub
  OBVIOUS
<1>1. /\ s \in Subs /\ job[j].phase = "sent" /\ j \in Uncounted
      /\ UNCHANGED task /\ thread' = thread /\ replayed' = replayed
  BY <1>0, GivenType DEF StoreResult, history, Uncounted
<1>2. CASE ~Exists(s)
  <2>1. doc' = doc /\ job' = [job EXCEPT ![j] = Over(j, "raised")]
    BY <1>0, <1>2 DEF StoreResult
  <2>2. s \notin Done
    BY <1>2 DEF Exists, Done
  <2>3. Uncounted' = Uncounted \ {j} /\ \A k \in Uncounted' : job'[k] = job[k]
    BY <2>1, OverIsCounted
  <2> QED
    BY <1>0, <1>1, <2>1, <2>2, <2>3, EndedCache
<1>3. CASE Exists(s)
  <2>1. PICK o : /\ doc' = [doc EXCEPT ![s] = Finished(o)]
                 /\ job' = [job EXCEPT ![j].phase = "stored", ![j].set = {o}]
    BY <1>0, <1>3 DEF StoreResult
  <2>2. /\ doc'[s] = Finished(o) /\ \A u \in Subs : u # s => doc'[u] = doc[u]
        /\ job'[j] = [job[j] EXCEPT !.phase = "stored", !.set = {o}]
        /\ \A k \in Jobs : k # j => job'[k] = job[k]
    BY <1>1, <2>1 DEF Parts
  <2>3. /\ doc'[s].status \in {"done", "error"} /\ doc'[s].grade = o.grade /\ doc'[s].result = o.result
    BY <2>2 DEF Finished
  <2>4. job'[j].phase = "stored" /\ job'[j].set = {o} /\ job'[j].sub = s /\ job'[j].newsub = job[j].newsub
    BY <1>0, <2>2 DEF Parts, JobType
  <2>5. Given(s) => s \in replayed
    <3>1. s \notin replayed => doc[s].status = "waiting"
      BY <1>0, <1>1 DEF Cared, Care, Running
    <3> QED
      BY <3>1 DEF Given
  <2>6. s \in replayed => \A k \in Uncounted : k = j
    BY <1>1 DEF Fine, OneAtATime
  <2>7. s \in replayed => \A t \in Threads : thread[t].set = {}
    <3>1. s \in replayed => Replaying
      BY <1>0, <1>1 DEF Replaying
    <3> QED
      BY <3>1 DEF Fine, OneAtATime, Tidy
  <2>8. \A u \in Subs : u # s => Steady(u)
    BY <1>1, <2>2, SteadyFrame
  <2>9. TaskInv'
    <3> SUFFICES ASSUME task.sub # 0 PROVE Given(task.sub)' /\ (Matches(task, task.sub)' \/ ReplayPending(task.sub)')
      BY <1>1 DEF TaskInv, Given, Matches, ReplayPending
    <3>1. task.sub \in Subs /\ Given(task.sub) /\ (Matches(task, task.sub) \/ ReplayPending(task.sub))
      BY GivenType DEF Cache, TaskInv
    <3>2. CASE task.sub = s
      <4>1. s \in replayed
        BY <2>5, <3>1, <3>2
      <4>2. j \in Uncounted'
        BY <2>4 DEF Uncounted
      <4>3. Given(s)'
        BY <1>1, <2>3, <4>1 DEF Given
      <4> QED
        BY <1>1, <2>4, <3>2, <4>1, <4>2, <4>3 DEF ReplayPending, Given
    <3>3. CASE task.sub # s
      <4>1. doc'[task.sub] = doc[task.sub] /\ task' = task
        BY <1>1, <2>2, <3>1, <3>3
      <4>2. ReplayPending(task.sub) => ReplayPending(task.sub)'
        <5>1. ASSUME NEW k \in Uncounted, job[k].sub = task.sub, task.sub \in replayed
              PROVE  k \in Uncounted' /\ job'[k] = job[k]
          <6>1. k # j
            BY <1>0, <3>3, <5>1
          <6> QED
            BY <2>2, <6>1 DEF Uncounted
        <5> QED
          BY <1>1, <5>1 DEF ReplayPending
      <4> QED
        BY <1>1, <3>1, <4>1, <4>2 DEF Given, Matches, Done
    <3> QED
      BY <3>2, <3>3
  <2>10. ASSUME NEW k \in Jobs, k # j PROVE StoredInv(k)' /\ SettingInv(k)' /\ NewInv(k)'
    <3>1. job'[k] = job[k] /\ StoredInv(k) /\ SettingInv(k) /\ NewInv(k)
      BY <2>2, <2>10 DEF Cache
    <3>2. NewInv(k)'
      BY <1>1, <3>1 DEF NewInv
    <3>3. CASE s \in replayed
      <4>1. k \notin Uncounted
        BY <2>6, <2>10, <3>3
      <4> QED
        BY <3>1, <3>2, <4>1 DEF StoredInv, SettingInv, Uncounted
    <3>4. CASE s \notin replayed
      <4>0. ~Given(s)
        BY <2>5, <3>4
      <4>1. StoredInv(k)'
        <5> SUFFICES ASSUME job[k].phase = "stored"
                     PROVE  /\ Given(job[k].sub)'
                            /\ \A x \in job[k].set : job[k].sub \in Done' =>
                                 x.grade = doc'[job[k].sub].grade /\ x.result = doc'[job[k].sub].result
          BY <3>1 DEF StoredInv, Given
        <5>1. job[k].sub \in Subs /\ Given(job[k].sub) /\ job[k].sub # s
          BY <3>1, <4>0, GivenType DEF StoredInv
        <5>2. doc'[job[k].sub] = doc[job[k].sub]
          BY <2>2, <5>1
        <5> QED
          BY <1>1, <3>1, <5>1, <5>2 DEF StoredInv, Given, Done
      <4>2. SettingInv(k)'
        <5> SUFFICES ASSUME job[k].phase = "setting", NEW e \in job[k].set
                     PROVE  /\ e.sub # 0 => Given(e.sub)' /\ Matches(e, e.sub)'
                            /\ e.sub = 0 => job[k].sub \in replayed /\ Matches(e, task.sub)'
          BY <1>1, <3>1 DEF SettingInv, Given, Matches
        <5>1. e.sub \in Subs \cup {0} /\ task.sub \in Subs \cup {0} /\ 0 \notin Subs
          BY GivenType
        <5>2. ASSUME NEW u \in Subs, Given(u), Matches(e, u) PROVE Given(u)' /\ Matches(e, u)'
          <6>1. doc'[u] = doc[u]
            BY <2>2, <4>0, <5>2
          <6> QED
            BY <1>1, <5>2, <6>1 DEF Given, Matches, Done
        <5>3. CASE e.sub # 0
          BY <3>1, <5>1, <5>2, <5>3 DEF SettingInv
        <5>4. CASE e.sub = 0
          <6>1. job[k].sub \in replayed /\ Matches(e, task.sub)
            BY <3>1, <5>4 DEF SettingInv
          <6>2. task.sub # 0 => Given(task.sub)
            BY DEF Cache, TaskInv
          <6>3. Matches(e, task.sub)'
            <7>1. CASE task.sub = 0
              <8>1. task'.sub \notin Done'
                BY <1>1, <5>1, <7>1 DEF Done
              <8> QED
                BY <8>1 DEF Matches
            <7>2. CASE task.sub # 0
              <8>1. Given(task.sub)' /\ doc'[task.sub] = doc[task.sub]
                BY <1>1, <2>2, <4>0, <5>1, <6>2, <7>2 DEF Given
              <8> QED
                BY <1>1, <6>1, <8>1 DEF Matches, Done
            <7> QED
              BY <7>1, <7>2
          <6> QED
            BY <5>4, <6>1, <6>3
        <5> QED
          BY <5>3, <5>4
      <4> QED
        BY <3>2, <4>1, <4>2
    <3> QED
      BY <3>3, <3>4
  <2>11. StoredInv(j)' /\ SettingInv(j)' /\ NewInv(j)'
    <3>1. Given(s)'
      BY <1>1, <2>3 DEF Given
    <3>2. StoredInv(j)'
      BY <2>3, <2>4, <3>1 DEF StoredInv, Given
    <3>3. NewInv(j)'
      <4>1. NewInv(j)
        BY DEF Cache
      <4> QED
        BY <1>0, <1>1, <2>4, <4>1 DEF NewInv
    <3> QED
      BY <2>4, <3>2, <3>3 DEF SettingInv
  <2>12. ASSUME NEW t \in Threads PROVE SelectedInv(t)'
    <3> SUFFICES ASSUME NEW e \in thread[t].set PROVE e.sub # 0 /\ Given(e.sub)' /\ Matches(e, e.sub)'
      BY <1>1 DEF SelectedInv, Given, Matches
    <3>1. e.sub \in Subs /\ Given(e.sub) /\ Matches(e, e.sub) /\ e.sub # 0
      BY GivenType DEF Cache, SelectedInv
    <3>2. doc'[e.sub] = doc[e.sub]
      BY <2>2, <2>5, <2>7, <3>1
    <3> QED
      BY <1>1, <3>1, <3>2 DEF Given, Matches, Done
  <2> QED
    BY <2>9, <2>10, <2>11, <2>12 DEF Cache
<1> QED
  BY <1>2, <1>3

LEMMA CountNewCache ==
    ASSUME Parts, Cared, Cache, NEW j \in Jobs, CountNew(j)
    PROVE  Cache'
<1>0. PICK s : s = job[j].sub
  OBVIOUS
<1> DEFINE set == {Evaluation(o.result, o.grade, s) :
                     o \in {r \in job[j].set : evaluate = "last" \/ (evaluate = "best" /\ task.grade <= r.grade)}}
<1>1. /\ job[j].phase = "stored" /\ job[j].newsub /\ j \in Uncounted /\ s \in Subs /\ s # 0
      /\ Ready(j, set) /\ doc' = doc /\ thread' = thread /\ replayed' = replayed
  BY <1>0, GivenType DEF CountNew, Uncounted, history
<1>2. task'.sub = task.sub /\ task'.grade = task.grade /\ task'.succeeded = task.succeeded
  BY DEF CountNew, Parts, TaskType
<1>3. s \in replayed => task.sub # s
  BY <1>0, <1>1 DEF Cache, NewInv
<1>4. \A e \in set : e.sub = s /\ Given(s) /\ Matches(e, s)
  <2>1. \A o \in job[j].set : s \in Done => o.grade = doc[s].grade /\ o.result = doc[s].result
    BY <1>0, <1>1 DEF Cache, StoredInv
  <2>2. Given(s)
    BY <1>0, <1>1 DEF Cache, StoredInv
  <2> QED
    BY <2>1, <2>2 DEF Evaluation, Matches
<1> HIDE DEF set
<1>5. CASE set = {}
  <2>1. Uncounted' = Uncounted \ {j} /\ \A k \in Uncounted' : job'[k] = job[k]
    BY <1>1, <1>5, ReadyIsCounted DEF Uncounted
  <2> QED
    BY <1>0, <1>1, <1>2, <1>3, <2>1, EndedCache
<1>6. CASE set # {}
  <2>1. /\ Uncounted' = Uncounted
        /\ job'[j].phase = "setting" /\ job'[j].set = set /\ job'[j].sub = job[j].sub
        /\ \A k \in Jobs \ {j} : job'[k] = job[k]
    BY <1>1, <1>6, ReadyIsCounted
  <2>2. \A e \in set : /\ e.sub # 0 => Given(e.sub) /\ Matches(e, e.sub)
                       /\ e.sub = 0 => job[j].sub \in replayed /\ Matches(e, task.sub)
    BY <1>1, <1>4
  <2> QED
    BY <1>1, <1>2, <2>1, <2>2, SettingCache
<1> QED
  BY <1>5, <1>6

LEMMA CountReplayCache ==
    ASSUME Parts, Cared, Tidy, Cache, NEW j \in Jobs, CountReplay(j)
    PROVE  Cache'
<1>0. PICK s : s = job[j].sub
  OBVIOUS
<1> DEFINE best == {d \in Done : /\ \A u \in Done : doc[u].grade <= doc[d].grade
                                 /\ \A u \in Done : doc[u].grade = doc[d].grade => u <= d}
           followed == IF evaluate = "best" THEN best ELSE {s} \cap {task.sub}
           unset == {d \in followed : doc[d].result = "none"}
           set == {Evaluation(doc[d].result, doc[d].grade, IF evaluate = "best" THEN d ELSE 0) : d \in followed}
<1>1. /\ job[j].phase = "stored" /\ ~job[j].newsub /\ j \in Uncounted /\ s \in Subs /\ s \in replayed
      /\ task' = task /\ doc' = doc /\ thread' = thread /\ replayed' = replayed
  BY <1>0, GivenType DEF CountReplay, Uncounted, history, database, Tidy
<1>2. \A d \in Done : doc[d].result # "none"
  <2>1. \A o \in Outcomes \cup {Crash} : o.result # "none"
    BY OutcomesType DEF Outcome, Results
  <2>2. ASSUME NEW d \in Done PROVE doc[d].result # "none"
    <3>1. d \in Subs /\ doc[d].status = "done" /\ Shape(d)
      BY DEF Done, Cared
    <3>2. LifeOf(doc[d]).status = "done" /\ LifeOf(doc[d]).result = doc[d].result
      BY <3>1 DEF LifeOf
    <3>3. LifeOf(doc[d]) # Life!GivenUp
      BY <3>2 DEF Life!GivenUp, Life!Without
    <3>4. PICK o \in Outcomes \cup {Crash} : LifeOf(doc[d]) = LifeOf(Finished(o))
      BY <3>1, <3>3 DEF Shape
    <3>5. LifeOf(Finished(o)).result = o.result
      BY DEF LifeOf, Finished
    <3> QED
      BY <2>1, <3>2, <3>4, <3>5
  <2> QED
    BY <2>2
<1>3. evaluate = "best" /\ s \in Done => best # {}
  <2> SUFFICES ASSUME s \in Done PROVE best # {}
    OBVIOUS
  <2>1. PICK g : g = [u \in Subs |-> doc[u].grade]
    OBVIOUS
  <2>2. Done \in SUBSET (1 .. MaxJobs) /\ MaxJobs \in Nat /\ \A u \in Done : g[u] \in Nat /\ g[u] = doc[u].grade
    BY <2>1, SubmissionsAssumption DEF Done, Subs, Parts, DocType
  <2>3. PICK d \in Done : \A u \in Done : g[u] < g[d] \/ (g[u] = g[d] /\ u <= d)
    BY <2>2, LatestBestExists
  <2>4. \A u \in Done : doc[u].grade <= doc[d].grade /\ (doc[u].grade = doc[d].grade => u <= d)
    BY <2>2, <2>3
  <2> QED
    BY <2>4
<1>4. s \in Done /\ s = task.sub => followed # {}
  BY <1>3
<1>5. followed \subseteq Done \/ followed \subseteq {s} \cap {task.sub}
  OBVIOUS
<1>6. IF unset = {} THEN Ready(j, set) ELSE job' = [job EXCEPT ![j] = Over(j, "raised")]
  BY <1>0 DEF CountReplay
<1>7. unset # {} => s \notin Done \/ s # task.sub
  BY <1>2, <1>5
<1>8. \A e \in set : /\ e.sub # 0 => Given(e.sub) /\ Matches(e, e.sub)
                     /\ e.sub = 0 => job[j].sub \in replayed /\ Matches(e, task.sub)
  <2>1. CASE evaluate = "best"
    <3>1. ASSUME NEW d \in best
          PROVE  LET e == Evaluation(doc[d].result, doc[d].grade, d)
                 IN  e.sub # 0 /\ Given(e.sub) /\ Matches(e, e.sub)
      BY DEF Evaluation, Given, Matches, Done, Subs
    <3> QED
      BY <2>1, <3>1
  <2>2. CASE evaluate # "best"
    <3>1. \A d \in followed : d = task.sub
      BY <2>2
    <3> QED
      BY <1>0, <1>1, <2>2, <3>1 DEF Evaluation, Matches
  <2> QED
    BY <2>1, <2>2
<1>9. set = {} <=> followed = {}
  OBVIOUS
<1> HIDE DEF set, unset, followed, best
<1>10. ASSUME Uncounted' = Uncounted \ {j}, \A k \in Uncounted' : job'[k] = job[k],
              s \notin Done \/ s # task.sub
       PROVE  Cache'
  BY <1>0, <1>1, <1>10, EndedCache
<1>11. CASE unset # {}
  BY <1>6, <1>7, <1>10, <1>11, OverIsCounted
<1>12. CASE unset = {} /\ set = {}
  <2>1. Uncounted' = Uncounted \ {j} /\ \A k \in Jobs \ {j} : job'[k] = job[k]
    BY <1>1, <1>6, <1>12, ReadyIsCounted
  <2> QED
    BY <1>4, <1>9, <1>10, <1>12, <2>1 DEF Uncounted
<1>13. CASE unset = {} /\ set # {}
  <2>1. /\ Uncounted' = Uncounted
        /\ job'[j].phase = "setting" /\ job'[j].set = set /\ job'[j].sub = job[j].sub
        /\ \A k \in Jobs \ {j} : job'[k] = job[k]
    BY <1>1, <1>6, <1>13, ReadyIsCounted
  <2> QED
    BY <1>1, <1>8, <2>1, SettingCache
<1> QED
  BY <1>11, <1>12, <1>13

\* The evaluation is set by the callback.
LEMMA SetEvaluationCache ==
    ASSUME Parts, Cared, Tidy, OneAtATime, Fine, Cache, NEW j \in Jobs, SetEvaluation(j)
    PROVE  Cache'
<1>1. PICK e \in job[j].set : task' = Evaluated(e)
  BY DEF SetEvaluation
<1>2. /\ job[j].phase = "setting" /\ j \in Uncounted
      /\ doc' = doc /\ thread' = thread /\ replayed' = replayed
      /\ job' = [job EXCEPT ![j] = Over(j, "called")]
  BY DEF SetEvaluation, history, Uncounted
<1>3. Uncounted' = Uncounted \ {j} /\ \A k \in Uncounted' : job'[k] = job[k]
  BY <1>2, OverIsCounted
<1>4. /\ e \in Evaluations /\ e.sub \in Subs \cup {0}
      /\ e.sub # 0 => Given(e.sub) /\ Matches(e, e.sub)
      /\ e.sub = 0 => job[j].sub \in replayed /\ Matches(e, task.sub)
  BY <1>1, <1>2, GivenType DEF Cache, SettingInv
<1>5. /\ task'.sub = (IF e.sub = 0 THEN task.sub ELSE e.sub)
      /\ task'.grade = e.grade /\ task'.succeeded = e.succeeded
  BY <1>1, <1>4 DEF Evaluated, Parts, TaskType
<1>6. TaskInv'
  <2>1. task.sub # 0 => Given(task.sub)
    BY DEF Cache, TaskInv
  <2> QED
    BY <1>2, <1>4, <1>5, <2>1 DEF TaskInv, Given, Matches, Done
<1>7. \A s \in Subs : Steady(s)
  BY <1>2, SteadyFrame
<1>8. \A k \in Uncounted' : job[k].sub \notin replayed
  <2>1. ASSUME NEW k \in Uncounted', job[k].sub \in replayed PROVE FALSE
    <3>1. ~overlap
      BY <2>1 DEF Fine
    <3> QED
      BY <1>2, <1>3, <3>1 DEF OneAtATime
  <2> QED
    BY <2>1
<1>9. ASSUME NEW k \in Jobs PROVE StoredInv(k)' /\ SettingInv(k)' /\ NewInv(k)'
  <2>1. CASE k \in Uncounted'
    <3>1. job'[k] = job[k] /\ job[k].sub \notin replayed /\ StoredInv(k) /\ SettingInv(k)
      BY <1>3, <1>8, <2>1 DEF Cache
    <3>2. SettingInv(k)'
      BY <1>2, <3>1 DEF SettingInv, Given, Matches, Done
    <3>3. StoredInv(k)'
      BY <1>7, <3>1, StoredStays
    <3> QED
      BY <1>2, <3>1, <3>2, <3>3 DEF NewInv
  <2>2. CASE k \notin Uncounted'
    BY <2>2 DEF StoredInv, SettingInv, NewInv, Uncounted
  <2> QED
    BY <2>1, <2>2
<1>10. \A t \in Threads : SelectedInv(t)'
  BY <1>2, <1>7, SelectedStays DEF Cache
<1> QED
  BY <1>6, <1>9, <1>10 DEF Cache

LEMMA CallbackCache ==
    ASSUME Parts, Cared, Tidy, OneAtATime, Fine, Cache, NEW j \in Jobs, Callback(j)
    PROVE  Cache'
<1>1. CASE CountDeleted(j)
  <2>1. /\ job' = [job EXCEPT ![j] = Over(j, "raised")] /\ task' = task
        /\ doc' = doc /\ thread' = thread /\ replayed' = replayed /\ ~Exists(job[j].sub)
    BY <1>1 DEF CountDeleted, database, history
  <2>2. job[j].sub \notin Done
    BY <2>1 DEF Exists, Done
  <2>3. Uncounted' = Uncounted \ {j} /\ \A k \in Uncounted' : job'[k] = job[k]
    BY <2>1, OverIsCounted
  <2> QED
    BY <2>1, <2>2, <2>3, EndedCache
<1> QED
  BY <1>1, StoreResultCache, CountNewCache, CountReplayCache, SetEvaluationCache DEF Callback

LEMMA CacheStep == CacheInv /\ [Next]_vars => CacheInv'
<1> SUFFICES ASSUME CacheInv, [Next]_vars PROVE CacheInv'
  OBVIOUS
<1>1. Parts /\ Cared /\ Tidy /\ OneAtATime /\ LifeInv
  BY PartsOfType DEF CacheInv, LifeInv
<1>2. LifeInv' /\ Tidy' /\ OneAtATime'
  BY <1>1, LifeInvStep, TidyStep
<1>3. ASSUME Fine' PROVE Cache'
  <2>1. (Fine /\ Cache) \/ Restart
    <3>1. ~Restart => restarts' = restarts /\ (overlap => overlap') /\ replayed \subseteq replayed'
      <4>1. CASE UNCHANGED vars
        BY <4>1 DEF vars, history
      <4>2. ASSUME NEW t \in Threads, Start(t) \/ Serve(t)
            PROVE  restarts' = restarts /\ (overlap => overlap') /\ replayed \subseteq replayed'
        <5>1. CASE Start(t)
          BY <5>1 DEF Start, Post, Replay, ReplayCopy, Check, Select
        <5>2. CASE Serve(t)
          <6>1. restarts' = restarts
            BY <5>2 DEF Serve, Insert, List, Launch, StoreJobId, Overwrite, ReadSelected, WriteSelected
          <6> QED
            BY <1>1, <5>2, <6>1, ServeMoves
        <5> QED
          BY <4>2, <5>1, <5>2
      <4>3. ASSUME NEW j \in Jobs, Callback(j)
            PROVE  restarts' = restarts /\ (overlap => overlap') /\ replayed \subseteq replayed'
        BY <4>3 DEF Callback, StoreResult, CountNew, CountReplay, CountDeleted, SetEvaluation, history
      <4> QED
        BY <4>1, <4>2, <4>3 DEF Next
    <3> QED
      BY <1>3, <3>1 DEF Fine, CacheInv
  <2>2. CASE UNCHANGED vars
    <3>1. Uncounted' = Uncounted
      BY <2>2 DEF vars, Uncounted
    <3>2. Fine /\ Cache
      BY <1>3, <2>2 DEF vars, history, Fine, CacheInv
    <3> QED
      BY <2>2, <3>1, <3>2 DEF vars, database, history, Cache, TaskInv, StoredInv, SettingInv, NewInv, SelectedInv,
                              Given, Matches, Done, ReplayPending
  <2>3. CASE Restart
    BY <1>3, <2>3 DEF Restart, Fine, CacheInv
  <2>4. ASSUME NEW t \in Threads, Start(t) \/ Serve(t), Fine, Cache PROVE Cache'
    BY <1>1, <1>3, <2>4, StartCache, ServeCache, WriteSelectedCache
  <2>5. ASSUME NEW j \in Jobs, Callback(j), Fine, Cache PROVE Cache'
    BY <1>1, <2>5, CallbackCache
  <2> QED
    BY <2>1, <2>2, <2>3, <2>4, <2>5 DEF Next
<1>4. restarts' \in Nat
  <2>1. restarts' = restarts \/ restarts' = restarts + 1
    <3>1. ASSUME NEW t \in Threads, Start(t) \/ Serve(t) PROVE restarts' = restarts
      BY <3>1 DEF Start, Post, Replay, ReplayCopy, Check, Select, Serve, Insert, List, Launch, StoreJobId,
                  Overwrite, ReadSelected, WriteSelected
    <3>2. ASSUME NEW j \in Jobs, Callback(j) PROVE restarts' = restarts
      BY <3>2 DEF Callback, StoreResult, CountNew, CountReplay, CountDeleted, SetEvaluation
    <3> QED
      BY <3>1, <3>2 DEF Next, Restart, vars
  <2> QED
    BY <2>1 DEF CacheInv
<1> QED
  BY <1>2, <1>3, <1>4 DEF CacheInv

LEMMA InitCache == Init => CacheInv
<1> SUFFICES ASSUME Init PROVE CacheInv
  OBVIOUS
<1>0. LifeInv /\ Tidy /\ OneAtATime /\ restarts \in Nat
  <2>1. restarts \in Nat
    BY DEF Init
  <2> QED
    BY <2>1, InitType, InitCared, InitTidy DEF LifeInv
<1>1. /\ task.sub = 0
      /\ \A j \in Jobs : job[j].phase = "none"
      /\ \A t \in Threads : thread[t].set = {}
  BY DEF Init, NoJob, Idle
<1> QED
  BY <1>0, <1>1 DEF CacheInv, Cache, TaskInv, StoredInv, SettingInv, NewInv, SelectedInv

\* The grade shown, the one of user_tasks, is the one of the submission used for
\* evaluation whenever nothing is going on: callbacks, selections and the replays
\* that meet no other request leave the two documents in agreement, although each
\* writes them in several steps.
THEOREM GradeAgrees == Spec => []CacheAgrees
<1>1. CacheInv => CacheAgrees
  <2> SUFFICES ASSUME CacheInv, Quiet, Fine, task.sub \in Done
               PROVE  task.grade = doc[task.sub].grade /\ task.succeeded = (doc[task.sub].result = "success")
    BY DEF CacheAgrees, Fine
  <2>1. TaskInv /\ task.sub # 0 /\ ~ReplayPending(task.sub)
    BY DEF CacheInv, Cache, Quiet, ReplayPending, Done, Subs
  <2> QED
    BY <2>1 DEF TaskInv, Matches
<1> QED
  BY <1>1, InitCache, CacheStep, PTL DEF Spec

-----------------------------------------------------------------------------
(* What the settings of the task tell is obeyed.                            *)

\* The submissions that were inserted, whatever they have become.
Inserted == {s \in Subs : doc[s].status # "none"}

\* A request is about to launch s, or its callback has not ended.
BeingAdded(s) == \E t \in Threads : thread[t].pc \in {"inserted", "listed"} /\ thread[t].sub = s
BeingCounted(s) == \E j \in Uncounted : job[j].sub = s
Busy(s) == BeingAdded(s) \/ BeingCounted(s)

\* A submission was inserted and the attempt is not counted yet.
AttemptPending ==
    \/ \E t \in Threads : thread[t].pc \in {"inserted", "listed"}
    \/ \E j \in Jobs : job[j].phase \in {"sent", "stored"}

\* Submissions are numbered in the order of their insertion.
Segment == \A s \in Inserted : \A u \in Subs : u < s => u \in Inserted

\* The newest submission is the one that is being handled.
NewestBusy ==
    /\ \A s \in Subs : Busy(s) => \A u \in Inserted : u <= s
    /\ \A j \in Uncounted : job[j].sub \in Kept

\* What a callback holds is what is stored.
HeldResult(j) ==
    /\ job[j].phase \in {"stored", "setting"} => job[j].set # {}
    /\ job[j].phase \in {"stored", "setting"} => \A e \in job[j].set : e.grade = doc[job[j].sub].grade
    /\ job[j].phase = "setting" => \A e \in job[j].set : e.sub = job[j].sub

Counted == Cardinality(Inserted) = task.tried + (IF AttemptPending THEN 1 ELSE 0)

WithinLimit ==
    Limit > 0 =>
      /\ Cardinality(Inserted) <= Limit
      /\ \A t \in Threads : thread[t].pc = "checked" => task.tried < Limit

\* The default submission.
DefaultKept ==
    /\ task.sub # 0 => Exists(task.sub)
    /\ task.sub = 0 => task.grade = 0 /\ \A u \in Inserted : Busy(u)

OnlyOne(t) ==
    Selecting(t) =>
      /\ \A u \in Inserted : u = thread[t].sub
      /\ doc[thread[t].sub].status \in {"done", "error"}
      /\ \A e \in thread[t].set : e.sub = thread[t].sub /\ e.grade = doc[thread[t].sub].grade

LastObeyed ==
    evaluate = "last" /\ (\A s \in Subs : ~Busy(s)) =>
      \A u \in Kept : task.sub \in Kept /\ u <= task.sub

BestObeyed ==
    evaluate = "best" =>
      /\ \A s \in Done : doc[s].grade <= task.grade \/ BeingCounted(s)
      /\ \A j \in Jobs : job[j].phase = "setting" => \A e \in job[j].set : task.grade <= e.grade

Order ==
    /\ NewestBusy
    /\ \A j \in Jobs : HeldResult(j)
    /\ Counted
    /\ WithinLimit
    /\ evaluate # "student" /\ ~orphaned =>
         /\ DefaultKept
         /\ \A t \in Threads : OnlyOne(t)
         /\ LastObeyed
         /\ BestObeyed

\* The inductive invariant.
OrderInv == CacheInv /\ Segment /\ (Orderly => Order)

LEMMA InsertedFinite ==
    /\ Inserted \subseteq Subs /\ IsFiniteSet(Inserted)
    /\ Cardinality(Inserted) \in Nat
<1>1. IsFiniteSet(Subs)
  BY SubmissionsAssumption, FS_Interval DEF Subs
<1>2. Inserted \subseteq Subs
  BY DEF Inserted
<1> QED
  BY <1>1, <1>2, FS_Subset, FS_CardinalityType

\* What is known of the submission being handled when all is in order.
LEMMA OrderFacts ==
    ASSUME Parts, Cared, Tidy, OneAtATime, Orderly
    PROVE  /\ \A j, k \in Uncounted : j = k
           /\ \A t \in Threads : Adding(t) => Uncounted = {}
           /\ \A t, u \in Threads : Adder(t) /\ Adder(u) => t = u
           /\ \A t \in Threads : thread[t].pc \in {"inserted", "listed"} =>
                thread[t].sub \in Subs /\ doc[thread[t].sub].status = "waiting"
           /\ \A t \in Threads : thread[t].pc # "replaying"
           /\ \A j \in Jobs : job[j].phase = "sent" => doc[job[j].sub].status = "waiting"
           /\ \A j \in Uncounted : job[j].newsub
<1>1. \A t \in Threads : thread[t].pc \in {"inserted", "listed"} =>
        thread[t].sub \in Subs /\ doc[thread[t].sub].status = "waiting"
  <2> SUFFICES ASSUME NEW t \in Threads, thread[t].pc \in {"inserted", "listed"}
               PROVE  thread[t].sub \in Subs /\ doc[thread[t].sub].status = "waiting"
    OBVIOUS
  <2>1. thread[t].sub \in Subs /\ t \in Serving(thread[t].sub)
    BY DEF Parts, ThreadType, ThreadSub, Serving
  <2> QED
    BY <2>1 DEF Orderly, Cared, Care
<1>2. \A j \in Jobs : job[j].phase = "sent" => doc[job[j].sub].status = "waiting"
  <2> SUFFICES ASSUME NEW j \in Jobs, job[j].phase = "sent"
               PROVE  doc[job[j].sub].status = "waiting"
    OBVIOUS
  <2>1. job[j].sub \in Subs /\ j \in Running(job[j].sub)
    BY GivenType DEF Running
  <2> QED
    BY <2>1 DEF Orderly, Cared, Care
<1> QED
  BY <1>1, <1>2 DEF Orderly, OneAtATime, Cared, Careful, Tidy

\* A step that changes neither what is stored nor the callbacks.
LEMMA OrderFrame ==
    ASSUME Parts, Cared, Order, setting' = setting, orphaned' = orphaned, task' = task,
           \A s \in Subs : doc'[s].status = doc[s].status /\ doc'[s].grade = doc[s].grade,
           Uncounted' = Uncounted, \A k \in Uncounted : job'[k] = job[k],
           \A t \in Threads : thread'[t].pc \in {"inserted", "listed"} <=> thread[t].pc \in {"inserted", "listed"},
           \A t \in Threads : thread'[t].pc \in {"inserted", "listed"} => thread'[t].sub = thread[t].sub,
           \A t \in Threads : thread'[t].pc = "checked" /\ Limit > 0 => task.tried < Limit,
           evaluate # "student" /\ ~orphaned => \A t \in Threads : OnlyOne(t)'
    PROVE  Order'
<1>1. /\ Inserted' = Inserted /\ Kept' = Kept /\ Done' = Done
      /\ \A s \in Subs : Exists(s)' = Exists(s)
  BY DEF Inserted, Kept, Done, Exists
<1>2. Uncounted \subseteq Jobs /\ \A j \in Jobs : j \in Uncounted <=> job[j].phase \in {"sent", "stored", "setting"}
  BY DEF Uncounted
<1>3. \A j \in Jobs : j \in Uncounted <=> job'[j].phase \in {"sent", "stored", "setting"}
  BY DEF Uncounted
<1>4. ASSUME NEW s PROVE BeingAdded(s)' = BeingAdded(s) /\ BeingCounted(s)' = BeingCounted(s) /\ Busy(s)' = Busy(s)
  BY <1>2 DEF BeingAdded, BeingCounted, Busy
<1>5. AttemptPending' <=> AttemptPending
  BY <1>2, <1>3 DEF AttemptPending
<1>6. \A j \in Uncounted : job[j].sub \in Subs
  BY DEF Order, NewestBusy, Kept
<1>7. NewestBusy'
  BY <1>1, <1>2, <1>4, <1>6 DEF Order, NewestBusy
<1>8. \A j \in Jobs : HeldResult(j)'
  BY <1>2, <1>3, <1>6 DEF Order, HeldResult
<1>9. Counted' /\ WithinLimit'
  <2>1. Counted'
    BY <1>1, <1>5 DEF Order, Counted
  <2>2. WithinLimit'
    BY <1>1 DEF Order, WithinLimit, Limit
  <2> QED
    BY <2>1, <2>2
<1>10. ASSUME evaluate' # "student" /\ ~orphaned'
       PROVE  DefaultKept' /\ LastObeyed' /\ BestObeyed'
  <2>1. DefaultKept /\ LastObeyed /\ BestObeyed
    BY <1>10 DEF Order, evaluate
  <2>2. DefaultKept'
    <3>1. task.sub # 0 => task.sub \in Subs
      BY GivenType
    <3> QED
      BY <1>1, <1>4, <2>1, <3>1 DEF DefaultKept
  <2>3. LastObeyed'
    BY <1>1, <1>4, <2>1 DEF LastObeyed, evaluate
  <2>4. BestObeyed'
    <3>1. \A s \in Done : doc'[s].grade = doc[s].grade
      BY DEF Done
    <3>2. \A j \in Jobs : job'[j].phase = "setting" => job'[j] = job[j]
      BY <1>3
    <3> QED
      BY <1>1, <1>4, <2>1, <3>1, <3>2 DEF BestObeyed, evaluate
  <2> QED
    BY <2>2, <2>3, <2>4
<1> QED
  BY <1>7, <1>8, <1>9, <1>10 DEF Order, evaluate

\* In order, only one submission is handled.
LEMMA BusyOnce ==
    ASSUME Parts, Cared, Tidy, OneAtATime, Orderly, Order, NEW s \in Subs, NEW u \in Subs, Busy(s), Busy(u)
    PROVE  s = u
<1>1. \A v \in Subs : Busy(v) => v \in Inserted
  BY OrderFacts DEF Busy, BeingAdded, BeingCounted, Order, NewestBusy, Kept, Exists, Inserted
<1>2. s <= u /\ u <= s
  BY <1>1 DEF Order, NewestBusy
<1> QED
  BY <1>2 DEF Subs

LEMMA InsertOrder ==
    ASSUME Parts, Cared, Tidy, OneAtATime, Orderly, Orderly', Segment, Order, NEW t \in Threads, Insert(t)
    PROVE  Order'
<1>1. PICK n \in Subs : /\ NextSub(n)
                        /\ doc' = [doc EXCEPT ![n].status = "waiting"]
                        /\ thread' = [thread EXCEPT ![t].sub = n, ![t].pc = "inserted"]
  BY DEF Insert
<1>2. /\ thread[t].pc = "checked" /\ doc[n].status = "none"
      /\ setting' = setting /\ task' = task /\ job' = job /\ orphaned' = orphaned
  BY <1>1 DEF Insert, NextSub
<1>3. Uncounted = {} /\ Uncounted' = {} /\ \A u \in Threads \ {t} : thread[u].pc = "idle"
  BY <1>2 DEF Insert, Orderly, Disturbed, Uncounted
<1>4. /\ thread'[t].pc = "inserted" /\ thread'[t].sub = n
      /\ \A u \in Threads \ {t} : thread'[u] = thread[u]
  BY <1>1 DEF Parts, ThreadType
<1>5. /\ doc'[n].status = "waiting" /\ doc'[n].grade = doc[n].grade
      /\ \A s \in Subs : s # n => doc'[s] = doc[s]
  BY <1>1 DEF Parts, DocType
<1>6. Inserted' = Inserted \cup {n} /\ n \notin Inserted
  BY <1>2, <1>5 DEF Inserted
<1>7. ~AttemptPending /\ AttemptPending' /\ \A s \in Subs : ~Busy(s)
  <2>1. \A u \in Threads : thread[u].pc \notin {"inserted", "listed"}
    BY <1>2, <1>3
  <2>2. \A j \in Jobs : job[j].phase \notin {"sent", "stored"}
    BY <1>3 DEF Uncounted
  <2> QED
    BY <1>3, <1>4, <2>1, <2>2 DEF AttemptPending, Busy, BeingAdded, BeingCounted
<1>8. \A s \in Subs : Busy(s)' <=> s = n
  BY <1>3, <1>4 DEF Busy, BeingAdded, BeingCounted
<1>9. NewestBusy'
  <2>1. \A u \in Inserted : ~(n < u)
    BY <1>6 DEF Segment
  <2>2. \A u \in Inserted' : u <= n
    BY <1>6, <2>1, InsertedFinite DEF Subs
  <2> QED
    BY <1>3, <1>8, <2>2 DEF NewestBusy
<1>10. \A j \in Jobs : HeldResult(j)'
  BY <1>3 DEF HeldResult, Uncounted
<1>11. Cardinality(Inserted) = task.tried /\ Cardinality(Inserted') = task.tried + 1 /\ task.tried \in Nat
  <2>1. task.tried \in Nat
    BY DEF Parts, TaskType
  <2>2. Cardinality(Inserted) = task.tried
    BY <1>7, <2>1 DEF Order, Counted
  <2>3. Cardinality(Inserted \cup {n}) = Cardinality(Inserted) + 1
    BY <1>6, InsertedFinite, FS_AddElement
  <2> QED
    BY <1>6, <2>1, <2>2, <2>3
<1>12. Counted' /\ WithinLimit'
  <2>1. Limit' = Limit
    BY <1>2 DEF Limit
  <2>2. Limit > 0 => task.tried + 1 <= Limit
    <3>1. Limit \in Nat
      BY SubmissionsAssumption DEF Limit, Parts
    <3> QED
      BY <1>2, <1>11, <3>1 DEF Order, WithinLimit
  <2>3. \A u \in Threads : thread'[u].pc # "checked"
    BY <1>3, <1>4
  <2> QED
    BY <1>2, <1>7, <1>11, <2>1, <2>2, <2>3 DEF Counted, WithinLimit
<1>13. ASSUME evaluate' # "student" /\ ~orphaned'
       PROVE  DefaultKept' /\ LastObeyed' /\ BestObeyed'
  <2>1. DefaultKept /\ LastObeyed /\ BestObeyed
    BY <1>2, <1>13 DEF Order, evaluate
  <2>2. DefaultKept'
    <3>1. Inserted \subseteq Subs /\ task.sub \in Subs \cup {0}
      BY GivenType DEF Inserted
    <3>2. task.sub = 0 => Inserted = {}
      BY <1>7, <2>1, <3>1 DEF DefaultKept
    <3>3. task.sub # 0 => Exists(task.sub)'
      BY <1>2, <1>5, <2>1, <3>1 DEF DefaultKept, Exists
    <3> QED
      BY <1>2, <1>6, <1>8, <2>1, <3>2, <3>3 DEF DefaultKept
  <2>3. LastObeyed'
    BY <1>8 DEF LastObeyed
  <2>4. BestObeyed'
    <3>1. Done' = Done /\ \A s \in Done : doc'[s].grade = doc[s].grade
      BY <1>2, <1>5 DEF Done
    <3>2. \A s \in Done : ~BeingCounted(s)
      BY <1>3 DEF BeingCounted
    <3>3. \A j \in Jobs : job'[j].phase # "setting"
      BY <1>3 DEF Uncounted
    <3> QED
      BY <1>2, <2>1, <3>1, <3>2, <3>3 DEF BestObeyed, evaluate
  <2> QED
    BY <2>2, <2>3, <2>4
<1>14. \A u \in Threads : OnlyOne(u)'
  BY <1>3, <1>4 DEF OnlyOne, Selecting
<1> QED
  BY <1>9, <1>10, <1>12, <1>13, <1>14 DEF Order

LEMMA LaunchOrder ==
    ASSUME Parts, Cared, Tidy, OneAtATime, Orderly, Order, NEW t \in Threads, Launch(t)
    PROVE  Order'
<1>0. PICK n, gone : n = thread[t].sub /\ gone = thread[t].remove
  OBVIOUS
<1>1. PICK j \in Jobs : /\ NewJob(j, n, TRUE)
                        /\ thread' = [thread EXCEPT ![t].job = j, ![t].pc = "launched"]
  BY <1>0 DEF Launch
<1>2. /\ thread[t].pc = "listed" /\ n \in Subs /\ doc[n].status = "waiting"
      /\ setting' = setting /\ task' = task /\ orphaned' = (orphaned \/ task.sub \in gone)
      /\ doc' = [s \in Subs |-> IF s \in gone THEN [Blank EXCEPT !.status = "deleted"] ELSE doc[s]]
      /\ gone \subseteq Subs
  BY <1>0, OrderFacts DEF Launch, Parts, ThreadType
<1>3. \A s \in gone : doc[s].status \in {"done", "error", "deleted"}
  BY <1>0 DEF Cared, Careful, Orderly
<1>4. /\ \A s \in Subs \ gone : doc'[s] = doc[s]
      /\ \A s \in gone : doc'[s].status = "deleted"
      /\ n \notin gone
  BY <1>2, <1>3 DEF Blank
<1>5. Uncounted = {} /\ \A u \in Threads : Adder(u) => u = t
  BY <1>2, OrderFacts DEF Adding, Adder
<1>6. /\ Uncounted' = {j} /\ job'[j].phase = "sent" /\ job'[j].sub = n
      /\ \A k \in Jobs \ {j} : job'[k].phase \notin {"sent", "stored", "setting"}
  <2>1. /\ Uncounted' = Uncounted \cup {j}
        /\ job'[j].phase = "sent" /\ job'[j].sub = n
        /\ \A k \in Jobs : k # j => job'[k] = job[k]
    BY <1>1, <1>2, NewIsUncounted
  <2> QED
    BY <1>5, <2>1 DEF Uncounted
<1>7. /\ thread'[t].pc = "launched" /\ \A u \in Threads \ {t} : thread'[u] = thread[u]
      /\ \A u \in Threads : ~Adding(u)'
  <2>1. thread'[t].pc = "launched" /\ \A u \in Threads \ {t} : thread'[u] = thread[u]
    BY <1>1 DEF Parts, ThreadType
  <2> QED
    BY <1>5, <2>1 DEF Adding, Adder
<1>8. Busy(n) /\ \A s \in Subs : (Busy(s)' <=> s = n) /\ (Busy(s) => s = n)
  <2>1. Busy(n)
    BY <1>0, <1>2 DEF Busy, BeingAdded
  <2>2. \A s \in Subs : Busy(s) => s = n
    BY <1>2, <2>1, BusyOnce
  <2>3. \A s \in Subs : Busy(s)' <=> s = n
    BY <1>6, <1>7 DEF Busy, BeingAdded, BeingCounted, Adding
  <2> QED
    BY <2>1, <2>2, <2>3
<1>9. /\ Inserted' = Inserted
      /\ n \in Inserted
      /\ \A s \in Subs \ gone : Exists(s)' = Exists(s)
      /\ Done' \subseteq Done /\ \A s \in Done' : doc'[s].grade = doc[s].grade
  <2>1. \A s \in Subs : doc'[s].status # "none" <=> doc[s].status # "none"
    BY <1>3, <1>4
  <2>2. \A s \in Subs : doc'[s].status = "done" => s \notin gone
    BY <1>4
  <2> QED
    BY <1>2, <1>4, <2>1, <2>2 DEF Inserted, Done, Exists
<1>10. NewestBusy'
  <2>1. n \in Kept'
    BY <1>2, <1>4 DEF Kept, Exists
  <2> QED
    BY <1>6, <1>8, <1>9, <2>1 DEF Order, NewestBusy
<1>11. \A k \in Jobs : HeldResult(k)'
  BY <1>6 DEF HeldResult
<1>12. Counted' /\ WithinLimit'
  <2>1. AttemptPending /\ AttemptPending'
    BY <1>2, <1>6 DEF AttemptPending
  <2>2. \A u \in Threads : thread'[u].pc # "checked"
    BY <1>7 DEF Adding
  <2> QED
    BY <1>2, <1>9, <2>1, <2>2 DEF Order, Counted, WithinLimit, Limit
<1>13. ASSUME evaluate' # "student" /\ ~orphaned'
       PROVE  DefaultKept' /\ LastObeyed' /\ BestObeyed' /\ \A u \in Threads : OnlyOne(u)'
  <2>1. DefaultKept /\ LastObeyed /\ BestObeyed /\ (\A u \in Threads : OnlyOne(u)) /\ task.sub \notin gone
    BY <1>2, <1>13 DEF Order, evaluate
  <2>2. DefaultKept'
    <3>1. task.sub # 0 => task.sub \in Subs \ gone
      BY <2>1, GivenType
    <3> QED
      BY <1>2, <1>8, <1>9, <2>1, <3>1, InsertedFinite DEF DefaultKept
  <2>3. LastObeyed'
    BY <1>2, <1>8 DEF LastObeyed
  <2>4. BestObeyed'
    <3>1. \A s \in Done : ~BeingCounted(s)
      BY <1>5 DEF BeingCounted
    <3>2. \A k \in Jobs : job'[k].phase # "setting"
      BY <1>6
    <3> QED
      BY <1>2, <1>9, <2>1, <3>1, <3>2 DEF BestObeyed, evaluate
  <2>5. \A u \in Threads : ~Selecting(u)'
    <3>1. \A u \in Threads : ~Selecting(u)
      BY <1>2, <1>9, <2>1 DEF OnlyOne
    <3> QED
      BY <1>7, <3>1 DEF Selecting
  <2> QED
    BY <2>2, <2>3, <2>4, <2>5 DEF OnlyOne
<1> QED
  BY <1>10, <1>11, <1>12, <1>13 DEF Order

\* The requests of add_job that only move on, those that end, and the reading of
\* a selection.
LEMMA ServeOrder ==
    ASSUME Parts, Cared, Tidy, OneAtATime, Orderly, Order, NEW t \in Threads,
           List(t) \/ StoreJobId(t) \/ Overwrite(t) \/ ReadSelected(t)
    PROVE  Order'
<1>1. ~Overwrite(t)
  BY OrderFacts DEF Overwrite
<1>2. Serve(t) /\ ~Launch(t)
  BY DEF Serve, Launch, List, StoreJobId, Overwrite, ReadSelected
<1>3. setting' = setting /\ orphaned' = orphaned /\ task' = task
  BY <1>1 DEF List, StoreJobId, ReadSelected, history, database
<1>4. Uncounted' = Uncounted /\ \A k \in Uncounted : job'[k] = job[k]
  BY <1>2, ServeJobs
<1>5. ASSUME NEW s \in Subs PROVE doc'[s].status = doc[s].status /\ doc'[s].grade = doc[s].grade
  <2>1. doc' = doc \/ doc' = [doc EXCEPT ![thread[t].sub].jobid = IdOf(thread[t].job)]
    BY <1>1 DEF List, StoreJobId, ReadSelected, database
  <2> QED
    BY <2>1 DEF Parts, DocType
<1>6. \A u \in Threads \ {t} : thread'[u] = thread[u]
  BY <1>2, ServeMoves
<1>7. thread'[t].pc # "checked"
  <2>1. ~Insert(t) /\ thread[t].pc # "checked"
    BY <1>1 DEF List, StoreJobId, ReadSelected, Insert
  <2>2. Idle.pc # "checked"
    BY DEF Idle
  <2>3. List(t) => thread'[t].pc = "listed"
    BY DEF List, Parts, ThreadType
  <2>4. StoreJobId(t) => thread'[t] = Idle
    BY DEF StoreJobId, Reply, Parts
  <2>5. ReadSelected(t) => thread'[t] = Idle \/ thread'[t].pc = thread[t].pc
    BY DEF ReadSelected, Reply, Parts, ThreadType
  <2> QED
    BY <1>1, <2>1, <2>2, <2>3, <2>4, <2>5
<1>8. /\ thread'[t].pc \in {"inserted", "listed"} <=> thread[t].pc \in {"inserted", "listed"}
      /\ thread'[t].pc \in {"inserted", "listed"} => thread'[t].sub = thread[t].sub
  <2>1. Idle.pc = "idle"
    BY DEF Idle
  <2>2. CASE List(t)
    BY <2>2 DEF List, Parts, ThreadType
  <2>3. CASE StoreJobId(t)
    BY <2>1, <2>3 DEF StoreJobId, Reply, Parts
  <2>4. CASE ReadSelected(t)
    <3>1. thread'[t] = Idle \/ thread'[t].pc = thread[t].pc
      BY <2>4 DEF ReadSelected, Reply, Parts, ThreadType
    <3> QED
      BY <2>1, <2>4, <3>1 DEF ReadSelected
  <2> QED
    BY <1>1, <2>2, <2>3, <2>4
<1>9. ASSUME evaluate # "student", ~orphaned, NEW u \in Threads PROVE OnlyOne(u)'
  <2>1. OnlyOne(u)
    BY <1>9 DEF Order
  <2>2. Inserted' = Inserted
    BY <1>5 DEF Inserted
  <2>3. Selecting(u) => thread[u].sub \in Subs
    BY DEF Parts, ThreadType, ThreadSub, Selecting
  <2>4. ASSUME Selecting(u)' => Selecting(u) /\ thread'[u].sub = thread[u].sub,
               Selecting(u) => \A e \in thread'[u].set : e.sub = thread[u].sub /\ e.grade = doc[thread[u].sub].grade
        PROVE  OnlyOne(u)'
    BY <1>5, <2>1, <2>2, <2>3, <2>4 DEF OnlyOne
  <2>5. CASE u # t
    BY <1>6, <2>1, <2>4, <2>5 DEF Selecting, OnlyOne
  <2>6. CASE u = t
    <3>1. CASE ReadSelected(t)
      <4>1. CASE Reply(t, Failure)
        <5>1. ~Selecting(t)'
          BY <4>1 DEF Reply, Parts, Idle, Selecting
        <5> QED
          BY <2>6, <5>1 DEF OnlyOne
      <4>2. CASE ~Reply(t, Failure)
        <5>1. PICK e : e = Evaluation(doc[thread[t].sub].result, doc[thread[t].sub].grade, thread[t].sub)
          OBVIOUS
        <5>2. thread' = [thread EXCEPT ![t].set = {e}]
          BY <3>1, <4>2, <5>1 DEF ReadSelected
        <5>3. thread'[t].set = {e} /\ thread'[t].pc = thread[t].pc /\ thread'[t].sub = thread[t].sub
          BY <5>2 DEF Parts, ThreadType
        <5>4. e.sub = thread[t].sub /\ e.grade = doc[thread[t].sub].grade
          BY <5>1 DEF Evaluation
        <5> QED
          BY <2>4, <2>6, <5>3, <5>4 DEF Selecting
      <4> QED
        BY <4>1, <4>2
    <3>2. CASE ~ReadSelected(t)
      <4>1. ~Selecting(t)'
        <5>1. ~Selecting(t)
          BY <1>1, <3>2 DEF List, StoreJobId, Selecting
        <5> QED
          BY <1>2, <5>1, ServeMoves DEF Idle, Selecting, Adder
      <4> QED
        BY <2>6, <4>1 DEF OnlyOne
    <3> QED
      BY <3>1, <3>2
  <2> QED
    BY <2>5, <2>6
<1>10. /\ \A u \in Threads : thread'[u].pc \in {"inserted", "listed"} <=> thread[u].pc \in {"inserted", "listed"}
       /\ \A u \in Threads : thread'[u].pc \in {"inserted", "listed"} => thread'[u].sub = thread[u].sub
       /\ \A u \in Threads : thread'[u].pc = "checked" /\ Limit > 0 => task.tried < Limit
  BY <1>6, <1>7, <1>8 DEF Order, WithinLimit
<1> QED
  BY <1>3, <1>4, <1>5, <1>9, <1>10, OrderFrame

LEMMA WriteSelectedOrder ==
    ASSUME Parts, Cared, Tidy, OneAtATime, Orderly, Order, NEW t \in Threads, WriteSelected(t)
    PROVE  Order'
<1>1. PICK e \in thread[t].set : /\ task' = Evaluated(e)
                                 /\ \E a : Reply(t, a)
  BY DEF WriteSelected
<1>2. /\ setting' = setting /\ doc' = doc /\ job' = job /\ orphaned' = orphaned
      /\ thread' = [thread EXCEPT ![t] = Idle] /\ Selecting(t)
  BY <1>1 DEF WriteSelected, Reply, history, Selecting
<1>3. e.sub \in Subs \cup {0} /\ e \in Evaluations /\ thread[t].sub \in Subs
  BY <1>1, <1>2, GivenType DEF Selecting, Parts, ThreadType, ThreadSub
<1>4. /\ task'.tried = task.tried /\ task'.grade = e.grade
      /\ e.sub # 0 => task'.sub = e.sub
  BY <1>1, <1>3 DEF Evaluated, Parts, TaskType
<1>5. Inserted' = Inserted /\ Kept' = Kept /\ Done' = Done /\ Uncounted' = Uncounted
  BY <1>2 DEF Inserted, Kept, Done, Exists, Uncounted
<1>6. Idle.pc = "idle" /\ thread'[t] = Idle /\ \A u \in Threads \ {t} : thread'[u] = thread[u]
  BY <1>2 DEF Parts, Idle
<1>7. ASSUME NEW s PROVE /\ BeingAdded(s)' = BeingAdded(s) /\ BeingCounted(s)' = BeingCounted(s)
                         /\ Busy(s)' = Busy(s)
  BY <1>2, <1>5, <1>6 DEF BeingAdded, BeingCounted, Busy, Selecting
<1>8. AttemptPending' <=> AttemptPending
  BY <1>2, <1>6 DEF AttemptPending, Selecting
<1>9. NewestBusy'
  BY <1>2, <1>5, <1>7 DEF Order, NewestBusy
<1>10. \A j \in Jobs : HeldResult(j)'
  BY <1>2 DEF Order, HeldResult
<1>11. Counted' /\ WithinLimit'
  <2>1. Counted'
    BY <1>4, <1>5, <1>8 DEF Order, Counted
  <2>2. WithinLimit'
    BY <1>2, <1>4, <1>5, <1>6 DEF Order, WithinLimit, Limit
  <2> QED
    BY <2>1, <2>2
<1>12. ASSUME evaluate' # "student" /\ ~orphaned'
       PROVE  DefaultKept' /\ LastObeyed' /\ BestObeyed' /\ \A u \in Threads : OnlyOne(u)'
  <2>1. (\A u \in Threads : OnlyOne(u)) /\ BestObeyed
    BY <1>2, <1>12 DEF Order, evaluate
  <2>2. PICK s : s = thread[t].sub
    OBVIOUS
  <2>3. /\ \A u \in Inserted : u = s
        /\ s \in Subs /\ s # 0 /\ doc[s].status \in {"done", "error"}
        /\ e.sub = s /\ e.grade = doc[s].grade /\ task'.sub = s
    BY <1>1, <1>2, <1>3, <1>4, <2>1, <2>2 DEF OnlyOne, Subs
  <2>4. DefaultKept'
    BY <1>2, <2>3 DEF DefaultKept, Exists
  <2>5. Kept \subseteq Inserted /\ Done \subseteq Inserted
    BY DEF Kept, Exists, Done, Inserted
  <2>6. LastObeyed'
    <3>1. s \in Kept
      BY <2>3 DEF Kept, Exists
    <3>2. \A u \in Kept : u = s
      BY <2>3, <2>5
    <3> QED
      BY <1>5, <2>3, <3>1, <3>2 DEF LastObeyed, Subs
  <2>7. BestObeyed'
    <3>1. doc[s].grade \in Nat
      BY <2>3 DEF Parts, DocType
    <3>2. \A u \in Done : doc[u].grade <= task'.grade
      BY <1>4, <2>3, <2>5, <3>1
    <3>3. \A j \in Jobs : job[j].phase = "setting" => job[j].sub = s
      BY <2>3, <2>5 DEF Order, NewestBusy, Uncounted
    <3>4. \A j \in Jobs : job[j].phase = "setting" => \A x \in job[j].set : x.grade = doc[s].grade
      BY <3>3 DEF Order, HeldResult
    <3>5. \A j \in Jobs : job[j].phase = "setting" => \A x \in job[j].set : task'.grade <= x.grade
      BY <1>4, <2>3, <3>1, <3>4
    <3> QED
      BY <1>2, <1>5, <3>2, <3>5 DEF BestObeyed
  <2>8. \A u \in Threads : OnlyOne(u)'
    BY <1>2, <1>5, <1>6, <2>1 DEF OnlyOne, Selecting
  <2> QED
    BY <2>4, <2>6, <2>7, <2>8
<1> QED
  BY <1>9, <1>10, <1>11, <1>12 DEF Order

LEMMA StartOrder ==
    ASSUME Parts, Cared, Tidy, OneAtATime, Orderly, Orderly', Order, NEW t \in Threads, Start(t)
    PROVE  Order'
<1>1. ~Replay(t) /\ ~ReplayCopy(t)
  BY DEF Orderly, Replay, ReplayCopy
<1>2. /\ thread[t].pc = "idle" /\ thread[t].set = {}
      /\ setting' = setting /\ task' = task /\ orphaned' = orphaned /\ doc' = doc /\ job' = job
  <2>1. /\ thread[t].pc = "idle" /\ setting' = setting /\ task' = task /\ orphaned' = orphaned /\ doc' = doc /\ job' = job
    BY <1>1 DEF Start, Post, Check, Select, database
  <2> QED
    BY <2>1 DEF Tidy, Selecting
<1>3. Uncounted' = Uncounted
  BY <1>2 DEF Uncounted
<1>4. ASSUME \A u \in Threads \ {t} : thread'[u] = thread[u],
             thread'[t].pc \notin {"inserted", "listed"},
             thread'[t].pc = "checked" /\ Limit > 0 => task.tried < Limit,
             evaluate # "student" /\ ~orphaned => OnlyOne(t)'
      PROVE  Order'
  <2>1. ASSUME NEW u \in Threads \ {t}, OnlyOne(u) PROVE OnlyOne(u)'
    BY <1>2, <1>4, <2>1 DEF OnlyOne, Selecting, Inserted
  <2>2. evaluate # "student" /\ ~orphaned => \A u \in Threads : OnlyOne(u)'
    BY <1>4, <2>1 DEF Order
  <2>3. /\ \A u \in Threads : thread'[u].pc \in {"inserted", "listed"} <=> thread[u].pc \in {"inserted", "listed"}
        /\ \A u \in Threads : thread'[u].pc \in {"inserted", "listed"} => thread'[u].sub = thread[u].sub
        /\ \A u \in Threads : thread'[u].pc = "checked" /\ Limit > 0 => task.tried < Limit
    BY <1>2, <1>4 DEF Order, WithinLimit
  <2> QED
    BY <1>2, <1>3, <2>2, <2>3, OrderFrame
<1>5. ASSUME NEW a, Reply(t, a) PROVE Order'
  <2>1. thread'[t].pc = "idle" /\ \A u \in Threads \ {t} : thread'[u] = thread[u]
    BY <1>5 DEF Reply, Parts, Idle
  <2> QED
    BY <1>4, <2>1 DEF OnlyOne, Selecting
<1>6. CASE Post(t)
  <2>1. CASE Reply(t, ErrorAnswer)
    BY <1>5, <2>1
  <2>2. CASE ~Reply(t, ErrorAnswer)
    <3>1. ~AtLimit /\ thread' = [thread EXCEPT ![t].pc = "checked"]
      BY <1>6, <2>2 DEF Post, Goto
    <3>2. thread'[t].pc = "checked" /\ \A u \in Threads \ {t} : thread'[u] = thread[u]
      BY <3>1 DEF Parts, ThreadType
    <3>3. Limit > 0 => task.tried < Limit
      <4>1. Limit \in Nat /\ task.tried \in Nat
        BY SubmissionsAssumption DEF Limit, Parts, TaskType
      <4> QED
        BY <3>1, <4>1 DEF AtLimit
    <3> QED
      BY <1>4, <3>2, <3>3 DEF OnlyOne, Selecting
  <2> QED
    BY <2>1, <2>2
<1>7. ASSUME NEW s \in Kept, Select(t, s) PROVE Order'
  <2>1. CASE evaluate = "student"
    <3>1. thread' = [thread EXCEPT ![t].pc = "select", ![t].sub = s]
      BY <1>7, <2>1 DEF Select
    <3>2. thread'[t].pc = "select" /\ \A u \in Threads \ {t} : thread'[u] = thread[u]
      BY <3>1 DEF Parts, ThreadType
    <3> QED
      BY <1>4, <2>1, <3>2
  <2>2. CASE evaluate # "student"
    BY <1>5, <1>7, <2>2 DEF Select
  <2> QED
    BY <2>1, <2>2
<1>8. ASSUME NEW s \in Kept, Check(t, s) PROVE Order'
  <2>1. CASE \E a : Reply(t, a)
    BY <1>5, <2>1
  <2>2. CASE ~ \E a : Reply(t, a)
    <3>1. Exists(s) /\ s \notin Waiting /\ DefaultMissing /\ thread' = [thread EXCEPT ![t].pc = "missing", ![t].sub = s]
      BY <1>8, <2>2 DEF Check
    <3>2. /\ thread'[t].pc = "missing" /\ thread'[t].sub = s /\ thread'[t].set = {}
          /\ \A u \in Threads \ {t} : thread'[u] = thread[u]
      BY <1>2, <3>1 DEF Parts, ThreadType
    <3>3. s \in Subs /\ doc[s].status \in {"done", "error"} /\ s \in Inserted
      BY <3>1 DEF Kept, Exists, Waiting, Inserted
    <3>4. ASSUME evaluate # "student", ~orphaned PROVE OnlyOne(t)'
      <4>1. DefaultKept
        BY <3>4 DEF Order
      <4>2. \A u \in Inserted : Busy(u) /\ u \in Subs
        BY <3>1, <4>1, InsertedFinite DEF DefaultMissing, DefaultKept
      <4>3. \A u \in Inserted : u = s
        BY <3>3, <4>2, BusyOnce
      <4> QED
        BY <1>2, <3>2, <3>3, <4>3 DEF OnlyOne, Inserted
    <3> QED
      BY <1>4, <3>2, <3>4
  <2> QED
    BY <2>1, <2>2
<1> QED
  BY <1>1, <1>6, <1>7, <1>8 DEF Start

\* The callbacks, the job of j being the only one.
LEMMA CallbackOrder ==
    ASSUME Parts, Cared, Tidy, OneAtATime, Cache, Orderly, Order, NEW j \in Jobs, Callback(j)
    PROVE  Order'
<1>0. PICK s : s = job[j].sub
  OBVIOUS
<1>1. /\ j \in Uncounted /\ Uncounted = {j} /\ Uncounted' \subseteq {j}
      /\ \A k \in Jobs \ {j} : job'[k] = job[k]
      /\ j \in Uncounted' => job'[j].sub = s
      /\ job[j].newsub
  <2>1. /\ j \in Uncounted /\ Uncounted' \subseteq Uncounted
        /\ \A k \in Jobs \ {j} : job'[k] = job[k]
        /\ j \in Uncounted' => job'[j].sub = job[j].sub
    BY CallbackJobs
  <2>2. (\A k \in Uncounted : k = j) /\ job[j].newsub
    BY <2>1, OrderFacts
  <2> QED
    BY <1>0, <2>1, <2>2
<1>2. /\ setting' = setting /\ orphaned' = orphaned /\ thread' = thread
  BY DEF Callback, StoreResult, CountNew, CountReplay, CountDeleted, SetEvaluation, history
<1>3. s \in Kept /\ s \in Subs /\ Exists(s) /\ s \in Inserted /\ Busy(s) /\ s # 0
  BY <1>0, <1>1 DEF Order, NewestBusy, Kept, Exists, Inserted, Busy, BeingCounted, Subs
<1>4. \A t \in Threads : ~Adding(t)
  BY <1>1, OrderFacts
<1>5. /\ \A u \in Subs : Busy(u) <=> u = s
      /\ \A u \in Subs : BeingCounted(u) <=> u = s
      /\ \A u \in Subs : BeingCounted(u)' <=> (j \in Uncounted' /\ u = s)
      /\ \A u \in Subs : Busy(u)' <=> (j \in Uncounted' /\ u = s)
  BY <1>0, <1>1, <1>2, <1>4 DEF Busy, BeingAdded, BeingCounted, Adding
<1>6. \A k \in Jobs \ {j} : job[k].phase \notin {"sent", "stored", "setting"} /\ job'[k].phase \notin {"sent", "stored", "setting"}
  BY <1>1 DEF Uncounted
<1>7. /\ AttemptPending <=> job[j].phase \in {"sent", "stored"}
      /\ AttemptPending' <=> job'[j].phase \in {"sent", "stored"}
  BY <1>2, <1>4, <1>6 DEF AttemptPending, Adding
<1>8. ~CountDeleted(j) /\ ~CountReplay(j)
  BY <1>0, <1>1, <1>3 DEF CountDeleted, CountReplay
<1>9. WithinLimit' <=> (Limit > 0 => Cardinality(Inserted') <= Limit)
  BY <1>2, <1>4 DEF WithinLimit, Limit, Adding
<1>10. \A k \in Jobs \ {j} : HeldResult(k)'
  BY <1>6 DEF HeldResult
<1>11. CASE StoreResult(j)
  <2>1. job[j].phase = "sent" /\ doc[s].status = "waiting" /\ task' = task
    BY <1>0, <1>11, OrderFacts DEF StoreResult
  <2>2. PICK o \in Outcomes \cup {Crash} : /\ doc' = [doc EXCEPT ![s] = Finished(o)]
                                           /\ job' = [job EXCEPT ![j].phase = "stored", ![j].set = {o}]
    BY <1>0, <1>3, <1>11 DEF StoreResult
  <2>3. /\ doc'[s].status \in {"done", "error"} /\ doc'[s].grade = o.grade
        /\ \A u \in Subs : u # s => doc'[u] = doc[u]
    BY <1>3, <2>2 DEF Parts, Finished
  <2>4. job'[j].phase = "stored" /\ job'[j].set = {o} /\ job'[j].sub = s /\ j \in Uncounted'
    <3>1. job'[j] = [job[j] EXCEPT !.phase = "stored", !.set = {o}]
      BY <2>2 DEF Parts
    <3>2. job'[j].phase = "stored" /\ job'[j].set = {o} /\ job'[j].sub = s
      BY <1>0, <3>1 DEF Parts, JobType
    <3> QED
      BY <3>2 DEF Uncounted
  <2>5. Inserted' = Inserted /\ s \in Kept' /\ \A u \in Subs : Exists(u)' <=> Exists(u)
    BY <1>3, <2>3 DEF Inserted, Kept, Exists
  <2>6. NewestBusy'
    BY <1>1, <1>5, <2>4, <2>5 DEF Order, NewestBusy
  <2>7. HeldResult(j)'
    BY <2>3, <2>4 DEF HeldResult
  <2>8. Counted' /\ WithinLimit'
    BY <1>7, <1>9, <2>1, <2>4, <2>5 DEF Order, Counted, WithinLimit
  <2>9. ASSUME evaluate' # "student" /\ ~orphaned'
        PROVE  DefaultKept' /\ LastObeyed' /\ BestObeyed' /\ \A u \in Threads : OnlyOne(u)'
    <3>1. DefaultKept /\ LastObeyed /\ BestObeyed /\ (\A u \in Threads : OnlyOne(u))
      BY <1>2, <2>9 DEF Order, evaluate
    <3>2. DefaultKept'
      <4>1. Inserted \subseteq Subs /\ task.sub \in Subs \cup {0}
        BY GivenType DEF Inserted
      <4> QED
        BY <1>5, <2>1, <2>4, <2>5, <3>1, <4>1 DEF DefaultKept
    <3>3. LastObeyed'
      <4>1. Busy(s)'
        BY <1>3, <1>5, <2>4
      <4> QED
        BY <1>3, <4>1 DEF LastObeyed
    <3>4. BestObeyed'
      <4> SUFFICES ASSUME evaluate = "best"
                   PROVE  /\ \A u \in Done' : doc'[u].grade <= task.grade \/ BeingCounted(u)'
                          /\ \A k \in Jobs : job'[k].phase # "setting"
        BY <1>2, <2>1 DEF BestObeyed, evaluate
      <4>0. BeingCounted(s)' /\ \A u \in Done : doc[u].grade <= task.grade \/ u = s
        BY <1>3, <1>5, <2>4, <3>1 DEF BestObeyed, Done
      <4>1. \A u \in Done' : u = s \/ (u \in Done /\ doc'[u].grade = doc[u].grade)
        BY <2>3 DEF Done
      <4>2. \A u \in Done' : doc'[u].grade <= task.grade \/ BeingCounted(u)'
        BY <4>0, <4>1
      <4>3. \A k \in Jobs : job'[k].phase # "setting"
        BY <1>6, <2>4
      <4> QED
        BY <4>2, <4>3
    <3>5. \A u \in Threads : ~Selecting(u)
      BY <1>3, <2>1, <3>1 DEF OnlyOne
    <3> QED
      BY <1>2, <3>2, <3>3, <3>4, <3>5 DEF OnlyOne, Selecting
  <2> QED
    BY <1>10, <2>6, <2>7, <2>8, <2>9 DEF Order
<1>12. CASE CountNew(j)
  <2> DEFINE set == {Evaluation(o.result, o.grade, s) :
                       o \in {r \in job[j].set : evaluate = "last" \/ (evaluate = "best" /\ task.grade <= r.grade)}}
  <2>1. job[j].phase = "stored" /\ doc' = doc /\ Ready(j, set)
    BY <1>0, <1>12 DEF CountNew
  <2>2. task'.tried = task.tried + 1 /\ task'.grade = task.grade /\ task'.sub = task.sub
    BY <1>12 DEF CountNew, Parts, TaskType
  <2>3. job[j].set # {} /\ \A o \in job[j].set : o.grade = doc[s].grade
    BY <1>0, <2>1 DEF Order, HeldResult
  <2>4. \A e \in set : /\ e.sub = s /\ e.grade = doc[s].grade
                       /\ evaluate = "best" => task.grade <= e.grade
    BY <2>3 DEF Evaluation
  <2>5. set = {} => /\ evaluate # "last"
                    /\ evaluate = "best" => ~(task.grade <= doc[s].grade)
    BY <2>3
  <2> HIDE DEF set
  <2>6. /\ set = {} => j \notin Uncounted' /\ job'[j].phase \notin {"sent", "stored", "setting"}
        /\ set # {} => /\ j \in Uncounted'
                       /\ job'[j].phase = "setting" /\ job'[j].set = set /\ job'[j].sub = s
    BY <1>0, <1>1, <2>1, ReadyIsCounted DEF Uncounted
  <2>7. Inserted' = Inserted /\ Kept' = Kept /\ Done' = Done
    BY <2>1 DEF Inserted, Kept, Done, Exists
  <2>8. NewestBusy'
    BY <1>1, <1>3, <1>5, <2>7 DEF Order, NewestBusy
  <2>9. HeldResult(j)'
    BY <2>1, <2>4, <2>6 DEF HeldResult
  <2>10. Counted' /\ WithinLimit'
    <3>1. AttemptPending /\ ~AttemptPending'
      BY <1>7, <2>1, <2>6
    <3>2. task.tried \in Nat
      BY DEF Parts, TaskType
    <3>3. Cardinality(Inserted) = task.tried + 1
      BY <3>1 DEF Order, Counted
    <3> QED
      BY <1>9, <2>2, <2>7, <3>1, <3>2, <3>3 DEF Order, Counted, WithinLimit
  <2>11. ASSUME evaluate' # "student" /\ ~orphaned'
         PROVE  DefaultKept' /\ LastObeyed' /\ BestObeyed' /\ \A u \in Threads : OnlyOne(u)'
    <3>1. DefaultKept /\ LastObeyed /\ BestObeyed /\ (\A u \in Threads : OnlyOne(u)) /\ evaluate # "student"
      BY <1>2, <2>11 DEF Order, evaluate
    <3>2. evaluate \in {"best", "last"}
      BY <3>1, SubmissionsAssumption DEF evaluate, Parts
    <3>3. doc[s].grade \in Nat /\ task.grade \in Nat
      BY <1>3 DEF Parts, DocType, TaskType
    <3>4. DefaultKept'
      <4>1. task.sub = 0 => set # {}
        BY <2>5, <3>1, <3>2, <3>3 DEF DefaultKept
      <4>2. \A u \in Subs : task.sub = 0 => (Busy(u)' <=> Busy(u))
        BY <1>5, <2>6, <4>1
      <4> QED
        BY <2>1, <2>2, <2>7, <3>1, <4>2 DEF DefaultKept, Exists, Inserted
    <3>5. LastObeyed'
      <4>1. evaluate = "last" => Busy(s)'
        BY <1>3, <1>5, <2>5, <2>6
      <4> QED
        BY <1>2, <1>3, <4>1 DEF LastObeyed, evaluate
    <3>6. BestObeyed'
      <4> SUFFICES ASSUME evaluate = "best"
                   PROVE  /\ \A u \in Done : doc[u].grade <= task.grade \/ BeingCounted(u)'
                          /\ \A k \in Jobs : job'[k].phase = "setting" => \A e \in job'[k].set : task.grade <= e.grade
        BY <1>2, <2>1, <2>2, <2>7 DEF BestObeyed, evaluate
      <4>1. set = {} => doc[s].grade <= task.grade
        BY <2>5, <3>3
      <4>2. \A u \in Done : u \in Subs
        BY DEF Done
      <4>3. \A u \in Done : doc[u].grade <= task.grade \/ BeingCounted(u)'
        BY <1>5, <2>6, <3>1, <4>1, <4>2 DEF BestObeyed
      <4>4. \A k \in Jobs : job'[k].phase = "setting" => k = j /\ job'[k].set = set
        BY <1>6, <2>6
      <4> QED
        BY <2>4, <4>3, <4>4
    <3> QED
      BY <1>2, <2>1, <2>7, <3>1, <3>4, <3>5, <3>6 DEF OnlyOne, Selecting
  <2> QED
    BY <1>10, <2>8, <2>9, <2>10, <2>11 DEF Order
<1>13. CASE SetEvaluation(j)
  <2>1. PICK e \in job[j].set : task' = Evaluated(e)
    BY <1>13 DEF SetEvaluation
  <2>2. job[j].phase = "setting" /\ doc' = doc /\ job' = [job EXCEPT ![j] = Over(j, "called")]
    BY <1>13 DEF SetEvaluation
  <2>3. Uncounted' = {}
    BY <1>1, <2>2, OverIsCounted
  <2>4. e.sub = s /\ e.grade = doc[s].grade
    BY <1>0, <2>1, <2>2 DEF Order, HeldResult
  <2>5. task'.tried = task.tried /\ task'.grade = e.grade /\ task'.sub = s
    BY <1>3, <2>1, <2>4 DEF Evaluated, Parts, TaskType
  <2>6. Inserted' = Inserted /\ Kept' = Kept /\ Done' = Done
    BY <2>2 DEF Inserted, Kept, Done, Exists
  <2>7. NewestBusy'
    BY <1>5, <2>3, <2>6 DEF NewestBusy
  <2>8. HeldResult(j)' /\ job'[j].phase \notin {"sent", "stored", "setting"}
    BY <2>3 DEF HeldResult, Uncounted
  <2>9. Counted' /\ WithinLimit'
    <3>1. ~AttemptPending /\ ~AttemptPending'
      BY <1>7, <2>2, <2>8
    <3> QED
      BY <1>9, <2>5, <2>6, <3>1 DEF Order, Counted, WithinLimit
  <2>10. ASSUME evaluate' # "student" /\ ~orphaned'
         PROVE  DefaultKept' /\ LastObeyed' /\ BestObeyed' /\ \A u \in Threads : OnlyOne(u)'
    <3>1. BestObeyed /\ (\A u \in Threads : OnlyOne(u))
      BY <1>2, <2>10 DEF Order, evaluate
    <3>2. DefaultKept'
      BY <1>3, <2>2, <2>5 DEF DefaultKept, Exists
    <3>3. LastObeyed'
      <4>1. \A u \in Kept : u <= s
        BY <1>3 DEF Order, NewestBusy, Kept, Exists, Inserted
      <4> QED
        BY <1>3, <2>5, <2>6, <4>1 DEF LastObeyed
    <3>4. BestObeyed'
      <4> SUFFICES ASSUME evaluate = "best" PROVE \A u \in Done : doc[u].grade <= task'.grade
        BY <1>2, <1>6, <2>2, <2>6, <2>8 DEF BestObeyed, evaluate
      <4>1. \A u \in Done : u \in Subs /\ doc[u].grade \in Nat
        BY DEF Done, Parts, DocType
      <4>2. task.grade <= e.grade /\ task.grade \in Nat /\ e.grade \in Nat
        BY <1>3, <2>1, <2>2, <2>4, <3>1 DEF BestObeyed, Parts, TaskType, DocType
      <4>3. \A u \in Done : doc[u].grade <= task.grade \/ u = s
        BY <1>5, <3>1, <4>1 DEF BestObeyed
      <4> QED
        BY <2>4, <2>5, <4>1, <4>2, <4>3
    <3> QED
      BY <1>2, <2>2, <2>6, <3>1, <3>2, <3>3, <3>4 DEF OnlyOne, Selecting
  <2> QED
    BY <1>10, <2>7, <2>8, <2>9, <2>10 DEF Order
<1> QED
  BY <1>8, <1>11, <1>12, <1>13 DEF Callback

LEMMA SegmentStep == Parts /\ Cared /\ Tidy /\ Segment /\ [Next]_vars => Segment'
<1> SUFFICES ASSUME Parts, Cared, Tidy, Segment, [Next]_vars PROVE Segment'
  OBVIOUS
<1>1. ASSUME \A s \in Subs : doc'[s].status # "none" <=> doc[s].status # "none"
      PROVE  Segment'
  BY <1>1 DEF Segment, Inserted
<1>2. ASSUME NEW n \in Subs, NextSub(n), doc'[n].status # "none", \A s \in Subs : s # n => doc'[s] = doc[s]
      PROVE  Segment'
  <2>1. Inserted' = Inserted \cup {n}
    BY <1>2 DEF Inserted
  <2>2. \A u \in Subs : u < n => u \in Inserted
    BY <1>2 DEF NextSub, Inserted, Subs
  <2> QED
    BY <2>1, <2>2 DEF Segment
<1>3. ASSUME NEW t \in Threads, Insert(t) PROVE Segment'
  <2>1. PICK n \in Subs : NextSub(n) /\ doc' = [doc EXCEPT ![n].status = "waiting"]
    BY <1>3 DEF Insert
  <2>2. doc'[n].status # "none" /\ \A s \in Subs : s # n => doc'[s] = doc[s]
    BY <2>1 DEF Parts, DocType
  <2> QED
    BY <1>2, <2>1, <2>2
<1>4. ASSUME NEW t \in Threads, ReplayCopy(t) PROVE Segment'
  <2>1. PICK n \in Subs, o \in Outcomes : NextSub(n) /\ doc' = [doc EXCEPT ![n] = Finished(o)]
    BY <1>4 DEF ReplayCopy
  <2>2. doc'[n].status # "none" /\ \A s \in Subs : s # n => doc'[s] = doc[s]
    BY <2>1 DEF Parts, Finished
  <2> QED
    BY <1>2, <2>1, <2>2
<1>5. ASSUME NEW t \in Threads, Serve(t), ~Insert(t) PROVE Segment'
  <2> SUFFICES ASSUME NEW s \in Subs, doc[s].status = "none" PROVE doc'[s].status = "none"
    BY <1>1, <1>5, ServeSteady DEF Steady
  <2>1. CASE Launch(t)
    <3>1. s \notin thread[t].remove
      BY DEF Cared, Careful, Tidy
    <3> QED
      BY <2>1, <3>1 DEF Launch
  <2>2. CASE Overwrite(t)
    <3>1. doc' = doc \/ (Exists(thread[t].sub) /\ \E d : doc' = [doc EXCEPT ![thread[t].sub] = d])
      BY <2>2 DEF Overwrite
    <3> QED
      BY <3>1 DEF Exists, Parts
  <2>3. CASE StoreJobId(t)
    <3>1. doc' = doc \/ doc' = [doc EXCEPT ![thread[t].sub].jobid = IdOf(thread[t].job)]
      BY <2>3 DEF StoreJobId
    <3> QED
      BY <3>1 DEF Parts, DocType
  <2>4. CASE List(t) \/ ReadSelected(t) \/ WriteSelected(t)
    BY <2>4 DEF List, ReadSelected, WriteSelected, database
  <2> QED
    BY <1>5, <2>1, <2>2, <2>3, <2>4 DEF Serve
<1>6. ASSUME NEW t \in Threads, Start(t), ~ReplayCopy(t) PROVE Segment'
  <2>1. doc' = doc
    BY <1>6 DEF Start, Post, Replay, Check, Select, database
  <2> QED
    BY <1>1, <2>1
<1>7. ASSUME NEW j \in Jobs, Callback(j) PROVE Segment'
  <2>1. doc' = doc \/ (Exists(job[j].sub) /\ \E o : doc' = [doc EXCEPT ![job[j].sub] = Finished(o)])
    BY <1>7 DEF Callback, StoreResult, CountNew, CountReplay, CountDeleted, SetEvaluation, database
  <2>2. \A o : Finished(o).status # "none"
    BY DEF Finished
  <2>3. ASSUME NEW s \in Subs PROVE doc'[s].status # "none" <=> doc[s].status # "none"
    BY <2>1, <2>2 DEF Exists, Parts
  <2> QED
    BY <1>1, <2>3
<1>8. CASE Restart
  <2>1. \A s \in Subs : doc'[s] = doc[s] \/ (doc[s].status = "waiting" /\ doc'[s].status = "error")
    BY <1>8 DEF Restart, Waiting, Blank
  <2> QED
    BY <1>1, <2>1
<1>9. CASE UNCHANGED vars
  BY <1>1, <1>9 DEF vars, database
<1> QED
  BY <1>3, <1>4, <1>5, <1>6, <1>7, <1>8, <1>9 DEF Next

LEMMA OrderStep == OrderInv /\ [Next]_vars => OrderInv'
<1> SUFFICES ASSUME OrderInv, [Next]_vars PROVE OrderInv'
  OBVIOUS
<1>1. Parts /\ Cared /\ Tidy /\ OneAtATime /\ CacheInv /\ Segment
  BY PartsOfType DEF OrderInv, CacheInv, LifeInv
<1>2. CacheInv' /\ Segment'
  BY <1>1, CacheStep, SegmentStep
<1>3. ASSUME Orderly' PROVE Order'
  <2>1. ASSUME restarts' = restarts, overlap => overlap', replayed \subseteq replayed'
        PROVE  Orderly /\ Order /\ Cache
    BY <1>3, <2>1 DEF Orderly, OrderInv, CacheInv, Fine
  <2>2. CASE UNCHANGED vars
    <3>1. Orderly /\ Order
      BY <2>1, <2>2 DEF vars, history
    <3>2. Uncounted' = Uncounted
      BY <2>2 DEF vars, Uncounted
    <3>3. evaluate # "student" /\ ~orphaned => \A t \in Threads : OnlyOne(t)'
      BY <2>2, <3>1 DEF Order, vars, database, history, OnlyOne, Selecting, Inserted
    <3> QED
      BY <1>1, <2>2, <3>1, <3>2, <3>3, OrderFrame DEF vars, database, history, Order, WithinLimit
  <2>3. ASSUME NEW t \in Threads, Start(t) PROVE Order'
    <3>1. Orderly /\ Order
      BY <2>1, <2>3 DEF Start, Post, Replay, ReplayCopy, Check, Select
    <3> QED
      BY <1>1, <1>3, <2>3, <3>1, StartOrder
  <2>4. ASSUME NEW t \in Threads, Serve(t) PROVE Order'
    <3>1. restarts' = restarts
      BY <2>4 DEF Serve, Insert, List, Launch, StoreJobId, Overwrite, ReadSelected, WriteSelected
    <3>2. Orderly /\ Order
      BY <1>1, <2>1, <2>4, <3>1, ServeMoves
    <3> QED
      BY <1>1, <1>3, <2>4, <3>2, InsertOrder, LaunchOrder, ServeOrder, WriteSelectedOrder DEF Serve
  <2>5. ASSUME NEW j \in Jobs, Callback(j) PROVE Order'
    <3>1. restarts' = restarts /\ (overlap => overlap') /\ replayed \subseteq replayed'
      BY <2>5 DEF Callback, StoreResult, CountNew, CountReplay, CountDeleted, SetEvaluation, history
    <3> QED
      BY <1>1, <2>1, <2>5, <3>1, CallbackOrder
  <2>6. CASE Restart
    BY <1>1, <1>3, <2>6 DEF Restart, Orderly, CacheInv
  <2> QED
    BY <2>2, <2>3, <2>4, <2>5, <2>6 DEF Next
<1> QED
  BY <1>2, <1>3 DEF OrderInv

LEMMA InitOrder == Init => OrderInv
<1> SUFFICES ASSUME Init PROVE OrderInv
  OBVIOUS
<1>1. /\ task = [tried |-> 0, grade |-> 0, succeeded |-> FALSE, sub |-> 0]
      /\ \A j \in Jobs : job[j].phase = "none"
      /\ \A t \in Threads : thread[t].pc = "idle"
      /\ \A s \in Subs : doc[s].status = "none"
  BY DEF Init, NoJob, Idle, Blank
<1>2. Inserted = {} /\ Kept = {} /\ Done = {} /\ Uncounted = {} /\ ~AttemptPending
  BY <1>1 DEF Inserted, Kept, Exists, Done, Uncounted, AttemptPending
<1>3. \A s \in Subs : ~Busy(s)
  BY <1>1, <1>2 DEF Busy, BeingAdded, BeingCounted
<1>4. Cardinality(Inserted) = 0
  BY <1>2, FS_EmptySet
<1>5. Limit \in Nat
  BY InitType, SubmissionsAssumption DEF Limit, TypeOK
<1>6. NewestBusy /\ (\A j \in Jobs : HeldResult(j)) /\ Counted /\ WithinLimit
  BY <1>1, <1>2, <1>3, <1>4, <1>5 DEF NewestBusy, HeldResult, Counted, WithinLimit
<1>7. DefaultKept /\ (\A t \in Threads : OnlyOne(t)) /\ LastObeyed /\ BestObeyed
  BY <1>1, <1>2 DEF DefaultKept, OnlyOne, Selecting, LastObeyed, BestObeyed
<1> QED
  BY <1>2, <1>6, <1>7, InitCache DEF OrderInv, Order, Segment

\* When submissions come one after the other, the one used for evaluation is what
\* get_evaluate tells, the last one or one that no other exceeds, and no more of
\* them than the limit are accepted, whatever is deleted meanwhile.
THEOREM OrderObeyed == Spec => []SettingsObeyed
<1>1. OrderInv => SettingsObeyed
  <2> SUFFICES ASSUME OrderInv, Orderly PROVE SettingsObeyed
    BY DEF SettingsObeyed
  <2>1. Order
    BY DEF OrderInv
  <2>2. Limit > 0 => Cardinality(Inserted) <= Limit
    BY <2>1 DEF Order, WithinLimit
  <2>3. ASSUME Quiet, ~orphaned, Kept # {}
        PROVE  CASE evaluate = "last" -> task.sub = Max(Kept)
                 [] evaluate = "best" -> \A s \in Done : doc[s].grade <= task.grade
                 [] OTHER             -> TRUE
    <3>1. (\A s \in Subs : ~Busy(s)) /\ \A s \in Subs : ~BeingCounted(s)
      BY <2>3 DEF Quiet, Busy, BeingAdded, BeingCounted
    <3>2. CASE evaluate = "last"
      <4>1. LastObeyed
        BY <2>1, <2>3, <3>2 DEF Order
      <4>2. task.sub \in Kept /\ \A u \in Kept : u <= task.sub
        BY <2>3, <3>1, <3>2, <4>1 DEF LastObeyed
      <4>3. Kept \subseteq Int
        BY DEF Kept, Subs
      <4>4. Max(Kept) \in Kept /\ \A u \in Kept : Max(Kept) >= u
        BY <4>2, <4>3 DEF Max
      <4>5. task.sub = Max(Kept)
        <5>1. PICK m : m = Max(Kept)
          OBVIOUS
        <5>2. m \in Int /\ task.sub \in Int /\ m >= task.sub /\ task.sub >= m
          BY <4>2, <4>3, <4>4, <5>1
        <5>3. m = task.sub
          BY <5>2
        <5> QED
          BY <5>1, <5>3
      <4> QED
        BY <3>2, <4>5
    <3>3. CASE evaluate = "best"
      <4>1. BestObeyed
        BY <2>1, <2>3, <3>3 DEF Order
      <4>2. \A s \in Done : doc[s].grade <= task.grade
        BY <3>1, <3>3, <4>1 DEF BestObeyed, Done
      <4> QED
        BY <3>3, <4>2
    <3> QED
      BY <3>2, <3>3
  <2> QED
    BY <2>2, <2>3 DEF SettingsObeyed, Inserted
<1> QED
  BY <1>1, InitOrder, OrderStep, PTL DEF Spec

-----------------------------------------------------------------------------
(* The best submission survives.                                            *)

\* Without replays no request is about to delete the best submission, whatever
\* has been inserted, graded and deleted since the request made its list.
BestSpared ==
    evaluate = "best" /\ replayed = {} =>
      \A t \in Threads : thread[t].pc = "listed" => thread[t].remove \cap BestOf(Done) = {}

BestInv == LifeInv /\ BestSpared

\* A submission that is best now and was done before, among at least the same
\* ones, was best before.
LEMMA BestBefore ==
    ASSUME Parts, NEW b \in BestOf(Done)', b \in Done, Done \subseteq Done',
           \A s \in Done : doc'[s].grade = doc[s].grade
    PROVE  b \in BestOf(Done)
BY DEF BestOf

\* No request lists the best submission ...
LEMMA ListSpares ==
    ASSUME evaluate = "best"
    PROVE  Exceeding \cap BestOf(Done) = {}
<1>1. BestOf(Done) \subseteq AlwaysKept
  BY DEF AlwaysKept
<1> QED
  BY <1>1 DEF Exceeding

\* ... and the first of the best ones is one.
LEMMA BestIsThere ==
    ASSUME Parts, Done # {}
    PROVE  \E b \in BestOf(Done) : \A s \in Done : doc[s].grade <= doc[b].grade
<1> DEFINE g == [s \in Subs |-> doc[s].grade]
<1>1. MaxJobs \in Nat /\ Done \in SUBSET (1 .. MaxJobs)
  BY SubmissionsAssumption DEF Done, Subs
<1>2. \A s \in Done : g[s] = doc[s].grade /\ doc[s].grade \in Nat
  BY DEF Done, Parts, DocType
<1>3. PICK b \in Done : \A s \in Done : g[s] < g[b] \/ (g[s] = g[b] /\ b <= s)
  <2> HIDE DEF g
  <2> QED
    BY <1>1, <1>2, BestExists
<1>4. ASSUME NEW s \in Done PROVE doc[s].grade <= doc[b].grade /\ (doc[s].grade = doc[b].grade => b <= s)
  <2>1. /\ g[s] = doc[s].grade /\ doc[s].grade \in Nat /\ g[b] = doc[b].grade /\ doc[b].grade \in Nat
        /\ s \in Nat /\ b \in Nat
    BY <1>1, <1>2
  <2>2. g[s] < g[b] \/ (g[s] = g[b] /\ b <= s)
    BY <1>3
  <2> HIDE DEF g
  <2> QED
    BY <2>1, <2>2
<1> QED
  BY <1>4 DEF BestOf

\* A step that changes no submission that is done, deletes none, and makes no
\* list spares the best one.
LEMMA SparedFrame ==
    ASSUME Parts, BestSpared, setting' = setting, replayed \subseteq replayed',
           Done' = Done, \A s \in Done : doc'[s].grade = doc[s].grade,
           \A t \in Threads : thread'[t].pc = "listed" => thread[t].pc = "listed" /\ thread'[t].remove = thread[t].remove
    PROVE  BestSpared'
<1>1. \A b \in BestOf(Done)' : b \in BestOf(Done)
  <2> SUFFICES ASSUME NEW b \in BestOf(Done)' PROVE b \in BestOf(Done)
    OBVIOUS
  <2>1. b \in Done
    BY DEF BestOf
  <2> QED
    BY <2>1, BestBefore
<1> QED
  BY <1>1 DEF BestSpared, evaluate

\* What changes in the collection and the lists, in one step of a request ...
LEMMA LaunchSpares ==
    ASSUME Parts, Cared, BestSpared, NEW t \in Threads, Launch(t)
    PROVE  BestSpared'
<1> SUFFICES ASSUME evaluate = "best", replayed = {} PROVE BestSpared'
  BY DEF BestSpared, evaluate, Launch
<1> DEFINE gone == thread[t].remove
<1>1. doc' = [s \in Subs |-> IF s \in gone THEN [Blank EXCEPT !.status = "deleted"] ELSE doc[s]]
  BY DEF Launch
<1>2. Done' = Done \ gone /\ \A s \in Done' : doc'[s] = doc[s]
  BY <1>1 DEF Done, Blank
<1>3. thread[t].pc = "listed" /\ gone \cap BestOf(Done) = {}
  BY DEF BestSpared, Launch
<1>4. \A u \in Threads : thread'[u].pc = "listed" => thread'[u] = thread[u]
  <2>1. PICK j \in Jobs : thread' = [thread EXCEPT ![t].job = j, ![t].pc = "launched"]
    BY DEF Launch
  <2> QED
    BY <2>1 DEF Parts, ThreadType
<1>5. ASSUME NEW b \in BestOf(Done)' PROVE b \in BestOf(Done)
  <2>1. b \in Done' /\ b \in Done
    BY <1>2, <1>5 DEF BestOf
  <2>2. PICK c \in BestOf(Done) : \A s \in Done : doc[s].grade <= doc[c].grade
    BY <2>1, BestIsThere
  <2>3. c \in Done /\ c \in Done' /\ \A s \in Done : doc[s].grade = doc[c].grade => c <= s
    BY <1>2, <1>3, <2>2 DEF BestOf
  <2>4. doc[c].grade <= doc[b].grade /\ (doc[c].grade = doc[b].grade => b <= c)
    BY <1>2, <1>5, <2>1, <2>3 DEF BestOf
  <2>5. doc[b].grade <= doc[c].grade /\ doc[b].grade \in Nat /\ doc[c].grade \in Nat /\ b \in Nat /\ c \in Nat
    BY <2>1, <2>2, <2>3 DEF Done, Parts, DocType, Subs
  <2>6. doc[b].grade = doc[c].grade
    BY <2>4, <2>5
  <2>7. b = c
    BY <2>1, <2>3, <2>4, <2>5, <2>6
  <2> QED
    BY <2>2, <2>7
<1> QED
  BY <1>4, <1>5 DEF BestSpared, evaluate, Launch

LEMMA ServeSpares ==
    ASSUME Parts, Cared, BestSpared, NEW t \in Threads, Serve(t)
    PROVE  BestSpared'
<1> SUFFICES ASSUME evaluate = "best", replayed = {} PROVE BestSpared'
  <2>1. setting' = setting /\ replayed' = replayed
    BY DEF Serve, Insert, List, Launch, StoreJobId, Overwrite, ReadSelected, WriteSelected, history
  <2> QED
    BY <2>1 DEF BestSpared, evaluate
<1>0. thread \in [Threads -> ThreadType] /\ doc \in [Subs -> DocType]
  BY DEF Parts
<1>1. CASE Insert(t)
  <2>1. PICK s \in Subs : /\ NextSub(s) /\ doc' = [doc EXCEPT ![s].status = "waiting"]
                          /\ thread' = [thread EXCEPT ![t].sub = s, ![t].pc = "inserted"]
    BY <1>1 DEF Insert
  <2>2. doc[s].status = "none" /\ setting' = setting /\ replayed' = replayed
    BY <1>1, <2>1 DEF Insert, NextSub
  <2>3. Done' = Done /\ \A u \in Done : doc'[u].grade = doc[u].grade
    BY <1>0, <2>1, <2>2 DEF Done, DocType
  <2>4. \A u \in Threads : thread'[u].pc = "listed" => thread'[u] = thread[u]
    BY <1>0, <2>1 DEF ThreadType
  <2> QED
    BY <2>2, <2>3, <2>4, SparedFrame
<1>2. CASE List(t)
  <2>1. /\ thread' = [thread EXCEPT ![t].remove = Exceeding, ![t].pc = "listed"]
        /\ setting' = setting /\ doc' = doc /\ replayed' = replayed
    BY <1>2 DEF List, database, history
  <2>2. \A u \in Threads : u # t => thread'[u] = thread[u]
    BY <1>0, <2>1
  <2>3. thread'[t].remove = Exceeding
    BY <1>0, <2>1 DEF ThreadType
  <2>4. BestOf(Done)' = BestOf(Done)
    BY <2>1 DEF BestOf, Done
  <2>5. \A u \in Threads : thread'[u].pc = "listed" => thread'[u].remove \cap BestOf(Done) = {}
    BY <2>2, <2>3, ListSpares DEF BestSpared
  <2> QED
    BY <2>4, <2>5 DEF BestSpared
<1>3. CASE Launch(t)
  BY <1>3, LaunchSpares
<1>4. CASE StoreJobId(t)
  <2>1. doc' = doc \/ doc' = [doc EXCEPT ![thread[t].sub].jobid = IdOf(thread[t].job)]
    BY <1>4 DEF StoreJobId
  <2>2. \A s \in Subs : doc'[s].status = doc[s].status /\ doc'[s].grade = doc[s].grade
    BY <1>0, <2>1 DEF DocType
  <2>3. Done' = Done /\ \A s \in Done : doc'[s].grade = doc[s].grade
    BY <2>2 DEF Done
  <2>4. thread' = [thread EXCEPT ![t] = Idle] /\ setting' = setting /\ replayed' = replayed
    BY <1>4 DEF StoreJobId, Reply, history
  <2>5. \A u \in Threads : thread'[u].pc = "listed" => thread'[u] = thread[u]
    BY <1>0, <2>4 DEF Idle
  <2> QED
    BY <2>3, <2>4, <2>5, SparedFrame
<1>5. CASE Overwrite(t)
  <2>1. thread[t].sub \in replayed
    BY <1>5 DEF Overwrite, Cared, Careful
  <2> QED
    BY <2>1
<1>6. CASE ReadSelected(t) \/ WriteSelected(t)
  <2>1. setting' = setting /\ doc' = doc /\ replayed' = replayed /\ thread[t].pc \in {"missing", "select"}
    BY <1>6 DEF ReadSelected, WriteSelected, database, history
  <2>2. \/ thread' = [thread EXCEPT ![t] = Idle]
        \/ \E e : thread' = [thread EXCEPT ![t].set = {e}]
    BY <1>6 DEF ReadSelected, WriteSelected, Reply
  <2>3. \A u \in Threads : thread'[u].pc = "listed" => thread'[u] = thread[u]
    BY <1>0, <2>1, <2>2 DEF Idle, ThreadType
  <2>4. Done' = Done
    BY <2>1 DEF Done
  <2> QED
    BY <2>1, <2>3, <2>4, SparedFrame
<1> QED
  BY <1>1, <1>2, <1>3, <1>4, <1>5, <1>6 DEF Serve

\* ... and of a callback: a submission that gets a result was waiting, and nobody
\* has listed it.
LEMMA CallbackSpares ==
    ASSUME Parts, Cared, BestSpared, NEW j \in Jobs, Callback(j)
    PROVE  BestSpared'
<1>0. setting' = setting /\ replayed' = replayed /\ thread' = thread
  BY DEF Callback, StoreResult, CountNew, CountReplay, CountDeleted, SetEvaluation, database, history
<1> SUFFICES ASSUME evaluate = "best", replayed = {} PROVE BestSpared'
  BY <1>0 DEF BestSpared, evaluate
<1>1. CASE doc' = doc
  <2>1. Done' = Done
    BY <1>1 DEF Done
  <2> QED
    BY <1>0, <1>1, <2>1, SparedFrame
<1>2. CASE doc' # doc
  <2>1. StoreResult(j)
    BY <1>2 DEF Callback, CountNew, CountReplay, CountDeleted, SetEvaluation, database
  <2> DEFINE s == job[j].sub
  <2>2. PICK o : doc' = [doc EXCEPT ![s] = Finished(o)]
    BY <1>2, <2>1 DEF StoreResult
  <2>3. s \in Subs /\ doc[s].status = "waiting"
    <3>1. job[j].phase = "sent" /\ s \in Subs
      BY <2>1 DEF StoreResult, Parts, JobType, JobSet
    <3>2. j \in Running(s)
      BY <3>1 DEF Running
    <3> QED
      BY <3>1, <3>2 DEF Cared, Care
  <2>4. \A u \in Subs : u # s => doc'[u] = doc[u]
    BY <2>2 DEF Parts
  <2>5. Done \subseteq Done' /\ \A u \in Done : doc'[u].grade = doc[u].grade
    BY <2>3, <2>4 DEF Done
  <2>6. \A u \in Done' : u \in Done \/ u = s
    BY <2>4 DEF Done
  <2>7. \A t \in Threads : s \notin thread[t].remove
    BY <2>3 DEF Cared, Careful
  <2>8. ASSUME NEW b \in BestOf(Done)', b # s PROVE b \in BestOf(Done)
    <3>1. b \in Done
      BY <2>6, <2>8 DEF BestOf
    <3> QED
      BY <2>5, <3>1, BestBefore
  <2> QED
    BY <1>0, <2>7, <2>8 DEF BestSpared, evaluate
<1> QED
  BY <1>1, <1>2

LEMMA StartSpares ==
    ASSUME Parts, BestSpared, NEW t \in Threads, Start(t)
    PROVE  BestSpared'
<1>1. CASE Replay(t) \/ ReplayCopy(t)
  <2>1. replayed' # {}
    BY <1>1 DEF Replay, ReplayCopy
  <2> QED
    BY <2>1 DEF BestSpared
<1>2. CASE Post(t) \/ \E s \in Kept : Check(t, s) \/ Select(t, s)
  <2>1. setting' = setting /\ doc' = doc /\ replayed' = replayed
    BY <1>2 DEF Post, Check, Select, database
  <2>2. \/ thread' = [thread EXCEPT ![t] = Idle]
        \/ \E p \in {"checked", "missing", "select"} : thread' = [thread EXCEPT ![t].pc = p]
        \/ \E p \in {"missing", "select"} : \E s : thread' = [thread EXCEPT ![t].pc = p, ![t].sub = s]
    BY <1>2 DEF Post, Check, Select, Reply, Goto
  <2>3. \A u \in Threads : thread'[u].pc = "listed" => thread'[u] = thread[u]
    BY <2>2 DEF Parts, Idle, ThreadType
  <2>4. Done' = Done
    BY <2>1 DEF Done
  <2> QED
    BY <2>1, <2>3, <2>4, SparedFrame
<1> QED
  BY <1>1, <1>2 DEF Start

LEMMA BestInvStep == BestInv /\ [Next]_vars => BestInv'
<1> SUFFICES ASSUME BestInv, [Next]_vars PROVE BestSpared'
  BY LifeInvStep DEF BestInv
<1>0. Parts /\ Cared /\ BestSpared
  BY PartsOfType DEF BestInv, LifeInv
<1>1. CASE UNCHANGED vars
  BY <1>0, <1>1 DEF vars, database, history, BestSpared, BestOf, Done, evaluate
<1>2. CASE Restart
  <2>1. \A t \in Threads : thread'[t].pc # "listed"
    BY <1>2 DEF Restart, Idle
  <2> QED
    BY <2>1 DEF BestSpared
<1>3. ASSUME NEW t \in Threads, Start(t) \/ Serve(t) PROVE BestSpared'
  BY <1>0, <1>3, StartSpares, ServeSpares
<1>4. ASSUME NEW j \in Jobs, Callback(j) PROVE BestSpared'
  BY <1>0, <1>4, CallbackSpares
<1> QED
  BY <1>1, <1>2, <1>3, <1>4 DEF Next

\* A step leaves a submission as good as any that was done before.
BestKept == evaluate = "best" /\ replayed = {} =>
              \A s \in Done : \E u \in Subs : doc'[u].status = "done" /\ doc'[u].grade >= doc[s].grade

LEMMA BestKeptStep == BestInv /\ [Next]_vars => BestKept
<1> SUFFICES ASSUME BestInv, [Next]_vars, evaluate = "best", replayed = {}, NEW s \in Done
             PROVE  \E u \in Subs : doc'[u].status = "done" /\ doc'[u].grade >= doc[s].grade
  BY DEF BestKept
<1>0. Parts /\ Cared /\ BestSpared
  BY PartsOfType DEF BestInv, LifeInv
<1>1. s \in Subs /\ doc[s].status = "done" /\ doc[s].grade \in Nat
  BY <1>0 DEF Done, Parts, DocType
<1>2. CASE doc'[s].status = "done" /\ doc'[s].grade = doc[s].grade
  BY <1>1, <1>2
<1>3. ASSUME NEW t \in Threads, Launch(t)
      PROVE  \E u \in Subs : doc'[u].status = "done" /\ doc'[u].grade >= doc[s].grade
  <2>1. thread[t].remove \cap BestOf(Done) = {}
    BY <1>0, <1>3 DEF BestSpared, Launch
  <2>2. PICK b \in BestOf(Done) : \A u \in Done : doc[u].grade <= doc[b].grade
    BY <1>0, BestIsThere
  <2>3. b \in Subs /\ doc[b].status = "done" /\ doc[b].grade \in Nat /\ doc[s].grade <= doc[b].grade
    BY <1>0, <2>2 DEF BestOf, Done, Parts, DocType
  <2>4. doc'[b] = doc[b]
    BY <1>3, <2>1, <2>2, <2>3 DEF Launch
  <2> QED
    BY <1>1, <2>3, <2>4
<1>4. ASSUME NEW t \in Threads, Serve(t), ~Launch(t) PROVE doc'[s].status = "done" /\ doc'[s].grade = doc[s].grade
  <2>1. CASE Insert(t)
    <3>1. PICK n \in Subs : NextSub(n) /\ doc' = [doc EXCEPT ![n].status = "waiting"]
      BY <2>1 DEF Insert
    <3>2. n # s
      BY <1>1, <3>1 DEF NextSub
    <3> QED
      BY <1>0, <1>1, <3>1, <3>2 DEF Parts
  <2>2. CASE StoreJobId(t)
    <3>1. doc' = doc \/ doc' = [doc EXCEPT ![thread[t].sub].jobid = IdOf(thread[t].job)]
      BY <2>2 DEF StoreJobId
    <3> QED
      BY <1>0, <1>1, <3>1 DEF Parts, DocType
  <2>3. CASE Overwrite(t)
    <3>1. thread[t].sub \in replayed
      BY <1>0, <2>3 DEF Overwrite, Cared, Careful
    <3> QED
      BY <3>1
  <2>4. CASE List(t) \/ ReadSelected(t) \/ WriteSelected(t)
    <3>1. doc' = doc
      BY <2>4 DEF List, ReadSelected, WriteSelected, database
    <3> QED
      BY <1>1, <3>1
  <2> QED
    BY <1>4, <2>1, <2>2, <2>3, <2>4 DEF Serve
<1>5. ASSUME NEW t \in Threads, Start(t) PROVE doc'[s] = doc[s]
  <2>1. CASE ReplayCopy(t)
    <3>1. PICK n \in Subs : NextSub(n) /\ \E o \in Outcomes : doc' = [doc EXCEPT ![n] = Finished(o)]
      BY <2>1 DEF ReplayCopy
    <3>2. n # s
      BY <1>1, <3>1 DEF NextSub
    <3> QED
      BY <1>0, <1>1, <3>1, <3>2 DEF Parts
  <2>2. CASE ~ReplayCopy(t)
    BY <1>5, <2>2 DEF Start, Post, Replay, Check, Select, database
  <2> QED
    BY <2>1, <2>2
<1>6. ASSUME NEW j \in Jobs, Callback(j) PROVE doc'[s] = doc[s]
  <2>1. CASE StoreResult(j)
    <3>1. job[j].phase = "sent" /\ job[j].sub \in Subs
      BY <1>0, <2>1 DEF StoreResult, Parts, JobType, JobSet
    <3>2. doc[job[j].sub].status = "waiting"
      <4>1. j \in Running(job[j].sub)
        BY <3>1 DEF Running
      <4> QED
        BY <1>0, <3>1, <4>1 DEF Cared, Care
    <3>3. job[j].sub # s
      BY <1>1, <3>2
    <3>4. doc' = doc \/ \E o : doc' = [doc EXCEPT ![job[j].sub] = Finished(o)]
      BY <2>1 DEF StoreResult
    <3> QED
      BY <1>0, <1>1, <3>3, <3>4 DEF Parts
  <2>2. CASE ~StoreResult(j)
    BY <1>6, <2>2 DEF Callback, CountNew, CountReplay, CountDeleted, SetEvaluation, database
  <2> QED
    BY <2>1, <2>2
<1>7. CASE Restart
  <2>1. s \notin Waiting
    BY <1>1 DEF Waiting
  <2> QED
    BY <1>1, <1>2, <1>7, <2>1 DEF Restart
<1>8. CASE UNCHANGED vars
  BY <1>1, <1>2, <1>8 DEF vars, database
<1> QED
  BY <1>1, <1>2, <1>3, <1>4, <1>5, <1>6, <1>7, <1>8 DEF Next

\* Whatever a request read before other threads changed it, no step leaves the
\* user without a grade as good as the best one.
THEOREM BestAlwaysSurvives == Spec => BestSurvives
<1>1. Init => BestInv
  <2>1. Init => BestSpared
    BY DEF Init, BestSpared, Idle
  <2> QED
    BY <2>1, InitType, InitCared DEF BestInv, LifeInv
<1>2. BestInv /\ [Next]_vars =>
        [evaluate = "best" /\ replayed = {} =>
           \A s \in Done : \E u \in Subs : doc'[u].status = "done" /\ doc'[u].grade >= doc[s].grade]_vars
  BY BestKeptStep DEF BestKept
<1> QED
  BY <1>1, <1>2, BestInvStep, PTL DEF Spec, BestSurvives
=============================================================================
