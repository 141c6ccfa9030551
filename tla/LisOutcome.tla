----------------------------- MODULE LisOutcome -----------------------------
(***************************************************************************)
(* The transmission of grades to the LTI tool consumer                     *)
(* (frontend/lti/lis_outcome_manager.py).  What has to be sent is kept     *)
(* twice: in the collection lis_outcome_queue, which survives restarts,    *)
(* and in the memory queue of one worker thread, which posts the grades    *)
(* and tries again when a post fails.  The threads that end a job call     *)
(* add.                                                                    *)
(*                                                                         *)
(* An outcome is what add searches for: a user, a task and a result id of  *)
(* the consumer.  Only the age of a grade counts here: grade[o] numbers    *)
(* the grades of o in the order they are stored.                           *)
(***************************************************************************)
EXTENDS Naturals, Sequences, FiniteSets, SequencesExt

CONSTANTS
    Outcomes,
    MaxAttempt,     \* nb_attempt that ends the retries: 5
    MaxGrade,       \* bound: grades stored for each outcome
    MaxRestarts     \* bound: restarts of the frontend

ASSUME LisAssumption ==
    /\ IsFiniteSet(Outcomes)
    /\ {MaxAttempt, MaxRestarts} \subseteq Nat
    /\ MaxGrade \in [Outcomes -> Nat]

VARIABLES
    grade,      \* the last grade stored in the submissions of each outcome
    entry,      \* lis_outcome_queue: for each outcome, a set of one document at most
    ids,        \* documents created so far for each outcome: ids are not used twice
    adding,     \* where the call of add for each outcome is: "no", "update" or "queue"
    queue,      \* _queue
    worker,     \* where the worker thread is
    cursor,     \* the documents the worker has still to load at its start
    item,       \* the element the worker has taken from _queue, in a set
    toPost,     \* the grade it is about to post, 0 if there is none
    consumer,   \* the last grade the consumer got
    created,    \* history: the grade stored when the entry was created
    givenUp,    \* history: outcomes given up after too many attempts
    dropped,    \* history: outcomes whose grade could not be read, since the start
    overlap,    \* history: add has run before the worker had loaded everything
    posts,      \* history: posts for each outcome since the last add
    restarts

database == <<grade, entry, ids>>
memory == <<adding, queue, worker, cursor, item, toPost>>
history == <<created, givenUp, dropped, overlap, posts>>
vars == <<database, memory, consumer, history, restarts>>

\* A document of lis_outcome_queue, and an element of _queue
Document == [id : Nat, attempt : Nat]
Element == [outcome : Outcomes, id : Nat, attempt : Nat]

AsElement(o, d) == [outcome |-> o, id |-> d.id, attempt |-> d.attempt]

Init ==
    /\ grade = [o \in Outcomes |-> 0]
    /\ entry = [o \in Outcomes |-> {}]
    /\ ids = [o \in Outcomes |-> 0]
    /\ adding = [o \in Outcomes |-> "no"]
    /\ queue = <<>>
    /\ worker = "start"
    /\ cursor = {}
    /\ item = {}
    /\ toPost = 0
    /\ consumer = [o \in Outcomes |-> 0]
    /\ created = [o \in Outcomes |-> 0]
    /\ givenUp = {}
    /\ dropped = {}
    /\ overlap = FALSE
    /\ posts = [o \in Outcomes |-> 0]
    /\ restarts = 0

-----------------------------------------------------------------------------
\* _job_done_callback has stored the result of a job and calls add.
JobDone(o) ==
    /\ adding[o] = "no"
    /\ grade[o] < MaxGrade[o]
    /\ grade' = [grade EXCEPT ![o] = @ + 1]
    /\ adding' = [adding EXCEPT ![o] = "update"]
    /\ UNCHANGED <<entry, ids, queue, worker, cursor, item, toPost, consumer, history, restarts>>

\* Mutant of AddUpsert: a document is inserted whether there is one or not.
AddInsert(o) ==
    /\ adding[o] = "update"
    /\ entry' = [entry EXCEPT ![o] = @ \cup {[id |-> ids[o] + 1, attempt |-> 0]}]
    /\ ids' = [ids EXCEPT ![o] = @ + 1]
    /\ created' = [created EXCEPT ![o] = grade[o]]
    /\ adding' = [adding EXCEPT ![o] = "queue"]
    /\ givenUp' = givenUp \ {o}
    /\ posts' = [posts EXCEPT ![o] = 0]
    /\ overlap' = (overlap \/ worker \in {"start", "loading"})
    /\ UNCHANGED <<grade, queue, worker, cursor, item, toPost, consumer, dropped, restarts>>

\* Mutant of AddUpsert: the entry is queued even when it is not new.
AddAlways(o) ==
    /\ adding[o] = "update"
    /\ IF entry[o] = {}
       THEN /\ entry' = [entry EXCEPT ![o] = {[id |-> ids[o] + 1, attempt |-> 0]}]
            /\ ids' = [ids EXCEPT ![o] = @ + 1]
            /\ created' = [created EXCEPT ![o] = grade[o]]
       ELSE /\ entry' = [entry EXCEPT ![o] = {[d EXCEPT !.attempt = 0] : d \in @}]
            /\ UNCHANGED <<ids, created>>
    /\ adding' = [adding EXCEPT ![o] = "queue"]
    /\ givenUp' = givenUp \ {o}
    /\ posts' = [posts EXCEPT ![o] = 0]
    /\ overlap' = (overlap \/ worker \in {"start", "loading"})
    /\ UNCHANGED <<grade, queue, worker, cursor, item, toPost, consumer, dropped, restarts>>

\* add: find_one_and_update creates the entry, or resets its attempts.
AddUpsert(o) ==
    /\ adding[o] = "update"
    /\ IF entry[o] = {}
       THEN /\ entry' = [entry EXCEPT ![o] = {[id |-> ids[o] + 1, attempt |-> 0]}]
            /\ ids' = [ids EXCEPT ![o] = @ + 1]
            /\ created' = [created EXCEPT ![o] = grade[o]]
            /\ adding' = [adding EXCEPT ![o] = "queue"]
       ELSE /\ entry' = [entry EXCEPT ![o] = {[d EXCEPT !.attempt = 0] : d \in @}]
            /\ adding' = [adding EXCEPT ![o] = "no"]
            /\ UNCHANGED <<ids, created>>
    /\ givenUp' = givenUp \ {o}
    /\ posts' = [posts EXCEPT ![o] = 0]
    /\ overlap' = (overlap \/ worker \in {"start", "loading"})
    /\ UNCHANGED <<grade, queue, worker, cursor, item, toPost, consumer, dropped, restarts>>

\* add: the new entry is read back and queued.  It may be gone already, if
\* the worker has loaded it and sent its grade meanwhile: add raises.
AddQueue(o) ==
    /\ adding[o] = "queue"
    /\ adding' = [adding EXCEPT ![o] = "no"]
    /\ queue' = queue \o SetToSeq({AsElement(o, d) : d \in entry[o]})
    /\ UNCHANGED <<database, worker, cursor, item, toPost, consumer, history, restarts>>

-----------------------------------------------------------------------------
(* The worker thread.                                                       *)

\* find: the documents present are given one after the other.
StartLoading ==
    /\ worker = "start"
    /\ worker' = "loading"
    /\ cursor' = UNION {{AsElement(o, d) : d \in entry[o]} : o \in Outcomes}
    /\ UNCHANGED <<database, adding, queue, item, toPost, consumer, history, restarts>>

LoadOne ==
    /\ worker = "loading"
    /\ \E e \in cursor :
         /\ queue' = Append(queue, e)
         /\ cursor' = cursor \ {e}
    /\ UNCHANGED <<database, adding, worker, item, toPost, consumer, history, restarts>>

Loaded ==
    /\ worker = "loading" /\ cursor = {}
    /\ worker' = "idle"
    /\ UNCHANGED <<database, adding, queue, cursor, item, toPost, consumer, history, restarts>>

\* The next element is taken and its grade read.
Take ==
    /\ worker = "idle" /\ queue # <<>>
    /\ queue' = Tail(queue)
    /\ item' = {Head(queue)}
    /\ toPost' = grade[Head(queue).outcome]
    /\ worker' = "post"
    /\ UNCHANGED <<database, adding, cursor, consumer, history, restarts>>

\* The grade cannot be read: the element is dropped, its entry stays.
Drop ==
    /\ worker = "idle" /\ queue # <<>>
    /\ queue' = Tail(queue)
    /\ dropped' = dropped \cup {Head(queue).outcome}
    /\ UNCHANGED <<database, adding, worker, cursor, item, toPost, consumer>>
    /\ UNCHANGED <<created, givenUp, overlap, posts, restarts>>

\* post_message: the grade reaches the consumer or not; an answer that is
\* lost is a failure too.
Post(arrives, succeeds) ==
    /\ worker = "post"
    /\ succeeds => arrives
    /\ \E e \in item :
         /\ consumer' = IF arrives THEN [consumer EXCEPT ![e.outcome] = toPost] ELSE consumer
         /\ posts' = [posts EXCEPT ![e.outcome] = @ + 1]
    /\ worker' = IF succeeds THEN "posted" ELSE "failed"
    /\ toPost' = 0
    /\ UNCHANGED <<database, adding, queue, cursor, item>>
    /\ UNCHANGED <<created, givenUp, dropped, overlap, restarts>>

\* Mutant of Delete: the document is not looked for by its id.
DeleteAny(e) == [entry EXCEPT ![e.outcome] = {}]

\* entry after a document is deleted by its id
Delete(e) == [entry EXCEPT ![e.outcome] = {d \in @ : d.id # e.id}]

\* The grade was sent: the entry is deleted.
DeletePosted ==
    /\ worker = "posted"
    /\ \E e \in item : entry' = Delete(e)
    /\ worker' = "idle"
    /\ item' = {}
    /\ UNCHANGED <<grade, ids, adding, queue, cursor, toPost, consumer, history, restarts>>

\* Mutant of Retry: the attempt is not counted in the database.
RetryUncounted ==
    /\ worker = "failed"
    /\ \E e \in item :
         /\ e.attempt < MaxAttempt
         /\ \E d \in entry[e.outcome] : d.id = e.id
         /\ queue' = Append(queue, e)
    /\ worker' = "idle"
    /\ item' = {}
    /\ UNCHANGED <<database, adding, cursor, toPost, consumer, history, restarts>>

\* Mutant of Retry: the element is not queued again.
RetryForgotten ==
    /\ worker = "failed"
    /\ \E e \in item :
         /\ e.attempt < MaxAttempt
         /\ entry' = [entry EXCEPT ![e.outcome] = {[d EXCEPT !.attempt = @ + 1] : d \in @}]
    /\ worker' = "idle"
    /\ item' = {}
    /\ UNCHANGED <<grade, ids, adding, queue, cursor, toPost, consumer, history, restarts>>

\* _increment_attempt: find_one_and_update gives the document as it was
\* before the increment, and this is what is queued again.
Retry ==
    /\ worker = "failed"
    /\ \E e \in item :
         /\ e.attempt < MaxAttempt
         /\ \E d \in entry[e.outcome] :
              /\ d.id = e.id
              /\ queue' = Append(queue, AsElement(e.outcome, d))
         /\ entry' = [entry EXCEPT ![e.outcome] = {[d EXCEPT !.attempt = @ + 1] : d \in @}]
    /\ worker' = "idle"
    /\ item' = {}
    /\ UNCHANGED <<grade, ids, adding, cursor, toPost, consumer, history, restarts>>

\* The document is gone: queueing None raises, outside of any try that
\* catches it, and the thread ends.
RetryGone ==
    /\ worker = "failed"
    /\ \E e \in item :
         /\ e.attempt < MaxAttempt
         /\ \A d \in entry[e.outcome] : d.id # e.id
    /\ worker' = "dead"
    /\ item' = {}
    /\ UNCHANGED <<database, adding, queue, cursor, toPost, consumer, history, restarts>>

GiveUp ==
    /\ worker = "failed"
    /\ \E e \in item :
         /\ e.attempt >= MaxAttempt
         /\ entry' = Delete(e)
         /\ givenUp' = givenUp \cup {e.outcome}
    /\ worker' = "idle"
    /\ item' = {}
    /\ UNCHANGED <<grade, ids, adding, queue, cursor, toPost, consumer>>
    /\ UNCHANGED <<created, dropped, overlap, posts, restarts>>

Work ==
    \/ StartLoading \/ LoadOne \/ Loaded
    \/ Take
    \/ \E arrives, succeeds \in BOOLEAN : Post(arrives, succeeds)
    \/ DeletePosted \/ Retry \/ RetryGone \/ GiveUp

-----------------------------------------------------------------------------
\* The frontend stops and starts again: only the database is kept.
Restart ==
    /\ restarts < MaxRestarts
    /\ restarts' = restarts + 1
    /\ adding' = [o \in Outcomes |-> "no"]
    /\ queue' = <<>>
    /\ worker' = "start"
    /\ cursor' = {}
    /\ item' = {}
    /\ toPost' = 0
    /\ dropped' = {}
    /\ UNCHANGED <<database, consumer, created, givenUp, overlap, posts>>

Add(o) == AddUpsert(o) \/ AddQueue(o)

Next ==
    \/ \E o \in Outcomes : JobDone(o) \/ Add(o)
    \/ Work
    \/ Drop
    \/ Restart

Spec == Init /\ [][Next]_vars

-----------------------------------------------------------------------------
TypeOK ==
    /\ \A o \in Outcomes : {grade[o], consumer[o], created[o]} \subseteq 0..MaxGrade[o]
    /\ \A o \in Outcomes : entry[o] \subseteq Document /\ Cardinality(entry[o]) <= 1
    /\ ids \in [Outcomes -> Nat]
    /\ adding \in [Outcomes -> {"no", "update", "queue"}]
    /\ queue \in Seq(Element)
    /\ worker \in {"start", "loading", "idle", "post", "posted", "failed", "dead"}
    /\ cursor \subseteq Element
    /\ item \subseteq Element
    /\ item # {} <=> worker \in {"post", "posted", "failed"}
    /\ toPost \in Nat
    /\ givenUp \subseteq Outcomes /\ dropped \subseteq Outcomes
    /\ overlap \in BOOLEAN
    /\ posts \in [Outcomes -> Nat]
    /\ restarts \in 0..MaxRestarts

\* The elements of _queue for the outcome o, and those about to be there
Queued(o) == {k \in DOMAIN queue : queue[k].outcome = o}
Elsewhere(o) == {e \in item \cup cursor : e.outcome = o}

\* The worker thread does not die, with the same exception: the document of
\* the element it tries again is always there.
ThreadSurvives == worker = "dead" => overlap

\* What the database holds is also in memory, and will be worked on: the two
\* queues agree, unless the grade could not be read since the last start.
InMemory ==
    \A o \in Outcomes : \A d \in entry[o] :
            \/ \E k \in Queued(o) : queue[k].id = d.id
            \/ \E e \in Elsewhere(o) : e.id = d.id
            \/ adding[o] = "queue"
            \/ worker = "start"
            \/ o \in dropped

\* An entry leaves the database when a grade at least as recent as its
\* creation has reached the consumer, or when it is given up; restarts,
\* retries and later calls of add notwithstanding.
CreatedIsSent ==
    \A o \in Outcomes : entry[o] = {} => consumer[o] >= created[o] \/ o \in givenUp

\* A grade is posted MaxAttempt + 2 times at most after the last call of add
\* (an element is queued again with the attempts its document had before the
\* failure), and once more for each restart.
AttemptsBounded ==
    ~overlap => \A o \in Outcomes : posts[o] <= MaxAttempt + 2 + restarts

-----------------------------------------------------------------------------
(* Fairness.  The worker thread and the threads that call add go on; that   *)
(* a job ends, that a grade cannot be read, that a post fails and that the  *)
(* frontend restarts is left to chance.                                     *)
Fairness == WF_vars(Work) /\ \A o \in Outcomes : WF_vars(Add(o))

FairSpec == Spec /\ Fairness

\* Every entry is settled in the end: its grade is sent, or given up after
\* too many failures.
EventuallySettled ==
    \A o \in Outcomes :
        entry[o] # {} ~> entry[o] = {} \/ o \in dropped \/ worker = "dead"
=============================================================================
