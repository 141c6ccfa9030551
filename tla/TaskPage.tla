------------------------------ MODULE TaskPage ------------------------------
(***************************************************************************)
(* The page of a task in the browser of the user                           *)
(* (frontend/common/static/js/task.js, templates/task.html), with the      *)
(* server of Submissions behind it.                                        *)
(*                                                                         *)
(* The handlers of the page run one at a time, each in a step.  A call of  *)
(* jQuery.post or ajaxSubmit is sent, arrives when a thread begins to      *)
(* serve it, and is answered later, after others maybe; each may be lost.  *)
(* Of the form and of the alerts only the submission they are about is     *)
(* kept.                                                                   *)
(***************************************************************************)
EXTENDS Submissions

CONSTANTS
    MaxLoads,       \* bound: submissions being loaded at once
    MaxEvents       \* bound: openings of the page, selections, calls lost and restarts

ASSUME TaskPageAssumption == {MaxLoads, MaxEvents} \subseteq Nat

VARIABLES
    blurred,    \* loadingSomething: the form is disabled
    colour,     \* the items of #submissions, "none" for those not listed
    mine,       \* the item #my_submission, or 0
    status,     \* #task_status
    tries,      \* #task_tries
    timers,     \* the timeouts of waitForSubmission
    sent,       \* the calls to the server that are not answered
    loads,      \* loadOldSubmissionInput calls that are not answered
    form,       \* the submission whose input the form has given or been filled with, or 0
    alert,      \* the submission whose feedback is shown, or 0: none, waiting or an error
    openedOn,   \* the submission that init_task_page waits for, or 0
    opens,      \* times the page was opened
    selections, \* submissions selected so far
    failures,   \* calls lost so far
    stale       \* history: the page was told of a submission not counted yet

page == <<blurred, colour, mine, status, tries, timers, sent, loads, form, alert, openedOn, opens, selections, failures, stale>>
display == <<form, alert>>
allVars == <<vars, page>>

NoCall == [op |-> "none", sub |-> 0, arrived |-> FALSE]

PageInit ==
    /\ Init
    /\ blurred = FALSE
    /\ colour = [s \in Subs |-> "none"]
    /\ mine = 0
    /\ status = "none"
    /\ tries = 0
    /\ timers = {}
    /\ sent = [t \in Watched |-> NoCall]
    /\ loads = {}
    /\ form = 0
    /\ alert = 0
    /\ openedOn = 0
    /\ opens = 0
    /\ selections = 0
    /\ failures = 0
    /\ stale = FALSE

Listed == {s \in Subs : colour[s] # "none"}
Polled == timers \cup {sent[t].sub : t \in {u \in Watched : sent[u].op = "check"}}

Events == opens + selections + failures + restarts

\* The alerts: the feedback of a submission, or something else.
ShowFeedback(s) == alert' = s
ShowNotice == alert' = 0

\* loadInput
FillForm(s) == form' = s

-----------------------------------------------------------------------------
(* Opening the page.                                                        *)

ColourOf(s) ==
    CASE doc[s].status = "done" /\ doc[s].result = "success" -> "success"
      [] doc[s].status = "waiting"                            -> "warning"
      [] doc[s].status = "error" \/ doc[s].result = "failed"  -> "danger"
      [] OTHER                                                -> "none"

EvalSubmission == {task.sub} \cap Kept

StatusOf ==
    CASE Kept = {}                                        -> "Not yet attempted"
      [] \E s \in EvalSubmission : ColourOf(s) = "success" -> "Succeeded"
      [] OTHER -> IF Waiting # {} THEN "Waiting" ELSE "Failed"

\* Mutant of Open: the page polls whatever it is.
OpenAndPoll ==
    /\ Events < MaxEvents
    /\ opens' = opens + 1
    /\ colour' = [s \in Subs |-> ColourOf(s)]
    /\ mine' = IF EvalSubmission = {} THEN 0 ELSE task.sub
    /\ status' = StatusOf
    /\ tries' = task.tried
    /\ openedOn' = IF Waiting = {} THEN 0 ELSE Max(Waiting)
    /\ timers' = {openedOn'}
    /\ blurred' = (Waiting # {})
    /\ loads' = {[sub |-> s, feedback |-> FALSE] : s \in {openedOn'} \ {0}}
    /\ FillForm(0) /\ ShowNotice
    /\ sent' = [t \in Watched |-> NoCall]
    /\ stale' = ~Quiet
    /\ UNCHANGED <<vars, selections, failures>>

\* The template is filled from the database.  init_task_page loads the newest
\* submission that waits and waits for it.  What the former page had asked is
\* of no use any more.
Open ==
    /\ Events < MaxEvents
    /\ opens' = opens + 1
    /\ colour' = [s \in Subs |-> ColourOf(s)]
    /\ mine' = IF EvalSubmission = {} THEN 0 ELSE task.sub
    /\ status' = StatusOf
    /\ tries' = task.tried
    /\ openedOn' = IF Waiting = {} THEN 0 ELSE Max(Waiting)
    /\ timers' = {openedOn'} \ {0}
    /\ blurred' = (Waiting # {})
    /\ loads' = {[sub |-> s, feedback |-> FALSE] : s \in {openedOn'} \ {0}}
    /\ FillForm(0) /\ ShowNotice
    /\ sent' = [t \in Watched |-> NoCall]
    /\ stale' = ~Quiet
    /\ UNCHANGED <<vars, selections, failures>>

-----------------------------------------------------------------------------
(* Calls.                                                                   *)

\* A thread is there to serve a new call.
Free(t) ==
    /\ opens > 0
    /\ sent[t] = NoCall /\ thread[t].pc = "idle" /\ answer[t] = NoAnswer

\* A call that meets a selection may leave the page as it should not be.
Send(t, op, s) ==
    /\ sent' = [sent EXCEPT ![t] = [op |-> op, sub |-> s, arrived |-> FALSE]]
    /\ stale' = (stale \/ \E u \in Watched : sent[u] # NoCall /\ "select" \in {op, sent[u].op})

\* Mutant of Submit: the form stays enabled.
SubmitUnblurred(t) ==
    /\ Free(t) /\ ~blurred
    /\ Room /\ \A u \in Watched : sent[u].op # "submit"
    /\ Send(t, "submit", 0)
    /\ status' = "Waiting"
    /\ ShowNotice
    /\ UNCHANGED <<vars, blurred, colour, mine, tries, timers, loads, form, openedOn, opens, selections, failures>>

\* submitTask
Submit(t) ==
    /\ Free(t) /\ ~blurred
    /\ Room /\ \A u \in Watched : sent[u].op # "submit"
    /\ Send(t, "submit", 0)
    /\ blurred' = TRUE
    /\ status' = "Waiting"
    /\ ShowNotice
    /\ UNCHANGED <<vars, colour, mine, tries, timers, loads, form, openedOn, opens, selections, failures>>

\* A second has passed.
Poll(t, s) ==
    /\ Free(t) /\ s \in timers
    /\ timers' = timers \ {s}
    /\ Send(t, "check", s)
    /\ UNCHANGED <<vars, blurred, colour, mine, status, tries, loads, display, openedOn, opens, selections, failures>>

\* clickOnSubmission, loadOldSubmissionInput
Load(s) ==
    /\ opens > 0 /\ ~blurred /\ s \in Listed /\ Cardinality(loads) < MaxLoads
    /\ loads' = loads \cup {[sub |-> s, feedback |-> TRUE]}
    /\ blurred' = TRUE
    /\ ShowNotice
    /\ UNCHANGED <<vars, colour, mine, status, tries, timers, sent, form, openedOn, opens, selections, failures, stale>>

StatusFrom(c, s) == IF c[s] = "success" THEN "Succeeded" ELSE "Failed"

\* selectSubmission: the status changes at once.
SelectClicked(t, s) ==
    /\ Events < MaxEvents
    /\ selections' = selections + 1
    /\ Free(t) /\ evaluate = "student" /\ s \in Listed
    /\ Send(t, "select", s)
    /\ status' = StatusFrom(colour, s)
    /\ UNCHANGED <<vars, blurred, colour, mine, tries, timers, loads, display, openedOn, opens, failures>>

\* The result of s is stored, and user_tasks not updated.
HalfCounted(s) == \E j \in Uncounted : job[j].phase # "sent" /\ job[j].sub = s

\* The server begins to serve the call of t.
Arrive(t) ==
    /\ ~sent[t].arrived
    /\ sent' = [sent EXCEPT ![t].arrived = TRUE]
    /\ \/ sent[t].op = "submit" /\ Post(t)
       \/ sent[t].op = "check"  /\ Check(t, sent[t].sub)
       \/ sent[t].op = "select" /\ Select(t, sent[t].sub)
    /\ stale' = (stale \/ (sent[t].op = "check" /\ HalfCounted(sent[t].sub)))
    /\ UNCHANGED <<blurred, colour, mine, status, tries, timers, loads, display, openedOn, opens, selections, failures>>

-----------------------------------------------------------------------------
(* Answers.                                                                 *)

\* The answer a to the call op of t is read.
Read(t, op, a) ==
    /\ sent[t].op = op /\ answer[t] = a
    /\ sent' = [sent EXCEPT ![t] = NoCall]
    /\ answer' = [answer EXCEPT ![t] = NoAnswer]
    /\ UNCHANGED <<setting, database, job, thread, replays, restarts, history, loads, openedOn, opens, selections>>

\* Mutant of SubmitAccepted: the ones removed leave the list first, and the
\* submission is not waited for when removeSubmission raises.
SubmitRemovingFirst(t) ==
    /\ answer[t].kind = "ok"
    /\ Read(t, "submit", answer[t])
    /\ LET s == answer[t].sub
           gone == answer[t].remove
           done == gone \subseteq Listed
       IN  /\ colour' = [u \in Subs |-> IF u = s THEN "warning" ELSE IF u \in gone THEN "none" ELSE colour[u]]
           /\ timers' = IF done THEN timers \cup {s} ELSE timers
           /\ FillForm(s)
    /\ tries' = tries + 1
    /\ ShowNotice
    /\ UNCHANGED <<blurred, mine, status, failures, stale>>

\* The submission is listed and waited for, then the ones removed leave the
\* list, in any order: removeSubmission raises at the first one not listed.
SubmitAccepted(t) ==
    /\ answer[t].kind = "ok"
    /\ Read(t, "submit", answer[t])
    /\ LET s == answer[t].sub
           here == answer[t].remove \cap Listed
       IN  /\ \E gone \in SUBSET here :
                /\ answer[t].remove \subseteq Listed => gone = here
                /\ colour' = [u \in Subs |-> IF u = s THEN "warning" ELSE IF u \in gone THEN "none" ELSE colour[u]]
           /\ timers' = timers \cup {s}
           /\ FillForm(s)
    /\ tries' = tries + 1
    /\ ShowNotice
    /\ UNCHANGED <<blurred, mine, status, failures, stale>>

\* Mutant of Fail: the form stays disabled.
FailSilently(t) ==
    /\ colour' = IF sent[t].op = "check" /\ sent[t].sub \in Listed
                 THEN [colour EXCEPT ![sent[t].sub] = "danger"] ELSE colour
    /\ ShowNotice
    /\ UNCHANGED <<status, blurred, form>>

\* What the page does when the call of t fails.
Fail(t) ==
    LET s == sent[t].sub
    IN  /\ colour' = IF sent[t].op = "check" /\ s \in Listed THEN [colour EXCEPT ![s] = "danger"] ELSE colour
        /\ status' = CASE sent[t].op = "submit" -> "Internal error"
                       [] sent[t].op = "check"  -> "Failed"
                       [] OTHER                 -> status
        /\ blurred' = (blurred /\ sent[t].op = "select")
        /\ IF sent[t].op = "select" THEN UNCHANGED alert ELSE ShowNotice
        /\ UNCHANGED form

Refused(t) ==
    /\ answer[t].kind \in {"fail", "error"} /\ sent[t] # NoCall
    /\ Read(t, sent[t].op, answer[t])
    /\ Fail(t)
    /\ UNCHANGED <<mine, tries, timers, failures, stale>>

\* Mutant of StillWaiting: the timeout is not set again.
WaitOnce(t) ==
    /\ answer[t].kind = "waiting"
    /\ Read(t, "check", answer[t])
    /\ UNCHANGED <<blurred, colour, mine, status, tries, timers, display, failures, stale>>

StillWaiting(t) ==
    /\ answer[t].kind = "waiting"
    /\ Read(t, "check", answer[t])
    /\ timers' = timers \cup {sent[t].sub}
    /\ ShowNotice /\ UNCHANGED form
    /\ UNCHANGED <<blurred, colour, mine, status, tries, failures, stale>>

\* setSelectedSubmission raises when the submission is not listed.
SetSelectedSubmission(s) ==
    /\ mine' = IF s \in Listed THEN s ELSE mine
    /\ status' = IF s \in Listed THEN StatusFrom(colour', s) ELSE status

\* Mutant of Graded: the submission used for evaluation is not replaced.
GradedOnly(t) ==
    /\ answer[t].kind = "result"
    /\ Read(t, "check", answer[t])
    /\ colour' = IF sent[t].sub \in Listed
                 THEN [colour EXCEPT ![sent[t].sub] = IF answer[t].succeeded THEN "success" ELSE "danger"]
                 ELSE colour
    /\ SetSelectedSubmission(mine)
    /\ blurred' = FALSE
    /\ ShowFeedback(sent[t].sub) /\ UNCHANGED form
    /\ UNCHANGED <<tries, timers, failures, stale>>

\* updateSubmission, unblurTaskForm, setSelectedSubmission
Graded(t) ==
    /\ answer[t].kind = "result"
    /\ Read(t, "check", answer[t])
    /\ LET s == sent[t].sub
       IN  /\ colour' = IF s \in Listed
                        THEN [colour EXCEPT ![s] = IF answer[t].succeeded THEN "success" ELSE "danger"]
                        ELSE colour
           /\ SetSelectedSubmission(IF answer[t].replace THEN s ELSE mine)
    /\ blurred' = FALSE
    /\ ShowFeedback(sent[t].sub) /\ UNCHANGED form
    /\ UNCHANGED <<tries, timers, failures, stale>>

Selected(t) ==
    /\ answer[t].kind = "done"
    /\ Read(t, "select", answer[t])
    /\ mine' = sent[t].sub
    /\ UNCHANGED <<blurred, colour, status, tries, timers, display, failures, stale>>

\* loadOldSubmissionInput is answered.
Loaded(l) ==
    /\ l \in loads
    /\ loads' = loads \ {l}
    /\ blurred' = FALSE
    /\ FillForm(l.sub)
    /\ IF l.feedback THEN ShowFeedback(l.sub) ELSE UNCHANGED alert
    /\ UNCHANGED <<vars, colour, mine, status, tries, timers, sent, openedOn, opens, selections, failures, stale>>

\* The submission is no more, or the connection breaks.
LoadFails(l) ==
    /\ l \in loads
    /\ loads' = loads \ {l}
    /\ blurred' = FALSE
    /\ ShowNotice
    /\ UNCHANGED <<vars, colour, mine, status, tries, timers, sent, form, openedOn, opens, selections, failures, stale>>

LoadEnds == \E l \in loads : Loaded(l) \/ LoadFails(l)

\* The connection of t breaks: the server may have been reached or not.
Lose(t) ==
    /\ Events < MaxEvents /\ sent[t] # NoCall
    /\ failures' = failures + 1
    /\ sent' = [sent EXCEPT ![t] = NoCall]
    /\ Fail(t)
    /\ UNCHANGED <<vars, mine, tries, timers, loads, openedOn, opens, selections, stale>>

\* An answer nobody waits for.
Drop(t) ==
    /\ answer[t] # NoAnswer
    /\ Read(t, "none", answer[t])
    /\ UNCHANGED <<blurred, colour, mine, status, tries, timers, display, failures, stale>>

-----------------------------------------------------------------------------
Answered(t) ==
    SubmitAccepted(t) \/ Refused(t) \/ StillWaiting(t) \/ Graded(t) \/ Selected(t) \/ Drop(t)

Click ==
    \/ \E t \in Watched : Submit(t)
    \/ \E s \in Subs : Load(s)
    \/ \E t \in Watched, s \in Subs : SelectClicked(t, s)

Server(t) == Serve(t) /\ UNCHANGED page
CallbackStep(j) == Callback(j) /\ UNCHANGED page

PageNext ==
    \/ Open
    \/ Click
    \/ \E t \in Watched, s \in Subs : Poll(t, s)
    \/ \E t \in Watched : Arrive(t) \/ Answered(t) \/ Lose(t)
    \/ LoadEnds
    \/ \E t \in Threads : Server(t)
    \/ \E j \in Jobs : CallbackStep(j)
    \/ Events < MaxEvents /\ Restart /\ UNCHANGED page

PageSpec == PageInit /\ [][PageNext]_allVars

\* Timeouts fire, calls arrive and are answered, threads are scheduled, and the
\* client calls back every job: an assumption on the backend and its agents,
\* for which EventuallyCalledBack of JobSystem gives the conditions.
PageFairness ==
    /\ \A s \in Subs : WF_allVars(\E t \in Watched : Poll(t, s))
    /\ \A t \in Watched : WF_allVars(Arrive(t)) /\ WF_allVars(Answered(t))
    /\ WF_allVars(LoadEnds)
    /\ \A t \in Threads : WF_allVars(Server(t))
    /\ \A j \in Jobs : WF_allVars(CallbackStep(j))

PageFairSpec == PageSpec /\ PageFairness

-----------------------------------------------------------------------------
PageTypeOK ==
    /\ TypeOK
    /\ blurred \in BOOLEAN
    /\ colour \in [Subs -> {"none", "warning", "success", "danger"}]
    /\ mine \in Subs \cup {0}
    /\ status \in {"none", "Not yet attempted", "Waiting", "Succeeded", "Failed", "Internal error"}
    /\ timers \subseteq Subs
    /\ sent \in [Watched -> [op : {"none", "submit", "check", "select"}, sub : Subs \cup {0}, arrived : BOOLEAN]]
    /\ loads \subseteq [sub : Subs, feedback : BOOLEAN]
    /\ {form, alert} \subseteq Subs \cup {0}
    /\ openedOn \in Subs \cup {0}

\* The feedback on the page is about the input that is in the form, or was sent
\* from it, provided that the page was not opened on a submission that waits:
\* then the user may load another one before the feedback comes.
FeedbackOfForm == openedOn = 0 /\ alert # 0 => alert = form

\* The colours of the list are true, whatever was lost: a submission shown as
\* waiting is being polled, so that it cannot stay so (but those older than the
\* one the page was opened on are not); green and red are never the opposite of
\* the result of a submission that is kept; and red is not the colour of one
\* that waits unless a call was lost.
ColoursTrue ==
    /\ \A s \in Subs : colour[s] = "warning" => s \in Polled \/ openedOn > s
    /\ \A s \in Kept :
         /\ colour[s] = "success" => doc[s].result = "success"
         /\ (colour[s] = "danger" /\ failures = 0 /\ restarts = 0) => doc[s].result # "success" /\ s \notin Waiting

\* Once nothing is going on, the page built from the answers shows what it would
\* if it was opened again.  A page that was told of a result before it was
\* counted, or whose calls met a selection, is excepted, and so are lost calls
\* and restarts.
AsReopened ==
    Quiet /\ opens > 0 /\ Polled = {} /\ loads = {} /\ (\A t \in Watched : sent[t] = NoCall)
      /\ ~stale /\ failures = 0 /\ restarts = 0
    => /\ \A s \in Subs : colour[s] = ColourOf(s)
       /\ EvalSubmission = {mine} \ {0}
       /\ tries = task.tried
       /\ status \in {StatusOf, "Internal error"}

\* The form disabled by blurTaskForm is enabled again in the end, whatever call
\* is refused or lost.
EventuallyUnblocked == blurred ~> ~blurred
=============================================================================
