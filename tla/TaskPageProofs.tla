--------------------------- MODULE TaskPageProofs ---------------------------
(***************************************************************************)
(* Proofs about TaskPage: the form and the feedback, and the list of the   *)
(* submissions, for any number of submissions, calls and threads.          *)
(***************************************************************************)
EXTENDS TaskPage, SubmissionProofs

-----------------------------------------------------------------------------
(* The feedback and the form.                                               *)

\* What the page waits for: submissions it polls, those it has asked about or
\* is submitting, and inputs being loaded.
AsksFor(t) == sent[t].op \in {"submit", "check"}

\* On a page that was not opened on a submission that waits, only one of these is
\* under way, with the form disabled.  The feedback there is is the form's.
FormInv ==
    openedOn = 0 =>
      /\ alert # 0 => alert = form
      /\ timers # {} \/ loads # {} \/ (\E t \in Watched : AsksFor(t)) => blurred
      /\ \A s \in timers : s = form
      /\ \A t \in Watched : sent[t].op = "check" => sent[t].sub = form
      /\ \A t, u \in Watched : AsksFor(t) /\ AsksFor(u) => t = u
      /\ \A l, m \in loads : l = m
      /\ (\E t \in Watched : AsksFor(t)) => timers = {} /\ loads = {}
      /\ timers # {} => loads = {}
      /\ \A l \in loads : l.feedback

CallType == [op : {"none", "submit", "check", "select"}, sub : Subs \cup {0}, arrived : BOOLEAN]

SentInv ==
    /\ sent \in [Watched -> CallType]
    /\ \A t \in Watched : sent[t].op = "none" => sent[t] = NoCall

\* Steps of the server leave the page alone, and those by which a call arrives
\* what it shows.
LEMMA FormFrame ==
    ASSUME FormInv, UNCHANGED <<blurred, timers, loads, form, alert, openedOn>>,
           \A t \in Watched : sent'[t].op = sent[t].op /\ sent'[t].sub = sent[t].sub
    PROVE  FormInv'
BY DEF FormInv, AsksFor

\* An answer leaves the other calls alone.
LEMMA ReadCalls ==
    ASSUME SentInv, NEW t \in Watched, sent' = [sent EXCEPT ![t] = NoCall]
    PROVE  /\ ~AsksFor(t)' /\ sent'[t].op = "none"
           /\ \A u \in Watched \ {t} : sent'[u] = sent[u]
BY DEF SentInv, CallType, AsksFor, NoCall

\* A click, or a timeout, sends a call of its own.
LEMMA SendCalls ==
    ASSUME SentInv, NEW t \in Watched, NEW op \in {"submit", "check", "select"}, NEW s \in Subs \cup {0},
           Send(t, op, s)
    PROVE  /\ sent'[t].op = op /\ sent'[t].sub = s /\ ~sent'[t].arrived
           /\ \A u \in Watched \ {t} : sent'[u] = sent[u]
           /\ SentInv'
BY DEF SentInv, CallType, Send

\* A click finds the form enabled, so that nothing was under way.
LEMMA ClickForm ==
    ASSUME SentInv, FormInv, Click
    PROVE  SentInv' /\ FormInv'
<1>1. ASSUME NEW t \in Watched, Submit(t) PROVE SentInv' /\ FormInv'
  <2>1. /\ Free(t) /\ ~blurred /\ blurred' = TRUE /\ alert' = 0
        /\ UNCHANGED <<timers, loads, form, openedOn>>
    BY <1>1 DEF Submit, ShowNotice
  <2>2. sent'[t].op = "submit" /\ (\A u \in Watched \ {t} : sent'[u] = sent[u]) /\ SentInv'
    BY <1>1, SendCalls DEF Submit
  <2>3. SUFFICES ASSUME openedOn = 0 PROVE FormInv'
    BY <2>1, <2>2 DEF FormInv
  <2>4. timers = {} /\ loads = {} /\ \A u \in Watched : ~AsksFor(u)
    BY <2>1, <2>3 DEF FormInv
  <2>5. \A u \in Watched : AsksFor(u)' => u = t
    BY <2>2, <2>4 DEF AsksFor
  <2> QED
    BY <2>1, <2>2, <2>4, <2>5 DEF FormInv, AsksFor
<1>2. ASSUME NEW s \in Subs, Load(s) PROVE SentInv' /\ FormInv'
  <2>1. /\ ~blurred /\ blurred' = TRUE /\ alert' = 0
        /\ loads' = loads \cup {[sub |-> s, feedback |-> TRUE]}
        /\ UNCHANGED <<timers, sent, form, openedOn>>
    BY <1>2 DEF Load, ShowNotice
  <2>2. SUFFICES ASSUME openedOn = 0 PROVE FormInv'
    BY <2>1 DEF FormInv, SentInv
  <2>3. timers = {} /\ loads = {} /\ \A u \in Watched : ~AsksFor(u)
    BY <2>1, <2>2 DEF FormInv
  <2>4. \A u \in Watched : ~AsksFor(u)' /\ sent'[u] = sent[u]
    BY <2>1, <2>3 DEF AsksFor
  <2> QED
    BY <2>1, <2>3, <2>4 DEF FormInv, AsksFor
<1>3. ASSUME NEW t \in Watched, NEW s \in Subs, SelectClicked(t, s) PROVE SentInv' /\ FormInv'
  <2>1. Free(t) /\ UNCHANGED <<blurred, timers, loads, form, alert, openedOn>>
    BY <1>3 DEF SelectClicked, display
  <2>2. /\ sent'[t].op = "select" /\ (\A u \in Watched \ {t} : sent'[u] = sent[u]) /\ SentInv'
    BY <1>3, SendCalls DEF SelectClicked
  <2>3. \A u \in Watched : AsksFor(u)' => AsksFor(u)
    BY <2>2 DEF AsksFor
  <2> QED
    BY <2>1, <2>2, <2>3 DEF FormInv
<1> QED
  BY <1>1, <1>2, <1>3 DEF Click

\* A timeout that fires hands its submission over to a call.
LEMMA PollForm ==
    ASSUME SentInv, FormInv, NEW t \in Watched, NEW s \in Subs, Poll(t, s)
    PROVE  SentInv' /\ FormInv'
<1>1. s \in timers /\ timers' = timers \ {s} /\ UNCHANGED <<blurred, loads, form, alert, openedOn>>
  BY DEF Poll, display
<1>2. /\ sent'[t].op = "check" /\ sent'[t].sub = s
      /\ (\A u \in Watched \ {t} : sent'[u] = sent[u]) /\ SentInv'
  BY SendCalls DEF Poll
<1>3. SUFFICES ASSUME openedOn = 0 PROVE FormInv'
  BY <1>1, <1>2 DEF FormInv
<1>4. /\ blurred /\ loads = {} /\ timers' = {} /\ s = form
      /\ \A u \in Watched : ~AsksFor(u)
  BY <1>1, <1>3 DEF FormInv
<1>5. \A u \in Watched : AsksFor(u)' => u = t
  BY <1>2, <1>4 DEF AsksFor
<1> QED
  BY <1>1, <1>2, <1>4, <1>5 DEF FormInv, AsksFor

\* The call of t is over: what it was about may be shown, or polled again.
LEMMA OverForm ==
    ASSUME SentInv, FormInv, NEW t \in Watched, sent' = [sent EXCEPT ![t] = NoCall],
           UNCHANGED <<loads, openedOn>>
    PROVE  /\ SentInv'
           /\ AsksFor(t) /\ UNCHANGED <<timers, form>> /\ (openedOn = 0 => alert' \in {0, form}) => FormInv'
           /\ AsksFor(t) /\ (\E s : timers' = timers \cup {s} /\ form' = s) /\ alert' = 0 /\ blurred' = blurred => FormInv'
           /\ (blurred => blurred') /\ UNCHANGED <<timers, form, alert>> => FormInv'
<1>1. /\ ~AsksFor(t)' /\ sent'[t].op = "none"
      /\ \A u \in Watched \ {t} : sent'[u] = sent[u]
  BY ReadCalls
<1>2. SentInv'
  BY DEF SentInv, CallType, NoCall
<1>3. \A u \in Watched : AsksFor(u)' => AsksFor(u) /\ u # t
  BY <1>1 DEF AsksFor
<1>4. openedOn = 0 /\ AsksFor(t) =>
        /\ timers = {} /\ loads = {} /\ blurred
        /\ \A u \in Watched : ~AsksFor(u)' /\ sent'[u].op # "check"
  BY <1>3, <1>1 DEF FormInv, AsksFor
<1>5. AsksFor(t) /\ UNCHANGED <<timers, form>> /\ (openedOn = 0 => alert' \in {0, form}) => FormInv'
  BY <1>4 DEF FormInv
<1>6. ASSUME AsksFor(t), NEW s, timers' = timers \cup {s}, form' = s, alert' = 0, blurred' = blurred
      PROVE  FormInv'
  BY <1>4, <1>6 DEF FormInv
<1>7. (blurred => blurred') /\ UNCHANGED <<timers, form, alert>> => FormInv'
  BY <1>1, <1>3 DEF FormInv
<1> QED
  BY <1>2, <1>5, <1>6, <1>7

\* What every answer that is read does to the page.
LEMMA ReadForm ==
    ASSUME SentInv, NEW t \in Watched, NEW op, NEW a, Read(t, op, a)
    PROVE  sent' = [sent EXCEPT ![t] = NoCall] /\ UNCHANGED <<loads, openedOn>> /\ sent[t].op = op
BY DEF Read

\* A call that fails ends what was under way, unless it is a selection.
LEMMA FailForm ==
    ASSUME SentInv, FormInv, NEW t \in Watched, Fail(t), sent[t] # NoCall,
           sent' = [sent EXCEPT ![t] = NoCall], UNCHANGED <<loads, openedOn, timers>>
    PROVE  SentInv' /\ FormInv'
<1>1. sent[t].op \in {"submit", "check", "select"}
  BY DEF SentInv, CallType
<1>2. CASE sent[t].op = "select"
  <2>1. (blurred => blurred') /\ UNCHANGED <<timers, form, alert>>
    BY <1>2 DEF Fail
  <2> QED
    BY <2>1, OverForm
<1>3. CASE AsksFor(t)
  <2>1. alert' = 0 /\ UNCHANGED form
    BY <1>3 DEF Fail, ShowNotice, AsksFor
  <2> QED
    BY <1>3, <2>1, OverForm
<1> QED
  BY <1>1, <1>2, <1>3 DEF AsksFor

\* The answer of a submission sets its timeout, that of a check ends or sets it
\* again: the form stays disabled as long as one of them is under way.
LEMMA AnsweredForm ==
    ASSUME SentInv, FormInv, NEW t \in Watched, Answered(t) \/ Lose(t)
    PROVE  SentInv' /\ FormInv'
<1>1. CASE SubmitAccepted(t)
  <2>1. /\ sent' = [sent EXCEPT ![t] = NoCall] /\ UNCHANGED <<loads, openedOn>> /\ AsksFor(t)
        /\ timers' = timers \cup {answer[t].sub} /\ form' = answer[t].sub
        /\ alert' = 0 /\ blurred' = blurred
    BY <1>1, ReadForm DEF SubmitAccepted, FillForm, ShowNotice, AsksFor
  <2> QED
    BY <2>1, OverForm
<1>2. CASE Refused(t)
  <2>1. sent' = [sent EXCEPT ![t] = NoCall] /\ UNCHANGED <<loads, openedOn, timers>> /\ Fail(t) /\ sent[t] # NoCall
    BY <1>2, ReadForm DEF Refused
  <2> QED
    BY <2>1, FailForm
<1>3. CASE StillWaiting(t)
  <2>1. /\ sent' = [sent EXCEPT ![t] = NoCall] /\ UNCHANGED <<loads, openedOn>> /\ sent[t].op = "check"
        /\ timers' = timers \cup {sent[t].sub} /\ form' = form
        /\ alert' = 0 /\ blurred' = blurred
    BY <1>3, ReadForm DEF StillWaiting, ShowNotice
  <2>2. openedOn = 0 => form' = sent[t].sub
    BY <2>1 DEF FormInv
  <2>3. openedOn # 0 => FormInv'
    BY <2>1 DEF FormInv
  <2> QED
    BY <2>1, <2>2, <2>3, OverForm DEF AsksFor
<1>4. CASE Graded(t)
  <2>1. /\ sent' = [sent EXCEPT ![t] = NoCall] /\ UNCHANGED <<loads, openedOn>> /\ sent[t].op = "check"
        /\ UNCHANGED <<timers, form>> /\ alert' = sent[t].sub
    BY <1>4, ReadForm DEF Graded, ShowFeedback
  <2>2. openedOn = 0 => alert' = form
    BY <2>1 DEF FormInv
  <2> QED
    BY <2>1, <2>2, OverForm DEF AsksFor
<1>5. CASE Selected(t) \/ Drop(t)
  <2>1. /\ sent' = [sent EXCEPT ![t] = NoCall] /\ UNCHANGED <<loads, openedOn>>
        /\ UNCHANGED <<blurred, timers, form, alert>>
    BY <1>5, ReadForm DEF Selected, Drop, display
  <2> QED
    BY <2>1, OverForm
<1>6. CASE Lose(t)
  <2>1. /\ sent' = [sent EXCEPT ![t] = NoCall] /\ UNCHANGED <<loads, openedOn, timers>>
        /\ Fail(t) /\ sent[t] # NoCall
    BY <1>6 DEF Lose
  <2> QED
    BY <2>1, FailForm
<1> QED
  BY <1>1, <1>2, <1>3, <1>4, <1>5, <1>6 DEF Answered

\* A load ends alone: its input and its feedback come together.
LEMMA LoadsForm ==
    ASSUME SentInv, FormInv, LoadEnds
    PROVE  SentInv' /\ FormInv'
<1>1. PICK l \in loads : Loaded(l) \/ LoadFails(l)
  BY DEF LoadEnds
<1>2. loads' = loads \ {l} /\ UNCHANGED <<timers, sent, openedOn>>
  BY <1>1 DEF Loaded, LoadFails
<1>3. SentInv' /\ \A u \in Watched : sent'[u] = sent[u]
  BY <1>2 DEF SentInv
<1>4. SUFFICES ASSUME openedOn = 0 PROVE FormInv'
  BY <1>2, <1>3 DEF FormInv
<1>5. timers = {} /\ loads' = {} /\ l.feedback /\ \A u \in Watched : ~AsksFor(u)'
  BY <1>2, <1>3, <1>4 DEF FormInv, AsksFor
<1>6. \A u \in Watched : sent'[u].op # "check"
  BY <1>5 DEF AsksFor
<1>7. alert' # 0 => alert' = form'
  BY <1>1, <1>5 DEF Loaded, LoadFails, FillForm, ShowFeedback, ShowNotice
<1> QED
  BY <1>2, <1>5, <1>6, <1>7 DEF FormInv

\* A page just opened waits for openedOn and loads it, or for nothing.
LEMMA OpenForm ==
    ASSUME Open
    PROVE  SentInv' /\ FormInv'
<1>1. /\ sent' = [t \in Watched |-> NoCall] /\ alert' = 0
      /\ timers' = {openedOn'} \ {0}
      /\ loads' = {[sub |-> s, feedback |-> FALSE] : s \in {openedOn'} \ {0}}
  BY DEF Open, ShowNotice
<1>2. SentInv' /\ \A t \in Watched : ~AsksFor(t)' /\ sent'[t].op = "none"
  BY <1>1 DEF SentInv, CallType, AsksFor, NoCall
<1>3. openedOn' = 0 => timers' = {} /\ loads' = {}
  BY <1>1
<1> QED
  BY <1>1, <1>2, <1>3 DEF FormInv

\* A call that arrives shows nothing.
LEMMA ArriveForm ==
    ASSUME SentInv, FormInv, NEW t \in Watched, Arrive(t)
    PROVE  SentInv' /\ FormInv'
<1>1. sent' = [sent EXCEPT ![t].arrived = TRUE] /\ UNCHANGED <<blurred, timers, loads, form, alert, openedOn>>
  BY DEF Arrive, display
<1>2. SentInv' /\ \A u \in Watched : sent'[u].op = sent[u].op /\ sent'[u].sub = sent[u].sub
  <2>1. sent[t].op # "none"
    BY DEF Arrive
  <2> QED
    BY <1>1, <2>1 DEF SentInv, CallType
<1> QED
  BY <1>1, <1>2, FormFrame

\* Where the steps of the page leave the form, and where the others do.
LEMMA FormStep == SentInv /\ FormInv /\ [PageNext]_allVars => SentInv' /\ FormInv'
<1> SUFFICES ASSUME SentInv, FormInv, [PageNext]_allVars PROVE SentInv' /\ FormInv'
  OBVIOUS
<1>1. ASSUME UNCHANGED page PROVE SentInv' /\ FormInv'
  BY <1>1, FormFrame DEF page, SentInv
<1>2. CASE UNCHANGED allVars
  BY <1>1, <1>2 DEF allVars
<1>3. CASE \/ \E t \in Threads : Server(t)
           \/ \E j \in Jobs : CallbackStep(j)
           \/ Events < MaxEvents /\ Restart /\ UNCHANGED page
  BY <1>1, <1>3 DEF Server, CallbackStep
<1>4. CASE \E t \in Watched, s \in Subs : Poll(t, s)
  BY <1>4, PollForm
<1>5. CASE \E t \in Watched : Arrive(t) \/ Answered(t) \/ Lose(t)
  BY <1>5, ArriveForm, AnsweredForm
<1> QED
  BY <1>2, <1>3, <1>4, <1>5, OpenForm, ClickForm, LoadsForm DEF PageNext

\* The feedback shown is always about the input in the form, whatever calls are
\* answered late or lost, unless the page was opened on a submission that waits.
THEOREM FeedbackFollowsForm == PageSpec => []FeedbackOfForm
<1>1. PageInit => SentInv /\ FormInv
  BY DEF PageInit, SentInv, CallType, NoCall, FormInv, AsksFor
<1>2. FormInv => FeedbackOfForm
  BY DEF FormInv, FeedbackOfForm
<1> QED
  BY <1>1, <1>2, FormStep, PTL DEF PageSpec

-----------------------------------------------------------------------------
(* The server behind the page.  It replays nothing, and a page may ask for a *)
(* submission that has been deleted.                                        *)

\* The collection and the requests, behind a page.
ServerInv ==
    /\ LifeInv
    /\ replayed = {}
    /\ \A t \in Threads : thread[t].pc = "idle" => thread[t] = Idle

\* What a callback or a request does; the answers are no part of it.
LEMMA ServerFrame ==
    ASSUME ServerInv, UNCHANGED <<setting, database, job, thread, history>>
    PROVE  ServerInv' /\ LifeStep
<1>1. TypeOK'
  BY DEF ServerInv, LifeInv, TypeOK, database, history
<1>2. Cared'
  BY DEF ServerInv, LifeInv, Cared, Shape, Care, Careful, Serving, Launched, Running, LifeOf, database, history
<1> QED
  BY <1>1, <1>2, LifeSame DEF ServerInv, LifeInv, database, history

\* A call that arrives: the request begins, or is answered at once.
LEMMA ArriveMoves ==
    ASSUME ServerInv, NEW t \in Watched, NEW s \in Subs, Post(t) \/ Check(t, s) \/ Select(t, s)
    PROVE  /\ thread[t].pc = "idle" /\ UNCHANGED <<setting, database, job, replayed, orphaned, restarts>>
           /\ overlap' \in BOOLEAN
           /\ \/ thread' = [thread EXCEPT ![t] = Idle]
              \/ thread' = [thread EXCEPT ![t].pc = "checked"]
              \/ thread' = [thread EXCEPT ![t].pc = "missing", ![t].sub = s]
              \/ thread' = [thread EXCEPT ![t].pc = "select", ![t].sub = s]
<1>1. CASE Post(t)
  BY <1>1 DEF Post, Reply, Goto, database
<1>2. CASE Check(t, s)
  BY <1>2 DEF Check, Reply, database
<1>3. CASE Select(t, s)
  BY <1>3 DEF Select, Reply, database
<1> QED
  BY <1>1, <1>2, <1>3

\* The handlers of the server run on behalf of the page's calls.
LEMMA ArriveServer ==
    ASSUME ServerInv, NEW t \in Watched, NEW s \in Subs, Post(t) \/ Check(t, s) \/ Select(t, s)
    PROVE  ServerInv' /\ LifeStep
<1>0. Parts /\ Cared /\ t \in Threads /\ thread[t] = Idle /\ Idle \in ThreadType /\ Idle.remove = {}
  <2>1. t \in Threads
    BY SubmissionsAssumption
  <2> QED
    BY <2>1, ArriveMoves, PartsOfType DEF ServerInv, LifeInv, Idle, ThreadType
<1>1. UNCHANGED <<setting, doc, task, job, replayed, orphaned>> /\ overlap' \in BOOLEAN
  BY ArriveMoves DEF database
<1>2. PICK r \in ThreadType : /\ thread' = [thread EXCEPT ![t] = r]
                              /\ r.pc \in {"idle", "checked", "missing", "select"}
                              /\ ThreadSub(r) /\ r.remove = {}
                              /\ r.pc = "idle" => r = Idle
  <2> DEFINE R(pc, u) == [pc |-> pc, sub |-> u, job |-> 0, remove |-> {}, set |-> {}]
  <2>1. \A pc \in {"idle", "checked", "missing", "select"}, u \in Subs \cup {0} :
          R(pc, u) \in ThreadType /\ R(pc, u).pc = pc /\ R(pc, u).remove = {} /\ R(pc, u).sub = u
    BY DEF ThreadType
  <2>2. R("idle", 0) = Idle
    BY DEF Idle
  <2>3. \E pc \in {"idle", "checked", "missing", "select"} : \E u \in Subs \cup {0} :
          /\ thread' = [thread EXCEPT ![t] = R(pc, u)]
          /\ u = 0 <=> pc \in {"idle", "checked"}
    <3>1. s # 0 /\ s \in Subs \cup {0}
      BY DEF Subs
    <3>2. CASE thread' = [thread EXCEPT ![t] = Idle]
      BY <2>2, <3>2
    <3>3. CASE thread' = [thread EXCEPT ![t].pc = "checked"]
      <4>1. thread' = [thread EXCEPT ![t] = R("checked", 0)]
        <5>1. [Idle EXCEPT !.pc = "checked"] = R("checked", 0)
          BY DEF Idle
        <5>2. thread' = [thread EXCEPT ![t] = [thread[t] EXCEPT !.pc = "checked"]]
          BY <3>3
        <5> HIDE DEF R
        <5> QED
          BY <1>0, <5>1, <5>2
      <4> QED
        BY <4>1
    <3>4. CASE \E pc \in {"missing", "select"} : thread' = [thread EXCEPT ![t].pc = pc, ![t].sub = s]
      <4>1. PICK pc \in {"missing", "select"} : thread' = [thread EXCEPT ![t] = R(pc, s)]
        <5>1. PICK pc \in {"missing", "select"} : thread' = [thread EXCEPT ![t].pc = pc, ![t].sub = s]
          BY <3>4
        <5>2. [Idle EXCEPT !.pc = pc, !.sub = s] = R(pc, s)
          <6>1. [Idle EXCEPT !.pc = pc] = R(pc, 0)
            BY DEF Idle
          <6>2. [R(pc, 0) EXCEPT !.sub = s] = R(pc, s)
            OBVIOUS
          <6>3. [Idle EXCEPT !.pc = pc, !.sub = s] = [[Idle EXCEPT !.pc = pc] EXCEPT !.sub = s]
            BY DEF Idle
          <6> QED
            BY <6>1, <6>2, <6>3
        <5>3. thread' = [thread EXCEPT ![t] = [thread[t] EXCEPT !.pc = pc, !.sub = s]]
          BY <5>1
        <5> HIDE DEF R
        <5> QED
          BY <1>0, <5>2, <5>3
      <4> QED
        BY <3>1, <4>1
    <3> QED
      BY <3>2, <3>3, <3>4, ArriveMoves
  <2>4. PICK pc \in {"idle", "checked", "missing", "select"} : \E u \in Subs \cup {0} :
          /\ thread' = [thread EXCEPT ![t] = R(pc, u)]
          /\ u = 0 <=> pc \in {"idle", "checked"}
    BY <2>3
  <2>5. PICK u \in Subs \cup {0} :
          /\ thread' = [thread EXCEPT ![t] = R(pc, u)]
          /\ u = 0 <=> pc \in {"idle", "checked"}
    BY <2>4
  <2>6. pc = "idle" => R(pc, u) = Idle
    BY <2>2, <2>5
  <2> HIDE DEF R
  <2>7. /\ R(pc, u) \in ThreadType /\ R(pc, u).pc = pc /\ R(pc, u).remove = {} /\ R(pc, u).sub = u
    BY <2>1
  <2>8. ThreadSub(R(pc, u))
    BY <2>5, <2>7 DEF ThreadSub
  <2> QED
    BY <2>5, <2>6, <2>7, <2>8
<1>3. Parts'
  BY <1>0, <1>1, <1>2 DEF Parts
<1>4. Cared'
  <2>1. /\ thread[t].pc \notin {"inserted", "listed", "launched"}
        /\ r.pc \notin {"inserted", "listed", "launched", "replaying"}
    BY <1>0, <1>2 DEF Idle
  <2> QED
    BY <1>0, <1>1, <1>2, <2>1, ThreadKeeps
<1>5. \A u \in Threads : thread'[u].pc = "idle" => thread'[u] = Idle
  BY <1>0, <1>2 DEF Parts, ServerInv
<1>6. TypeOK'
  <2>1. TypeOK' <=> Parts'
    BY PartsOfType, PTL
  <2> QED
    BY <1>3, <2>1
<1> QED
  BY <1>1, <1>4, <1>5, <1>6, LifeSame DEF ServerInv, LifeInv

\* Without room for a submission there is none for a request.
LEMMA NoRoom ==
    ASSUME Room PROVE Subs # {}
<1>1. SUFFICES ASSUME Subs = {} PROVE FALSE
  OBVIOUS
<1>2. MaxJobs \in Nat /\ MaxJobs = 0
  BY <1>1, SubmissionsAssumption DEF Subs
<1>3. Cardinality({s \in Subs : doc[s].status # "none"} \cup Checked) \in Nat
  <2>1. IsFiniteSet(Checked)
    BY SubmissionsAssumption, FS_Subset DEF Checked
  <2>2. {s \in Subs : doc[s].status # "none"} \cup Checked = Checked
    BY <1>1
  <2> QED
    BY <2>1, <2>2, FS_CardinalityType
<1> QED
  BY <1>2, <1>3 DEF Room

\* The submissions that calls are about.
Asked(t) == sent[t].op \in {"check", "select"} => sent[t].sub \in Subs

\* The server stays as it should behind any step of the page, and each is a step
\* of SubmissionLife.
LEMMA ServerStep ==
    ASSUME ServerInv, \A t \in Watched : Asked(t), [PageNext]_allVars
    PROVE  ServerInv' /\ LifeStep
<1>0. Parts /\ Cared /\ LifeInv /\ Watched \subseteq Threads
  BY PartsOfType, SubmissionsAssumption DEF ServerInv, LifeInv
<1>1. ASSUME UNCHANGED <<setting, database, job, thread, history>> PROVE ServerInv' /\ LifeStep
  BY <1>1, ServerFrame
<1>2. ASSUME Next PROVE LifeInv' /\ LifeStep
  BY <1>0, <1>2, LifeInvStep, StepOfLife
<1>3. CASE UNCHANGED allVars
  BY <1>1, <1>3 DEF allVars, vars
<1>4. CASE Open \/ Click \/ (\E t \in Watched, s \in Subs : Poll(t, s)) \/ LoadEnds
  BY <1>1, <1>4 DEF Open, Click, Submit, Load, SelectClicked, Poll, LoadEnds, Loaded, LoadFails, vars
<1>5. ASSUME NEW t \in Watched, Answered(t) \/ Lose(t) PROVE ServerInv' /\ LifeStep
  <2>1. CASE Lose(t)
    BY <1>1, <2>1 DEF Lose, vars
  <2>2. CASE Answered(t)
    BY <1>1, <2>2 DEF Answered, SubmitAccepted, Refused, StillWaiting, Graded, Selected, Drop, Read, database
  <2> QED
    BY <1>5, <2>1, <2>2
<1>6. ASSUME NEW t \in Watched, Arrive(t) PROVE ServerInv' /\ LifeStep
  <2>1. \/ sent[t].op = "submit" /\ Post(t)
        \/ sent[t].op = "check" /\ Check(t, sent[t].sub)
        \/ sent[t].op = "select" /\ Select(t, sent[t].sub)
    BY <1>6 DEF Arrive
  <2>2. CASE Post(t)
    <3>1. Subs # {}
      BY <2>2, NoRoom DEF Post
    <3> QED
      BY <2>2, <3>1, ArriveServer
  <2>3. CASE ~Post(t)
    BY <2>1, <2>3, ArriveServer DEF Asked
  <2> QED
    BY <2>2, <2>3
<1>7. ASSUME NEW t \in Threads, Server(t) PROVE ServerInv' /\ LifeStep
  <2>1. Serve(t) /\ Next
    BY <1>7 DEF Server, Next
  <2>2. replayed' = replayed /\ \A u \in Threads : thread'[u].pc = "idle" => thread'[u] = Idle
    BY <1>0, <2>1, ServeMoves DEF ServerInv
  <2> QED
    BY <1>2, <2>1, <2>2 DEF ServerInv
<1>8. ASSUME NEW j \in Jobs, CallbackStep(j) PROVE ServerInv' /\ LifeStep
  <2>1. Callback(j) /\ Next
    BY <1>8 DEF CallbackStep, Next
  <2>2. replayed' = replayed /\ thread' = thread
    BY <2>1 DEF Callback, StoreResult, CountNew, CountReplay, CountDeleted, SetEvaluation, history
  <2> QED
    BY <1>2, <2>1, <2>2 DEF ServerInv
<1>9. CASE Restart
  <2>1. replayed' = replayed /\ \A u \in Threads : thread'[u] = Idle
    BY <1>9 DEF Restart, history
  <2> QED
    BY <1>2, <1>9, <2>1 DEF ServerInv, Next
<1> QED
  BY <1>3, <1>4, <1>5, <1>6, <1>7, <1>8, <1>9 DEF PageNext

\* What is settled stays so, until the submission is deleted.
Settled(s) == doc[s].status \in {"done", "error", "deleted"}

\* A submission that has left the waiting state never goes back to it while nothing
\* is replayed, and its result is final: the life of SubmissionLife allows no more.
LEMMA SettledStays ==
    ASSUME ServerInv, ServerInv', LifeStep, NEW s \in Subs
    PROVE  /\ doc[s].status # "none" => doc'[s].status # "none"
           /\ Settled(s) => /\ Settled(s)'
                            /\ Exists(s)' => Exists(s) /\ doc'[s].result = doc[s].result
<1>0. Parts /\ Parts' /\ replayed = {} /\ replayed' = {}
  <2>1. (TypeOK <=> Parts) /\ (TypeOK' <=> Parts')
    BY PartsOfType, PTL
  <2> QED
    BY <2>1 DEF ServerInv, LifeInv
<1>1. /\ Lives[s].status = doc[s].status /\ Lives[s].result = doc[s].result
      /\ Lives'[s].status = doc'[s].status /\ Lives'[s].result = doc'[s].result
  BY DEF Lives, LifeOf
<1>2. CASE Lives' = Lives
  BY <1>1, <1>2 DEF Settled, Exists
<1>3. ASSUME NEW n \in Subs, Life!Insert(n) \/ Life!Grade(n)
      PROVE  \/ Lives'[s] = Lives[s]
             \/ ~Settled(s) /\ Lives'[s].status # "none"
  <2>1. Lives[n] = Life!Without("none") \/ Lives[n] = Life!Without("waiting")
    BY <1>3 DEF Life!Insert, Life!Grade, Lives
  <2>2. \E g \in GradedLives \cup {Life!Without("waiting")} : Lives' = [Lives EXCEPT ![n] = g]
    BY <1>3 DEF Life!Insert, Life!Grade, Lives, GradedLives
  <2>3. \A g \in GradedLives \cup {Life!Without("waiting")} : g.status # "none"
    BY DEF GradedLives, Life!Without, Finished, LifeOf
  <2>4. doc[n].status \in {"none", "waiting"}
    BY <2>1 DEF Lives, LifeOf, Life!Without
  <2> QED
    BY <2>2, <2>3, <2>4 DEF Lives, Settled
<1>4. ASSUME NEW S \in SUBSET Subs, Life!Delete(S)
      PROVE  Lives'[s] = Lives[s] \/ Lives'[s].status = "deleted"
  BY <1>4 DEF Life!Delete, Lives, Life!Without
<1>5. CASE Life!GiveUp
  <2>1. Lives'[s] = IF Lives[s] = Life!Without("waiting") THEN Life!GivenUp ELSE Lives[s]
    BY <1>5 DEF Life!GiveUp, Lives
  <2>2. Lives'[s] = Lives[s] \/ (~Settled(s) /\ Lives'[s].status = "error")
    BY <1>1, <2>1 DEF Life!GivenUp, Life!Without, Settled
  <2> QED
    BY <1>1, <2>2 DEF Settled, Exists
<1>6. ASSUME NEW n \in Subs, Life!Replay(n) \/ Life!Replayed(n) PROVE FALSE
  BY <1>0, <1>6 DEF Life!Replay, Life!Replayed
<1>7. CASE Life!Next
  BY <1>1, <1>3, <1>4, <1>5, <1>6, <1>7 DEF Life!Next, Settled, Exists
<1> QED
  BY <1>2, <1>7 DEF LifeStep

-----------------------------------------------------------------------------
(* The types of the page, and the colours of the list.                      *)

Known(s) == s \in Subs /\ doc[s].status # "none"

AnswerType ==
    {NoAnswer, Failure, ErrorAnswer, [kind |-> "waiting"], [kind |-> "done"]}
    \cup [kind : {"ok"}, sub : Subs, remove : SUBSET Subs]
    \cup [kind : {"result"}, succeeded : BOOLEAN, replace : BOOLEAN]

\* The page knows of no submission that has not been inserted.
PageTypes ==
    /\ blurred \in BOOLEAN
    /\ colour \in [Subs -> {"none", "warning", "success", "danger"}]
    /\ mine \in Subs \cup {0}
    /\ status \in {"none", "Not yet attempted", "Waiting", "Succeeded", "Failed", "Internal error"}
    /\ loads \subseteq [sub : Subs, feedback : BOOLEAN]
    /\ {form, alert, openedOn} \subseteq Subs \cup {0}
    /\ \A s \in timers : Known(s)
    /\ \A s \in Listed : Known(s)
    /\ \A t \in Watched : sent[t].op \in {"check", "select"} => Known(sent[t].sub)
    /\ answer \in [Watched -> AnswerType]
    /\ \A t \in Watched : answer[t].kind = "ok" => Known(answer[t].sub)

\* The answer to a check tells what the result is, for good.
Told(s, succeeded) == Settled(s) /\ (Exists(s) => succeeded = (doc[s].result = "success"))

\* A check that fails on the server tells that s has no success and does not wait.
NotGood(s) == Settled(s) /\ (Exists(s) => doc[s].result # "success")

\* Where a check is: sent, served by a thread that selects the submission, or
\* answered, with what is true of its submission.
CheckInv(t) ==
    sent[t].op = "check" =>
      /\ ~sent[t].arrived => thread[t].pc = "idle" /\ answer[t] = NoAnswer
      /\ sent[t].arrived =>
           \/ /\ thread[t].pc = "missing" /\ thread[t].sub = sent[t].sub /\ answer[t] = NoAnswer
              /\ Settled(sent[t].sub)
              /\ \A e \in thread[t].set : Told(sent[t].sub, e.succeeded)
           \/ /\ thread[t].pc = "idle"
              /\ answer[t].kind = "result" => Told(sent[t].sub, answer[t].succeeded)
              /\ answer[t].kind = "fail" /\ failures = 0 /\ restarts = 0 => NotGood(sent[t].sub)
              /\ answer[t].kind # "error"

Green(s) == colour[s] = "success" => Told(s, TRUE)
Red(s) == colour[s] = "danger" /\ failures = 0 /\ restarts = 0 => NotGood(s)

\* The inductive invariant.
PageInv ==
    /\ ServerInv /\ SentInv /\ PageTypes
    /\ restarts \in Nat /\ failures \in Nat
    /\ \A t \in Watched : CheckInv(t)
    /\ \A s \in Subs : Green(s) /\ Red(s)

\* What is known of submissions stays true.
LEMMA KnownStays ==
    ASSUME ServerInv, ServerInv', LifeStep, NEW s, Known(s)
    PROVE  Known(s)'
BY SettledStays DEF Known

\* So that what was told of a submission stays true.
LEMMA ToldStays ==
    ASSUME ServerInv, ServerInv', LifeStep, NEW s \in Subs
    PROVE  /\ \A b : Told(s, b) => Told(s, b)'
           /\ NotGood(s) => NotGood(s)'
           /\ Settled(s) => Settled(s)'
BY SettledStays DEF Told, NotGood

\* No failure is forgotten.
FailuresKept == (failures' = 0 => failures = 0) /\ (restarts' = 0 => restarts = 0)

\* Nothing happens to the call of u ...
LEMMA CheckStays ==
    ASSUME ServerInv, ServerInv', LifeStep, PageTypes, NEW u \in Watched, CheckInv(u), FailuresKept,
           thread'[u] = thread[u], answer'[u] = answer[u], sent'[u] = sent[u]
    PROVE  CheckInv(u)'
<1>1. SUFFICES ASSUME sent[u].op = "check" PROVE CheckInv(u)'
  BY DEF CheckInv
<1>2. PICK s \in Subs : s = sent[u].sub
  BY <1>1 DEF PageTypes, Known
<1>3. Settled(s) => /\ Settled(s)'
                    /\ Exists(s)' => Exists(s) /\ doc'[s].result = doc[s].result
  BY SettledStays
<1>4. /\ \A b : Told(s, b) => Told(s, b)'
      /\ NotGood(s) => NotGood(s)'
  BY <1>3 DEF Told, NotGood
<1>5. sent'[u] = sent[u] /\ sent'[u].sub = s
  BY <1>2
<1>6. CASE thread[u].pc = "missing" /\ sent[u].arrived /\ answer[u] = NoAnswer
  <2>1. thread[u].sub = s /\ Settled(s) /\ \A e \in thread[u].set : Told(s, e.succeeded)
    BY <1>1, <1>2, <1>6 DEF CheckInv, NoAnswer
  <2>2. Settled(s)' /\ \A e \in thread'[u].set : Told(s, e.succeeded)'
    BY <1>3, <1>4, <2>1
  <2> QED
    BY <1>5, <1>6, <2>1, <2>2 DEF CheckInv
<1>7. CASE thread[u].pc = "idle"
  <2>0. PICK a : a = answer[u]
    OBVIOUS
  <2>1. sent[u].arrived =>
          /\ a.kind = "result" => Told(s, a.succeeded)
          /\ a.kind = "fail" /\ failures = 0 /\ restarts = 0 => NotGood(s)
          /\ a.kind # "error"
    BY <1>1, <1>2, <1>7, <2>0 DEF CheckInv
  <2>2. sent[u].arrived =>
          /\ a.kind = "result" => Told(s, a.succeeded)'
          /\ a.kind = "fail" /\ failures' = 0 /\ restarts' = 0 => NotGood(s)'
          /\ a.kind # "error"
    BY <1>4, <2>1 DEF FailuresKept
  <2>3. /\ ~sent[u].arrived => answer'[u] = NoAnswer
        /\ answer'[u] = a /\ thread'[u].pc = "idle"
    BY <1>1, <1>7, <2>0 DEF CheckInv
  <2> QED
    BY <1>5, <1>7, <2>2, <2>3 DEF CheckInv
<1> QED
  BY <1>1, <1>6, <1>7 DEF CheckInv

\* ... or to the colour of s.
LEMMA ColourStays ==
    ASSUME ServerInv, ServerInv', LifeStep, NEW s \in Subs, Green(s), Red(s), FailuresKept,
           colour'[s] = colour[s]
    PROVE  Green(s)' /\ Red(s)'
<1>1. /\ Told(s, TRUE) => Told(s, TRUE)'
      /\ NotGood(s) => NotGood(s)'
  BY ToldStays
<1> QED
  BY <1>1 DEF Green, Red, FailuresKept

\* A thread may answer its own call only.
LEMMA ReplyAnswer ==
    ASSUME ServerInv, PageTypes, NEW t \in Threads, NEW a \in AnswerType, Reply(t, a)
    PROVE  /\ answer' \in [Watched -> AnswerType]
           /\ \A u \in Watched \ {t} : answer'[u] = answer[u]
           /\ t \in Watched => answer'[t] = a
           /\ thread'[t] = Idle
BY DEF Reply, PageTypes, ServerInv, LifeInv, TypeOK

\* The answers the handlers write are of their type.
LEMMA AnswerTypes ==
    /\ \A x \in {NoAnswer, Failure, ErrorAnswer, [kind |-> "waiting"], [kind |-> "done"]} :
         x \in AnswerType /\ x.kind # "ok" /\ x.kind # "result"
    /\ \A b, c \in BOOLEAN : ResultAnswer(b, c) \in AnswerType /\ ResultAnswer(b, c).kind = "result"
                             /\ ResultAnswer(b, c).succeeded = b
    /\ Failure.kind = "fail" /\ ErrorAnswer.kind = "error"
<1>1. \A b, c \in BOOLEAN : ResultAnswer(b, c) \in [kind : {"result"}, succeeded : BOOLEAN, replace : BOOLEAN]
  BY DEF ResultAnswer
<1>2. \A b, c \in BOOLEAN : ResultAnswer(b, c).kind = "result" /\ ResultAnswer(b, c).succeeded = b
  BY DEF ResultAnswer
<1>3. \A x \in {NoAnswer, Failure, ErrorAnswer, [kind |-> "waiting"], [kind |-> "done"]} :
         x \in AnswerType
  BY DEF AnswerType
<1>4. \A x \in {NoAnswer, Failure, ErrorAnswer, [kind |-> "waiting"], [kind |-> "done"]} :
         x.kind # "ok" /\ x.kind # "result"
  BY DEF NoAnswer, Failure, ErrorAnswer
<1> QED
  BY <1>1, <1>2, <1>3, <1>4 DEF AnswerType, Failure, ErrorAnswer

\* The submission of a request whose job has been created is known.
LEMMA LaunchedKnown ==
    ASSUME ServerInv, NEW t \in Threads, thread[t].pc = "launched"
    PROVE  Known(thread[t].sub)
<1>1. Parts /\ Cared /\ replayed = {}
  BY PartsOfType DEF ServerInv, LifeInv
<1>2. thread[t].sub \in Subs
  BY <1>1 DEF Parts, ThreadType, ThreadSub
<1>3. t \in Launched(thread[t].sub)
  BY <1>2 DEF Launched
<1> QED
  BY <1>1, <1>2, <1>3 DEF Cared, Care, Known

\* What a thread answers.
LEMMA ServeAnswers ==
    ASSUME ServerInv, PageTypes, NEW t \in Threads, Serve(t)
    PROVE  /\ answer' \in [Watched -> AnswerType]
           /\ \A u \in Watched \ {t} : answer'[u] = answer[u]
           /\ t \in Watched /\ answer'[t] # answer[t] => thread'[t] = Idle
           /\ t \in Watched /\ answer'[t] # answer[t] /\ answer'[t].kind = "ok" => Known(answer'[t].sub)
           /\ UNCHANGED restarts
<1>0. Parts /\ thread[t] \in ThreadType
  BY PartsOfType DEF ServerInv, LifeInv, Parts
<1>1. CASE UNCHANGED answer
  BY <1>1 DEF PageTypes, Serve, Insert, List, Launch, StoreJobId, Overwrite, ReadSelected, WriteSelected
<1>2. ASSUME NEW a \in AnswerType, Reply(t, a), a.kind = "ok" => Known(a.sub), UNCHANGED restarts
      PROVE  /\ answer' \in [Watched -> AnswerType]
             /\ \A u \in Watched \ {t} : answer'[u] = answer[u]
             /\ t \in Watched /\ answer'[t] # answer[t] => thread'[t] = Idle
             /\ t \in Watched /\ answer'[t] # answer[t] /\ answer'[t].kind = "ok" => Known(answer'[t].sub)
             /\ UNCHANGED restarts
  BY <1>2, ReplyAnswer
<1>3. CASE StoreJobId(t)
  <2>1. \/ Reply(t, ErrorAnswer)
        \/ Reply(t, [kind |-> "ok", sub |-> thread[t].sub, remove |-> thread[t].remove])
    BY <1>3 DEF StoreJobId
  <2>2. UNCHANGED restarts /\ Known(thread[t].sub)
    BY <1>3, LaunchedKnown DEF StoreJobId
  <2>3. CASE Reply(t, [kind |-> "ok", sub |-> thread[t].sub, remove |-> thread[t].remove])
    <3>1. PICK a : a = [kind |-> "ok", sub |-> thread[t].sub, remove |-> thread[t].remove]
      OBVIOUS
    <3>2. a \in AnswerType /\ a.sub = thread[t].sub
      BY <1>0, <2>2, <3>1 DEF AnswerType, ThreadType, Known
    <3> QED
      BY <1>2, <2>2, <2>3, <3>1, <3>2
  <2> QED
    BY <1>2, <2>1, <2>2, <2>3, AnswerTypes
<1>4. CASE Overwrite(t)
  BY <1>2, <1>4, AnswerTypes DEF Overwrite
<1>5. CASE ReadSelected(t)
  BY <1>1, <1>2, <1>5, AnswerTypes DEF ReadSelected
<1>6. CASE WriteSelected(t)
  <2>1. PICK e \in thread[t].set :
          Reply(t, IF thread[t].pc = "select" THEN [kind |-> "done"] ELSE ResultAnswer(e.succeeded, TRUE))
    BY <1>6 DEF WriteSelected
  <2>2. e.succeeded \in BOOLEAN
    BY <1>0 DEF ThreadType, Evaluations
  <2>3. UNCHANGED restarts
    BY <1>6 DEF WriteSelected
  <2> QED
    BY <1>2, <2>1, <2>2, <2>3, AnswerTypes
<1>7. CASE Insert(t) \/ List(t) \/ Launch(t)
  <2>1. UNCHANGED answer
    BY <1>7 DEF Insert, List, Launch
  <2> QED
    BY <1>1, <2>1
<1> QED
  BY <1>3, <1>4, <1>5, <1>6, <1>7 DEF Serve

\* The types of the page follow when it is left alone.
LEMMA TypesFrame ==
    ASSUME ServerInv, ServerInv', LifeStep, PageTypes, answer' \in [Watched -> AnswerType],
           UNCHANGED <<blurred, colour, mine, status, timers, loads, form, alert, openedOn>>,
           \A t \in Watched : sent'[t].op = sent[t].op /\ sent'[t].sub = sent[t].sub,
           \A t \in Watched : answer'[t].kind = "ok" => Known(answer'[t].sub) \/ answer'[t] = answer[t]
    PROVE  PageTypes'
<1>1. \A s : Known(s) => Known(s)'
  BY KnownStays
<1>2. Listed' = Listed
  BY DEF Listed
<1>3. \A t \in Watched : answer'[t].kind = "ok" => Known(answer'[t].sub)
  BY DEF PageTypes
<1>4. \A t \in Watched : \A a : a = answer'[t] /\ a.kind = "ok" => Known(a.sub)'
  BY <1>1, <1>3
<1>5. \A t \in Watched : \A c : c = sent'[t] /\ c.op \in {"check", "select"} => Known(c.sub)'
  BY <1>1 DEF PageTypes
<1> QED
  BY <1>1, <1>2, <1>4, <1>5 DEF PageTypes, Known

\* A thread that serves a check has set its submission aside to select it, and
\* tells its result.
LEMMA ServeCheck ==
    ASSUME ServerInv, ServerInv', LifeStep, PageTypes, NEW t \in Watched, CheckInv(t), Serve(t), UNCHANGED page
    PROVE  CheckInv(t)'
<1>1. SUFFICES ASSUME sent[t].op = "check" PROVE CheckInv(t)'
  BY DEF CheckInv, page
<1>2. PICK s \in Subs : s = sent[t].sub
  BY <1>1 DEF PageTypes, Known
<1>3. t \in Threads /\ thread[t].pc # "idle" /\ sent' = sent /\ failures' = failures
  BY SubmissionsAssumption, ServeMoves, PartsOfType DEF ServerInv, LifeInv, page
<1>4. /\ sent[t].arrived /\ thread[t].pc = "missing" /\ thread[t].sub = s /\ answer[t] = NoAnswer
      /\ Settled(s) /\ \A e \in thread[t].set : Told(s, e.succeeded)
  BY <1>1, <1>2, <1>3 DEF CheckInv
<1>5. Parts /\ thread[t] \in ThreadType /\ thread \in [Threads -> ThreadType] /\ answer \in [Watched -> AnswerType]
  BY <1>3, PartsOfType DEF ServerInv, LifeInv, Parts, PageTypes
<1>6. doc' = doc /\ UNCHANGED restarts /\ (ReadSelected(t) \/ WriteSelected(t))
  BY <1>4 DEF Serve, Insert, List, Launch, StoreJobId, Overwrite, ReadSelected, WriteSelected, database
<1>7. Settled(s)' /\ (NotGood(s) => NotGood(s)') /\ \A b : Told(s, b) => Told(s, b)'
  BY <1>4, ToldStays
<1>8. ASSUME NEW a \in AnswerType, Reply(t, a), a.kind # "error",
             a.kind = "result" => Told(s, a.succeeded), a.kind = "fail" => NotGood(s)
      PROVE  CheckInv(t)'
  <2>1. answer'[t] = a /\ thread'[t].pc = "idle" /\ sent'[t] = sent[t]
    BY <1>3, <1>8, ReplyAnswer DEF Idle
  <2>2. (a.kind = "result" => Told(s, a.succeeded)') /\ (a.kind = "fail" => NotGood(s)')
    BY <1>7, <1>8
  <2> QED
    BY <1>2, <1>4, <1>8, <2>1, <2>2 DEF CheckInv
<1>9. CASE ReadSelected(t)
  <2>1. CASE Exists(s) /\ doc[s].result # "none"
    <3>1. PICK e : e = Evaluation(doc[s].result, doc[s].grade, s)
      OBVIOUS
    <3>2. thread' = [thread EXCEPT ![t].set = {e}] /\ answer' = answer
      BY <1>4, <1>9, <2>1, <3>1 DEF ReadSelected
    <3>3. thread'[t].pc = "missing" /\ thread'[t].sub = s /\ thread'[t].set = {e} /\ answer'[t] = NoAnswer
      BY <1>3, <1>4, <1>5, <3>2 DEF ThreadType
    <3>4. Told(s, e.succeeded)
      BY <1>4, <3>1 DEF Told, Evaluation
    <3> QED
      BY <1>2, <1>3, <1>4, <1>7, <3>3, <3>4 DEF CheckInv
  <2>2. CASE ~(Exists(s) /\ doc[s].result # "none")
    <3>1. Reply(t, Failure)
      BY <1>4, <1>9, <2>2 DEF ReadSelected
    <3>2. NotGood(s)
      BY <1>4, <2>2 DEF NotGood
    <3> QED
      BY <1>8, <3>1, <3>2, AnswerTypes
  <2> QED
    BY <2>1, <2>2
<1>10. CASE WriteSelected(t)
  <2>1. PICK e \in thread[t].set : Reply(t, ResultAnswer(e.succeeded, TRUE))
    BY <1>4, <1>10 DEF WriteSelected
  <2>2. e.succeeded \in BOOLEAN /\ Told(s, e.succeeded)
    BY <1>4, <1>5 DEF ThreadType, Evaluations
  <2>3. ResultAnswer(e.succeeded, TRUE).kind = "result" /\ ResultAnswer(e.succeeded, TRUE).succeeded = e.succeeded
    BY <2>2, AnswerTypes
  <2> QED
    BY <1>8, <2>1, <2>2, <2>3, AnswerTypes
<1> QED
  BY <1>6, <1>9, <1>10

\* The colours of a list that is left alone stay true.
LEMMA ColoursFrame ==
    ASSUME ServerInv, ServerInv', LifeStep, \A s \in Subs : Green(s) /\ Red(s), FailuresKept, colour' = colour
    PROVE  \A s \in Subs : Green(s)' /\ Red(s)'
BY ColourStays

\* A step of a thread, which may write the answer of a check.
LEMMA ServerPage ==
    ASSUME PageInv, ServerInv', LifeStep, SentInv', NEW t \in Threads, Server(t)
    PROVE  PageInv'
<1>1. Serve(t) /\ UNCHANGED page /\ ServerInv /\ PageTypes
  BY DEF Server, PageInv
<1>2. /\ answer' \in [Watched -> AnswerType]
      /\ \A u \in Watched \ {t} : answer'[u] = answer[u]
      /\ t \in Watched /\ answer'[t] # answer[t] /\ answer'[t].kind = "ok" => Known(answer'[t].sub)
      /\ UNCHANGED restarts
  BY <1>1, ServeAnswers
<1>3. FailuresKept /\ restarts' \in Nat /\ failures' \in Nat
  BY <1>1, <1>2 DEF FailuresKept, page, PageInv
<1>4. PageTypes'
  BY <1>1, <1>2, TypesFrame DEF page
<1>5. ASSUME NEW u \in Watched PROVE CheckInv(u)'
  <2>1. CASE u = t
    BY <1>1, <2>1, ServeCheck DEF PageInv
  <2>2. CASE u # t
    <3>1. thread'[u] = thread[u] /\ sent'[u] = sent[u] /\ answer'[u] = answer[u]
      BY <1>1, <1>2, <2>2, ServeMoves, PartsOfType, SubmissionsAssumption DEF ServerInv, LifeInv, page
    <3> QED
      BY <1>1, <1>3, <3>1, CheckStays DEF PageInv
  <2> QED
    BY <2>1, <2>2
<1>6. \A s \in Subs : Green(s)' /\ Red(s)'
  BY <1>1, <1>3, ColoursFrame DEF PageInv, page
<1> QED
  BY <1>3, <1>4, <1>5, <1>6 DEF PageInv

\* A callback says nothing to the page.
LEMMA CallbackPage ==
    ASSUME PageInv, ServerInv', LifeStep, SentInv', NEW j \in Jobs, CallbackStep(j)
    PROVE  PageInv'
<1>1. UNCHANGED <<thread, answer, restarts>> /\ UNCHANGED page /\ ServerInv /\ PageTypes
  BY DEF CallbackStep, Callback, StoreResult, CountNew, CountReplay, CountDeleted, SetEvaluation, PageInv
<1>2. FailuresKept /\ restarts' \in Nat /\ failures' \in Nat
  BY <1>1 DEF FailuresKept, page, PageInv
<1>3. PageTypes'
  BY <1>1, TypesFrame DEF page, PageTypes
<1>4. ASSUME NEW u \in Watched PROVE CheckInv(u)'
  BY <1>1, <1>2, CheckStays DEF PageInv, page
<1>5. \A s \in Subs : Green(s)' /\ Red(s)'
  BY <1>1, <1>2, ColoursFrame DEF PageInv, page
<1> QED
  BY <1>2, <1>3, <1>4, <1>5 DEF PageInv

\* A restart fails the calls that are being served.
LEMMA RestartPage ==
    ASSUME PageInv, ServerInv', LifeStep, SentInv', Restart, UNCHANGED page
    PROVE  PageInv'
<1>1. /\ thread' = [t \in Threads |-> Idle] /\ restarts' = restarts + 1
      /\ answer' = [t \in Watched |-> IF thread[t].pc = "idle" THEN answer[t] ELSE Failure]
      /\ ServerInv /\ PageTypes /\ restarts \in Nat /\ failures \in Nat /\ Watched \subseteq Threads
  BY SubmissionsAssumption DEF Restart, PageInv
<1>2. restarts' # 0 /\ restarts' \in Nat /\ FailuresKept /\ failures' \in Nat
  BY <1>1 DEF FailuresKept, page
<1>3. answer' \in [Watched -> AnswerType] /\ \A t \in Watched : answer'[t] = answer[t] \/ answer'[t].kind = "fail"
  BY <1>1, AnswerTypes DEF PageTypes
<1>4. PageTypes'
  BY <1>1, <1>3, TypesFrame DEF page
<1>5. ASSUME NEW u \in Watched PROVE CheckInv(u)'
  <2>1. CASE thread[u].pc = "idle"
    <3>1. thread'[u] = thread[u] /\ answer'[u] = answer[u] /\ sent'[u] = sent[u]
      BY <1>1, <2>1 DEF ServerInv, page
    <3> QED
      BY <1>1, <1>2, <3>1, CheckStays DEF PageInv
  <2>2. CASE thread[u].pc # "idle"
    <3>1. thread'[u].pc = "idle" /\ answer'[u].kind = "fail" /\ sent'[u] = sent[u]
      BY <1>1, <2>2, AnswerTypes DEF Idle, page
    <3>2. sent[u].op = "check" => sent[u].arrived
      BY <2>2 DEF PageInv, CheckInv
    <3> QED
      BY <1>2, <3>1, <3>2 DEF CheckInv
  <2> QED
    BY <2>1, <2>2
<1>6. \A s \in Subs : Green(s)' /\ Red(s)'
  BY <1>1, <1>2, ColoursFrame DEF PageInv, page
<1> QED
  BY <1>2, <1>4, <1>5, <1>6 DEF PageInv

\* A call that arrives is what it is about from now on.
LEMMA ArriveAnswers ==
    ASSUME ServerInv, PageTypes, NEW t \in Watched, Arrive(t)
    PROVE  /\ answer' \in [Watched -> AnswerType]
           /\ \A u \in Watched \ {t} : answer'[u] = answer[u] /\ thread'[u] = thread[u] /\ sent'[u] = sent[u]
           /\ answer'[t].kind = "ok" => answer'[t] = answer[t]
           /\ UNCHANGED restarts
<1>1. t \in Threads /\ thread[t].pc = "idle"
  <2>1. t \in Threads
    BY SubmissionsAssumption
  <2> QED
    BY <2>1 DEF Arrive, Post, Check, Select
<1>2. /\ \A u \in Threads \ {t} : thread'[u] = thread[u]
      /\ UNCHANGED restarts
      /\ \/ UNCHANGED answer
         \/ Reply(t, ErrorAnswer) \/ Reply(t, Failure) \/ Reply(t, [kind |-> "waiting"])
         \/ \E b, c \in BOOLEAN : Reply(t, ResultAnswer(b, c))
  <2>1. CASE Post(t)
    BY <2>1 DEF Post, Reply, Goto, ServerInv, LifeInv, TypeOK
  <2>2. CASE Check(t, sent[t].sub)
    <3>1. \/ Reply(t, Failure) \/ Reply(t, [kind |-> "waiting"])
          \/ \E b, c \in BOOLEAN : Reply(t, ResultAnswer(b, c))
          \/ thread' = [thread EXCEPT ![t].pc = "missing", ![t].sub = sent[t].sub] /\ UNCHANGED answer
      BY <2>2 DEF Check
    <3> QED
      BY <2>2, <3>1 DEF Check, Reply, ServerInv, LifeInv, TypeOK
  <2>3. CASE Select(t, sent[t].sub)
    BY <2>3 DEF Select, Reply, ServerInv, LifeInv, TypeOK
  <2> QED
    BY <2>1, <2>2, <2>3 DEF Arrive
<1>3. \A u \in Watched \ {t} : thread'[u] = thread[u] /\ sent'[u] = sent[u]
  BY <1>2, SubmissionsAssumption DEF Arrive
<1>4. ASSUME NEW a \in AnswerType, Reply(t, a), a.kind # "ok"
      PROVE  /\ answer' \in [Watched -> AnswerType]
             /\ \A u \in Watched \ {t} : answer'[u] = answer[u]
             /\ answer'[t].kind # "ok"
  BY <1>1, <1>4, ReplyAnswer
<1>5. CASE UNCHANGED answer
  BY <1>2, <1>3, <1>5 DEF PageTypes
<1>6. CASE Reply(t, ErrorAnswer) \/ Reply(t, Failure) \/ Reply(t, [kind |-> "waiting"])
  BY <1>2, <1>3, <1>4, <1>6, AnswerTypes
<1>7. CASE \E b, c \in BOOLEAN : Reply(t, ResultAnswer(b, c))
  <2>1. PICK b \in BOOLEAN, c \in BOOLEAN : Reply(t, ResultAnswer(b, c))
    BY <1>7
  <2>2. ResultAnswer(b, c) \in AnswerType /\ ResultAnswer(b, c).kind = "result"
    BY AnswerTypes
  <2> QED
    BY <1>2, <1>3, <1>4, <2>1, <2>2
<1> QED
  BY <1>2, <1>5, <1>6, <1>7

\* A check that arrives is answered with the truth about its submission, or goes on
\* to find whether it is the one used for evaluation.
LEMMA ArriveCheck ==
    ASSUME ServerInv, ServerInv', LifeStep, PageTypes, SentInv, NEW t \in Watched, CheckInv(t), Arrive(t)
    PROVE  CheckInv(t)'
<1>1. /\ sent' = [sent EXCEPT ![t].arrived = TRUE] /\ ~sent[t].arrived
      /\ UNCHANGED failures
  BY DEF Arrive
<1>2. sent'[t].op = sent[t].op /\ sent'[t].sub = sent[t].sub /\ sent'[t].arrived
  BY <1>1 DEF SentInv, CallType
<1>3. SUFFICES ASSUME sent[t].op = "check" PROVE CheckInv(t)'
  BY <1>2 DEF CheckInv
<1>4. PICK s \in Subs : s = sent[t].sub /\ Known(s)
  BY <1>3 DEF PageTypes, Known
<1>5. Check(t, s) /\ doc' = doc /\ UNCHANGED restarts
  BY <1>3, <1>4 DEF Arrive, Check, database
<1>6. Parts /\ t \in Threads /\ thread \in [Threads -> ThreadType] /\ thread[t] = Idle
  BY <1>5, PartsOfType, SubmissionsAssumption DEF ServerInv, LifeInv, Parts, Check
<1>7. doc[s].status \in {"waiting", "done", "error", "deleted"}
  BY <1>4, <1>6 DEF Known, Parts, DocType
<1>8. (Settled(s) => Settled(s)') /\ (NotGood(s) => NotGood(s)') /\ \A b : Told(s, b) => Told(s, b)'
  BY ToldStays
<1>9. ASSUME NEW a \in AnswerType, Reply(t, a), a.kind # "error",
             a.kind = "result" => Told(s, a.succeeded), a.kind = "fail" => NotGood(s)
      PROVE  CheckInv(t)'
  <2>1. answer'[t] = a /\ thread'[t].pc = "idle"
    BY <1>6, <1>9, ReplyAnswer DEF Idle
  <2>2. (a.kind = "result" => Told(s, a.succeeded)') /\ (a.kind = "fail" => NotGood(s)')
    BY <1>8, <1>9
  <2> QED
    BY <1>2, <1>4, <1>9, <2>1, <2>2 DEF CheckInv
<1>10. CASE ~Exists(s)
  <2>1. Reply(t, Failure)
    BY <1>5, <1>10 DEF Check, Waiting, Exists
  <2>2. NotGood(s)
    BY <1>7, <1>10 DEF NotGood, Settled, Exists
  <2> QED
    BY <1>9, <2>1, <2>2, AnswerTypes
<1>11. CASE s \in Waiting
  <2>1. Reply(t, [kind |-> "waiting"])
    BY <1>5, <1>11 DEF Check, Waiting, Exists
  <2>2. [kind |-> "waiting"].kind = "waiting"
    OBVIOUS
  <2> QED
    BY <1>9, <2>1, <2>2, AnswerTypes
<1>12. CASE Exists(s) /\ s \notin Waiting
  <2>1. Settled(s)
    BY <1>12 DEF Exists, Settled, Waiting
  <2>2. CASE DefaultMissing
    <3>1. thread' = [thread EXCEPT ![t].pc = "missing", ![t].sub = s] /\ answer' = answer
      BY <1>5, <1>12, <2>2 DEF Check
    <3>2. thread'[t].pc = "missing" /\ thread'[t].sub = s /\ thread'[t].set = {} /\ answer'[t] = NoAnswer
      <4>1. thread[t].set = {} /\ answer[t] = NoAnswer
        BY <1>1, <1>3, <1>6 DEF Idle, CheckInv
      <4> QED
        BY <1>6, <3>1, <4>1 DEF ThreadType
    <3> QED
      BY <1>2, <1>4, <1>8, <2>1, <3>2 DEF CheckInv
  <2>3. CASE ~DefaultMissing
    <3>1. Reply(t, ResultAnswer(doc[s].result = "success", task.sub = s))
      BY <1>5, <1>12, <2>3 DEF Check
    <3>2. Told(s, doc[s].result = "success")
      BY <2>1 DEF Told
    <3>3. PICK b \in BOOLEAN, c \in BOOLEAN : b = (doc[s].result = "success") /\ c = (task.sub = s)
      OBVIOUS
    <3> QED
      BY <1>9, <3>1, <3>2, <3>3, AnswerTypes
  <2> QED
    BY <2>2, <2>3
<1> QED
  BY <1>10, <1>11, <1>12

\* A call that arrives.
LEMMA ArrivePage ==
    ASSUME PageInv, ServerInv', LifeStep, SentInv', NEW t \in Watched, Arrive(t)
    PROVE  PageInv'
<1>1. /\ UNCHANGED <<blurred, colour, mine, status, timers, loads, form, alert, openedOn, failures>>
      /\ sent' = [sent EXCEPT ![t].arrived = TRUE]
      /\ ServerInv /\ PageTypes /\ SentInv
  BY DEF Arrive, display, PageInv
<1>2. /\ answer' \in [Watched -> AnswerType]
      /\ \A u \in Watched \ {t} : answer'[u] = answer[u] /\ thread'[u] = thread[u] /\ sent'[u] = sent[u]
      /\ answer'[t].kind = "ok" => answer'[t] = answer[t]
      /\ UNCHANGED restarts
  BY <1>1, ArriveAnswers
<1>3. FailuresKept /\ restarts' \in Nat /\ failures' \in Nat
  BY <1>1, <1>2 DEF FailuresKept, PageInv
<1>4. PageTypes'
  <2>1. \A u \in Watched : sent'[u].op = sent[u].op /\ sent'[u].sub = sent[u].sub
    BY <1>1 DEF SentInv, CallType
  <2> QED
    BY <1>1, <1>2, <2>1, TypesFrame
<1>5. ASSUME NEW u \in Watched PROVE CheckInv(u)'
  <2>1. CASE u = t
    BY <1>1, <2>1, ArriveCheck DEF PageInv
  <2>2. CASE u # t
    BY <1>1, <1>2, <1>3, <2>2, CheckStays DEF PageInv
  <2> QED
    BY <2>1, <2>2
<1>6. \A s \in Subs : Green(s)' /\ Red(s)'
  BY <1>1, <1>3, ColoursFrame DEF PageInv
<1> QED
  BY <1>3, <1>4, <1>5, <1>6 DEF PageInv

-----------------------------------------------------------------------------
(* The steps of the page alone.                                             *)

\* What is to be shown of a step that leaves the server alone.
LEMMA PageFrame ==
    ASSUME PageInv, ServerInv', LifeStep, SentInv', PageTypes', FailuresKept, restarts' = restarts, failures' \in Nat,
           \A u \in Watched : \/ sent'[u] = sent[u] /\ answer'[u] = answer[u] /\ thread'[u] = thread[u]
                              \/ CheckInv(u)',
           \A s \in Subs : colour'[s] = colour[s] \/ (Green(s)' /\ Red(s)')
    PROVE  PageInv'
<1>1. ServerInv /\ PageTypes /\ restarts' \in Nat
  BY DEF PageInv
<1>2. ASSUME NEW u \in Watched PROVE CheckInv(u)'
  BY <1>1, CheckStays DEF PageInv
<1>3. ASSUME NEW s \in Subs PROVE Green(s)' /\ Red(s)'
  BY <1>1, ColourStays DEF PageInv
<1> QED
  BY <1>1, <1>2, <1>3 DEF PageInv

\* The newest submission that waits.
LEMMA NewestWaiting ==
    ASSUME Waiting # {}
    PROVE  Max(Waiting) \in Waiting /\ \A s \in Waiting : s <= Max(Waiting)
<1>1. MaxJobs \in Nat /\ Waiting \in SUBSET (1 .. MaxJobs)
  BY SubmissionsAssumption DEF Waiting, Subs
<1> DEFINE g == [s \in Waiting |-> 0]
<1>2. PICK b \in Waiting : \A s \in Waiting : g[s] < g[b] \/ (g[s] = g[b] /\ s <= b)
  <2>1. \A s \in Waiting : g[s] \in Nat
    OBVIOUS
  <2> HIDE DEF g
  <2> QED
    BY <1>1, <2>1, LatestBestExists
<1>3. \A s \in Waiting : b >= s
  BY <1>1, <1>2
<1>4. Max(Waiting) \in Waiting /\ \A s \in Waiting : Max(Waiting) >= s
  BY <1>2, <1>3 DEF Max
<1> QED
  BY <1>1, <1>4

\* The colours of a page that is opened are the truth.
LEMMA ColoursAtOpen ==
    ASSUME ServerInv, NEW s \in Subs
    PROVE  /\ ColourOf(s) \in {"none", "warning", "success", "danger"}
           /\ ColourOf(s) # "none" => Known(s)
           /\ ColourOf(s) = "warning" => s \in Waiting
           /\ ColourOf(s) = "success" => Told(s, TRUE)
           /\ ColourOf(s) = "danger" => NotGood(s)
<1>1. doc[s] \in DocType /\ Shape(s)
  BY PartsOfType DEF ServerInv, LifeInv, Parts, Cared
<1>2. /\ doc[s].result = "failed" => doc[s].status = "done"
      /\ doc[s].status = "error" => doc[s].result # "success"
  <2>1. /\ Life!Without(doc[s].status).result = "none" /\ Life!GivenUp.result = "none"
        /\ LifeOf(doc[s]).result = doc[s].result /\ LifeOf(doc[s]).status = doc[s].status
    BY DEF Life!Without, Life!GivenUp, LifeOf
  <2>2. \A o \in Outcomes \cup {Crash} :
          /\ LifeOf(Finished(o)).result = "failed" => LifeOf(Finished(o)).status = "done"
          /\ LifeOf(Finished(o)).status = "error" => LifeOf(Finished(o)).result # "success"
    BY DEF Finished, LifeOf
  <2> QED
    BY <1>1, <2>1, <2>2 DEF Shape, DocType
<1>3. doc[s].status = "error" \/ doc[s].result = "failed" => NotGood(s)
  BY <1>2 DEF NotGood, Settled
<1>4. doc[s].status = "done" /\ doc[s].result = "success" => Told(s, TRUE)
  BY DEF Told, Settled
<1> QED
  BY <1>2, <1>3, <1>4 DEF ColourOf, Known, Waiting

\* What the steps of the page leave alone.
Aside == UNCHANGED <<setting, database, job, thread, replays, restarts, history>>

\* Steps of the page alone leave everything said of the server as it was.
LEMMA AsideFrame ==
    ASSUME PageInv, Aside
    PROVE  /\ ServerInv' /\ LifeStep
           /\ doc' = doc /\ thread' = thread /\ restarts' = restarts
           /\ \A s : Known(s)' <=> Known(s)
           /\ \A s : NotGood(s)' <=> NotGood(s)
           /\ \A s, b : Told(s, b)' <=> Told(s, b)
BY ServerFrame DEF Aside, PageInv, database, Known, NotGood, Told, Settled, Exists

\* The page is opened, and its list is the truth.
LEMMA OpenPage ==
    ASSUME PageInv, SentInv', Open
    PROVE  PageInv'
<1>1. Aside /\ answer' = answer /\ failures' = failures /\ ServerInv /\ Parts
  BY PartsOfType DEF Open, vars, Aside, PageInv, ServerInv, LifeInv
<1>2. /\ ServerInv' /\ LifeStep /\ restarts' = restarts /\ FailuresKept /\ failures' \in Nat
      /\ \A s : Known(s)' <=> Known(s)
  BY <1>1, AsideFrame DEF FailuresKept, PageInv
<1>3. /\ \A s \in Subs : colour'[s] = ColourOf(s)
      /\ colour' \in [Subs -> {"none", "warning", "success", "danger"}]
  BY <1>1, ColoursAtOpen DEF Open
<1>4. openedOn' \in Subs \cup {0} /\ (openedOn' # 0 => Known(openedOn'))
  BY NewestWaiting DEF Open, Waiting, Known
<1>5. PageTypes'
  <2>1. /\ blurred' \in BOOLEAN
        /\ mine' \in Subs \cup {0}
        /\ status' \in {"none", "Not yet attempted", "Waiting", "Succeeded", "Failed", "Internal error"}
        /\ {form', alert', openedOn'} \subseteq Subs \cup {0}
    BY <1>1, <1>4 DEF Open, FillForm, ShowNotice, StatusOf, Parts, TaskType
  <2>2. loads' \subseteq [sub : Subs, feedback : BOOLEAN]
    <3>1. loads' = {[sub |-> s, feedback |-> FALSE] : s \in {openedOn'} \ {0}}
      BY DEF Open
    <3>2. \A s \in {openedOn'} \ {0} : s \in Subs
      BY <1>4
    <3>3. \A s \in {openedOn'} \ {0} : [sub |-> s, feedback |-> FALSE] \in [sub : Subs, feedback : BOOLEAN]
      BY <3>2
    <3> QED
      BY <3>1, <3>3
  <2>3. \A s \in timers' : Known(s)
    BY <1>4 DEF Open
  <2>4. \A s \in Listed' : Known(s)
    <3>1. \A s \in Listed' : s \in Subs /\ colour'[s] # "none"
      BY DEF Listed
    <3> QED
      BY <1>1, <1>3, <3>1, ColoursAtOpen
  <2>5. \A t \in Watched : sent'[t].op = "none"
    BY DEF Open, NoCall
  <2>6. answer' \in [Watched -> AnswerType] /\ \A t \in Watched : answer'[t].kind = "ok" => Known(answer'[t].sub)
    BY <1>1 DEF PageInv, PageTypes
  <2>7. \A t \in Watched : \A a : a = answer'[t] /\ a.kind = "ok" => Known(a.sub)'
    BY <1>2, <2>6
  <2> QED
    BY <1>2, <1>3, <2>1, <2>2, <2>3, <2>4, <2>5, <2>6, <2>7 DEF PageTypes, Known
<1>6. \A u \in Watched : CheckInv(u)'
  BY DEF Open, NoCall, CheckInv
<1>7. ASSUME NEW s \in Subs PROVE Green(s)' /\ Red(s)'
  <2>1. /\ colour'[s] = "success" => Told(s, TRUE)
        /\ colour'[s] = "danger" => NotGood(s)
    BY <1>1, <1>3, ColoursAtOpen
  <2>2. (Told(s, TRUE)' <=> Told(s, TRUE)) /\ (NotGood(s)' <=> NotGood(s))
    BY <1>1, AsideFrame
  <2> QED
    BY <2>1, <2>2 DEF Green, Red
<1> QED
  BY <1>2, <1>5, <1>6, <1>7, PageFrame

\* The types follow from what changes.
LEMMA TypesAside ==
    ASSUME PageInv, Aside, SentInv',
           blurred' \in BOOLEAN, mine' \in Subs \cup {0}, openedOn' = openedOn,
           status' \in {"none", "Not yet attempted", "Waiting", "Succeeded", "Failed", "Internal error"},
           loads' \subseteq [sub : Subs, feedback : BOOLEAN],
           {form', alert'} \subseteq Subs \cup {0},
           \A s \in timers' : Known(s),
           colour' \in [Subs -> {"none", "warning", "success", "danger"}],
           \A s \in Subs : colour'[s] # "none" => Known(s),
           \A t \in Watched : sent'[t] = sent[t] \/ (sent'[t].op \in {"check", "select"} => Known(sent'[t].sub)),
           answer' \in [Watched -> AnswerType],
           \A t \in Watched : answer'[t] = answer[t] \/ answer'[t] = NoAnswer
    PROVE  PageTypes'
<1>1. \A s : Known(s)' <=> Known(s)
  BY AsideFrame
<1>2. \A s \in Listed' : Known(s)
  BY DEF Listed
<1>3. openedOn' \in Subs \cup {0}
  BY DEF PageInv, PageTypes
<1>4. \A t \in Watched : answer'[t].kind = "ok" => Known(answer'[t].sub)
  BY AnswerTypes DEF PageInv, PageTypes
<1>5. \A t \in Watched : sent'[t].op \in {"check", "select"} => Known(sent'[t].sub)
  BY DEF PageInv, PageTypes
<1>6. \A t \in Watched : \A a : a = answer'[t] /\ a.kind = "ok" => Known(a.sub)'
  BY <1>1, <1>4
<1>7. \A t \in Watched : \A c : c = sent'[t] /\ c.op \in {"check", "select"} => Known(c.sub)'
  BY <1>1, <1>5
<1> QED
  BY <1>1, <1>2, <1>3, <1>6, <1>7 DEF PageTypes, Known

\* What the page lists, polls and is answered.
LEMMA ListedKnown ==
    ASSUME PageInv
    PROVE  /\ \A s \in Subs : colour[s] # "none" => Known(s)
           /\ \A s \in timers : Known(s)
           /\ colour \in [Subs -> {"none", "warning", "success", "danger"}]
           /\ answer \in [Watched -> AnswerType]
           /\ blurred \in BOOLEAN /\ mine \in Subs \cup {0}
           /\ status \in {"none", "Not yet attempted", "Waiting", "Succeeded", "Failed", "Internal error"}
           /\ loads \subseteq [sub : Subs, feedback : BOOLEAN]
           /\ form \in Subs \cup {0} /\ alert \in Subs \cup {0}
           /\ failures \in Nat /\ ServerInv /\ SentInv
BY DEF PageInv, PageTypes, Listed

\* A call is sent by a thread that is free.
LEMMA SendPage ==
    ASSUME PageInv, Aside, answer' = answer, failures' = failures, PageTypes', SentInv', colour' = colour,
           NEW t \in Watched, Free(t), \A u \in Watched \ {t} : sent'[u] = sent[u], ~sent'[t].arrived
    PROVE  PageInv'
<1>1. /\ ServerInv' /\ LifeStep /\ restarts' = restarts /\ FailuresKept /\ failures' \in Nat /\ thread' = thread
  BY AsideFrame DEF FailuresKept, PageInv
<1>2. CheckInv(t)'
  BY <1>1 DEF CheckInv, Free
<1> QED
  BY <1>1, <1>2, PageFrame

LEMMA ClickPage ==
    ASSUME PageInv, SentInv', Click
    PROVE  PageInv'
<1>1. Aside /\ answer' = answer /\ failures' = failures /\ colour' = colour
  BY DEF Click, Submit, Load, SelectClicked, vars, Aside
<1>2. ASSUME NEW t \in Watched, Submit(t) PROVE PageInv'
  <2>1. /\ Free(t) /\ sent'[t].op = "submit" /\ ~sent'[t].arrived
        /\ \A u \in Watched \ {t} : sent'[u] = sent[u]
    BY <1>2, SendCalls, ListedKnown DEF Submit
  <2>2. PageTypes'
    BY <1>1, <1>2, <2>1, ListedKnown, TypesAside DEF Submit, ShowNotice
  <2> QED
    BY <1>1, <2>1, <2>2, SendPage
<1>3. ASSUME NEW s \in Subs, Load(s) PROVE PageInv'
  <2>1. PageTypes' /\ sent' = sent
    <3>1. [sub |-> s, feedback |-> TRUE] \in [sub : Subs, feedback : BOOLEAN]
      OBVIOUS
    <3>2. loads' \subseteq [sub : Subs, feedback : BOOLEAN]
      BY <1>3, <3>1, ListedKnown DEF Load
    <3>3. /\ alert' = 0 /\ blurred' = TRUE
          /\ UNCHANGED <<mine, status, timers, sent, form, openedOn>>
      BY <1>3 DEF Load, ShowNotice
    <3> QED
      BY <1>1, <3>2, <3>3, ListedKnown, TypesAside
  <2> QED
    BY <1>1, <2>1, AsideFrame, PageFrame, ListedKnown DEF FailuresKept
<1>4. ASSUME NEW t \in Watched, NEW s \in Subs, SelectClicked(t, s) PROVE PageInv'
  <2>1. /\ Free(t) /\ sent'[t].op = "select" /\ sent'[t].sub = s /\ ~sent'[t].arrived
        /\ \A u \in Watched \ {t} : sent'[u] = sent[u]
    BY <1>4, SendCalls, ListedKnown DEF SelectClicked
  <2>2. Known(s)
    BY <1>4, ListedKnown DEF SelectClicked, Listed
  <2>3. PageTypes'
    BY <1>1, <1>4, <2>1, <2>2, ListedKnown, TypesAside DEF SelectClicked, display, StatusFrom
  <2> QED
    BY <1>1, <2>1, <2>3, SendPage
<1> QED
  BY <1>2, <1>3, <1>4 DEF Click

\* A timeout fires.
LEMMA PollPage ==
    ASSUME PageInv, SentInv', NEW t \in Watched, NEW s \in Subs, Poll(t, s)
    PROVE  PageInv'
<1>1. Aside /\ answer' = answer /\ failures' = failures /\ colour' = colour
  BY DEF Poll, vars, Aside
<1>2. /\ Free(t) /\ sent'[t].op = "check" /\ sent'[t].sub = s /\ ~sent'[t].arrived
      /\ \A u \in Watched \ {t} : sent'[u] = sent[u]
  BY SendCalls, ListedKnown DEF Poll
<1>3. Known(s) /\ timers' \subseteq timers
  BY ListedKnown DEF Poll
<1>4. PageTypes'
  BY <1>1, <1>2, <1>3, ListedKnown, TypesAside DEF Poll, display
<1> QED
  BY <1>1, <1>2, <1>4, SendPage

\* A load ends.
LEMMA LoadsPage ==
    ASSUME PageInv, SentInv', LoadEnds
    PROVE  PageInv'
<1>1. PICK l \in loads : Loaded(l) \/ LoadFails(l)
  BY DEF LoadEnds
<1>2. Aside /\ answer' = answer /\ failures' = failures /\ colour' = colour /\ sent' = sent
  BY <1>1 DEF Loaded, LoadFails, vars, Aside
<1>3. l.sub \in Subs
  BY ListedKnown
<1>4. PageTypes'
  BY <1>1, <1>2, <1>3, ListedKnown, TypesAside DEF Loaded, LoadFails, FillForm, ShowFeedback, ShowNotice
<1> QED
  BY <1>2, <1>4, AsideFrame, PageFrame, ListedKnown DEF FailuresKept

\* The call of t is over, and what it shows is true.
LEMMA OverPage ==
    ASSUME PageInv, Aside, SentInv', PageTypes', NEW t \in Watched,
           failures' \in Nat, failures' = 0 => failures = 0,
           sent' = [sent EXCEPT ![t] = NoCall], \A u \in Watched \ {t} : answer'[u] = answer[u],
           \A s \in Subs : \/ colour'[s] = colour[s]
                           \/ /\ colour'[s] = "success" => Told(s, TRUE)
                              /\ colour'[s] = "danger" => NotGood(s) \/ failures' # 0 \/ restarts # 0
    PROVE  PageInv'
<1>1. ServerInv' /\ LifeStep /\ thread' = thread /\ restarts' = restarts /\ FailuresKept
  BY AsideFrame DEF FailuresKept
<1>2. sent'[t].op = "none" /\ \A u \in Watched \ {t} : sent'[u] = sent[u]
  BY ReadCalls, ListedKnown
<1>3. CheckInv(t)'
  BY <1>2 DEF CheckInv
<1>4. ASSUME NEW s \in Subs PROVE colour'[s] = colour[s] \/ (Green(s)' /\ Red(s)')
  <2>1. (Told(s, TRUE)' <=> Told(s, TRUE)) /\ (NotGood(s)' <=> NotGood(s))
    BY AsideFrame
  <2> QED
    BY <1>1, <2>1 DEF Green, Red
<1> QED
  BY <1>1, <1>2, <1>3, <1>4, PageFrame

\* Reading an answer.
LEMMA ReadPage ==
    ASSUME PageInv, NEW t \in Watched, NEW op, NEW a, Read(t, op, a)
    PROVE  /\ Aside /\ sent[t].op = op /\ answer[t] = a
           /\ sent' = [sent EXCEPT ![t] = NoCall] /\ UNCHANGED <<loads, openedOn>>
           /\ answer' \in [Watched -> AnswerType]
           /\ answer'[t] = NoAnswer /\ \A u \in Watched \ {t} : answer'[u] = answer[u]
           /\ sent'[t] = NoCall /\ \A u \in Watched \ {t} : sent'[u] = sent[u]
           /\ NoCall.op = "none"
<1>1. answer \in [Watched -> AnswerType] /\ NoAnswer \in AnswerType /\ sent \in [Watched -> CallType]
  BY ListedKnown, AnswerTypes DEF SentInv
<1> QED
  BY <1>1 DEF Read, Aside, NoCall

\* What the page does when a call fails.
LEMMA FailPage ==
    ASSUME PageInv, Aside, SentInv', NEW t \in Watched, Fail(t),
           sent[t].op = "check" => NotGood(sent[t].sub) \/ failures' # 0 \/ restarts # 0,
           failures' \in Nat, failures' = 0 => failures = 0,
           sent' = [sent EXCEPT ![t] = NoCall], UNCHANGED <<mine, timers, loads, openedOn>>,
           answer' \in [Watched -> AnswerType], answer'[t] \in {answer[t], NoAnswer},
           \A u \in Watched \ {t} : answer'[u] = answer[u]
    PROVE  PageInv'
<1>1. colour' = IF sent[t].op = "check" /\ sent[t].sub \in Listed THEN [colour EXCEPT ![sent[t].sub] = "danger"] ELSE colour
  BY DEF Fail
<1>2. /\ \A s \in Subs : colour'[s] = colour[s] \/ (sent[t].op = "check" /\ s = sent[t].sub /\ colour'[s] = "danger" /\ Known(s))
      /\ colour' \in [Subs -> {"none", "warning", "success", "danger"}]
  BY <1>1, ListedKnown DEF Listed
<1>3. /\ sent'[t].op = "none" /\ \A u \in Watched \ {t} : sent'[u] = sent[u]
  BY ReadCalls, ListedKnown
<1>4. PageTypes'
  <2>1. /\ blurred' \in BOOLEAN /\ form' = form /\ alert' \in {0, alert}
        /\ status' \in {"Internal error", "Failed", status}
    BY DEF Fail, ShowNotice
  <2> QED
    BY <1>2, <1>3, <2>1, ListedKnown, TypesAside
<1> QED
  BY <1>2, <1>4, OverPage

\* A call is lost: nothing is said of red submissions any more.
LEMMA LosePage ==
    ASSUME PageInv, SentInv', NEW t \in Watched, Lose(t)
    PROVE  PageInv'
<1>1. Aside /\ answer' = answer /\ failures' = failures + 1
  BY DEF Lose, vars, Aside
<1>2. failures' \in Nat /\ failures' # 0
  <2>1. failures \in Nat
    BY ListedKnown
  <2> QED
    BY <1>1, <2>1
<1> QED
  BY <1>1, <1>2, ListedKnown, FailPage DEF Lose

\* An answer is read, and the colour it gives is the one of the result.
LEMMA AnsweredPage ==
    ASSUME PageInv, SentInv', NEW t \in Watched, Answered(t)
    PROVE  PageInv'
<1>0. Watched \subseteq Threads /\ failures \in Nat /\ ServerInv /\ answer[t] \in AnswerType /\ SentInv
  BY SubmissionsAssumption, ListedKnown
\* What is read of a check tells the truth.
<1>1. sent[t].op = "check" =>
        /\ Known(sent[t].sub)
        /\ answer[t].kind = "result" => Told(sent[t].sub, answer[t].succeeded)
        /\ answer[t].kind \in {"fail", "error"} => NotGood(sent[t].sub) \/ failures # 0 \/ restarts # 0
  <2>1. NoAnswer.kind = "none"
    BY DEF NoAnswer
  <2> QED
    BY <2>1 DEF PageInv, PageTypes, CheckInv
<1>2. CASE SubmitAccepted(t)
  <2> DEFINE s == answer[t].sub
  <2>1. Read(t, "submit", answer[t]) /\ answer[t].kind = "ok"
    BY <1>2 DEF SubmitAccepted
  <2>2. Aside /\ Known(s)
    BY <2>1, ReadPage DEF PageInv, PageTypes
  <2>3. /\ failures' = failures /\ timers' = timers \cup {s} /\ form' = s /\ alert' = 0
        /\ UNCHANGED <<blurred, mine, status>>
    BY <1>2 DEF SubmitAccepted, FillForm, ShowNotice
  <2>4. PICK gone : colour' = [u \in Subs |-> IF u = s THEN "warning" ELSE IF u \in gone THEN "none" ELSE colour[u]]
    BY <1>2 DEF SubmitAccepted
  <2>5. /\ colour' \in [Subs -> {"none", "warning", "success", "danger"}]
        /\ \A u \in Subs : \/ colour'[u] = colour[u]
                           \/ u = s /\ colour'[u] = "warning"
                           \/ colour'[u] = "none"
    <3> HIDE DEF s
    <3> QED
      BY <2>4, ListedKnown
  <2>6. PageTypes'
    <3>1. Known(s) /\ s \in Subs
      BY <2>2 DEF Known
    <3> HIDE DEF s
    <3> QED
      BY <2>1, <2>2, <2>3, <2>5, <3>1, ReadPage, ListedKnown, TypesAside
  <2> QED
    BY <1>0, <2>1, <2>2, <2>3, <2>5, <2>6, ReadPage, OverPage
<1>3. CASE Refused(t)
  <2>1. Read(t, sent[t].op, answer[t]) /\ Fail(t) /\ answer[t].kind \in {"fail", "error"}
    BY <1>3 DEF Refused
  <2>2. UNCHANGED <<mine, timers, failures>>
    BY <1>3 DEF Refused
  <2> QED
    BY <1>0, <1>1, <2>1, <2>2, ReadPage, FailPage
<1>4. CASE StillWaiting(t)
  <2>1. Read(t, "check", answer[t])
    BY <1>4 DEF StillWaiting
  <2>2. /\ timers' = timers \cup {sent[t].sub} /\ form' = form /\ alert' = 0
        /\ UNCHANGED <<blurred, colour, mine, status, failures>>
    BY <1>4 DEF StillWaiting, ShowNotice
  <2>3. Known(sent[t].sub)
    BY <1>1, <2>1, ReadPage
  <2>4. PageTypes'
    BY <2>1, <2>2, <2>3, ReadPage, ListedKnown, TypesAside
  <2> QED
    BY <1>0, <2>1, <2>2, <2>4, ReadPage, OverPage
<1>5. CASE Graded(t)
  <2> DEFINE s == sent[t].sub
  <2>1. Read(t, "check", answer[t]) /\ answer[t].kind = "result"
    BY <1>5 DEF Graded
  <2>2. sent[t].op = "check" /\ Known(s) /\ s \in Subs /\ Told(s, answer[t].succeeded)
    BY <1>1, <2>1, ReadPage DEF Known
  <2>3. answer[t].succeeded \in BOOLEAN
    BY <1>0, <2>1 DEF AnswerType, NoAnswer, Failure, ErrorAnswer
  <2>4. /\ blurred' = FALSE /\ form' = form /\ alert' = s
        /\ UNCHANGED <<timers, failures>>
    BY <1>5 DEF Graded, ShowFeedback
  <2>5. /\ colour' \in [Subs -> {"none", "warning", "success", "danger"}]
        /\ \A u \in Subs : \/ colour'[u] = colour[u]
                           \/ /\ u = s
                              /\ colour'[u] = IF answer[t].succeeded THEN "success" ELSE "danger"
    <3>1. colour' = IF s \in Listed
                    THEN [colour EXCEPT ![s] = IF answer[t].succeeded THEN "success" ELSE "danger"]
                    ELSE colour
      BY <1>5 DEF Graded
    <3> HIDE DEF s
    <3> QED
      BY <3>1, ListedKnown DEF Listed
  <2>6. mine' \in Subs \cup {0} /\ status' \in {status, "Succeeded", "Failed"}
    BY <1>5, <2>2, ListedKnown DEF Graded, SetSelectedSubmission, StatusFrom
  <2>7. PageTypes'
    <3> HIDE DEF s
    <3>1. \A u \in Subs : colour'[u] # "none" => Known(u)
      BY <2>2, <2>5, ListedKnown
    <3> QED
      BY <2>1, <2>2, <2>4, <2>5, <2>6, <3>1, ReadPage, ListedKnown, TypesAside
  <2>8. /\ answer[t].succeeded => Told(s, TRUE)
        /\ ~answer[t].succeeded => NotGood(s)
    BY <2>2, <2>3 DEF Told, NotGood
  <2>9. \A u \in Subs : \/ colour'[u] = colour[u]
                        \/ /\ colour'[u] = "success" => Told(u, TRUE)
                           /\ colour'[u] = "danger" => NotGood(u) \/ failures' # 0 \/ restarts # 0
    <3> HIDE DEF s
    <3> QED
      BY <2>3, <2>5, <2>8
  <2> QED
    BY <1>0, <2>1, <2>4, <2>7, <2>9, ReadPage, OverPage
<1>6. CASE Selected(t)
  <2>1. Read(t, "select", answer[t])
    BY <1>6 DEF Selected
  <2>2. /\ mine' = sent[t].sub /\ sent[t].op = "select"
        /\ UNCHANGED <<blurred, colour, status, timers, form, alert, failures>>
    BY <1>6, <2>1, ReadPage DEF Selected, display
  <2>3. mine' \in Subs \cup {0}
    BY <2>2 DEF PageInv, PageTypes, Known
  <2>4. PageTypes'
    BY <2>1, <2>2, <2>3, ReadPage, ListedKnown, TypesAside
  <2> QED
    BY <1>0, <2>1, <2>2, <2>4, ReadPage, OverPage
<1>7. CASE Drop(t)
  <2>1. Read(t, "none", answer[t])
    BY <1>7 DEF Drop
  <2>2. UNCHANGED <<blurred, colour, mine, status, timers, form, alert, failures>>
    BY <1>7 DEF Drop, display
  <2>3. PageTypes'
    BY <2>1, <2>2, ReadPage, ListedKnown, TypesAside
  <2> QED
    BY <1>0, <2>1, <2>2, <2>3, ReadPage, OverPage
<1> QED
  BY <1>2, <1>3, <1>4, <1>5, <1>6, <1>7 DEF Answered

-----------------------------------------------------------------------------
(* The theorems.                                                            *)

\* Every step of the page, and of the server behind it, preserves the invariant.
LEMMA PageInvStep == PageInv /\ FormInv /\ [PageNext]_allVars => PageInv'
<1> SUFFICES ASSUME PageInv, FormInv, [PageNext]_allVars PROVE PageInv'
  OBVIOUS
<1>1. SentInv'
  BY FormStep DEF PageInv
<1>2. \A t \in Watched : Asked(t)
  BY DEF PageInv, PageTypes, Known, Asked
<1>3. ServerInv' /\ LifeStep
  BY <1>2, ServerStep DEF PageInv
<1>4. CASE UNCHANGED allVars
  <2>1. Aside /\ UNCHANGED page /\ answer' = answer
    BY <1>4 DEF allVars, vars, Aside
  <2>2. PageTypes'
    BY <1>1, <2>1, ListedKnown, TypesAside DEF page
  <2> QED
    BY <1>1, <2>1, <2>2, AsideFrame, PageFrame, ListedKnown DEF FailuresKept, page
<1>5. CASE \E t \in Threads : Server(t)
  BY <1>1, <1>3, <1>5, ServerPage
<1>6. CASE \E j \in Jobs : CallbackStep(j)
  BY <1>1, <1>3, <1>6, CallbackPage
<1>7. CASE Events < MaxEvents /\ Restart /\ UNCHANGED page
  BY <1>1, <1>3, <1>7, RestartPage
<1>8. CASE \E t \in Watched, s \in Subs : Poll(t, s)
  BY <1>1, <1>8, PollPage
<1>9. CASE \E t \in Watched : Arrive(t) \/ Answered(t) \/ Lose(t)
  BY <1>1, <1>3, <1>9, ArrivePage, AnsweredPage, LosePage
<1> QED
  BY <1>1, <1>4, <1>5, <1>6, <1>7, <1>8, <1>9, OpenPage, ClickPage, LoadsPage DEF PageNext

\* Nothing is shown before the page is opened.
LEMMA InitPage == PageInit => PageInv /\ FormInv
<1> SUFFICES ASSUME PageInit PROVE PageInv /\ FormInv
  OBVIOUS
<1>1. SentInv /\ FormInv
  BY DEF PageInit, SentInv, CallType, NoCall, FormInv, AsksFor
<1>2. Init /\ LifeInv
  BY InitType, InitCared DEF PageInit, LifeInv
<1>3. ServerInv /\ restarts \in Nat /\ failures \in Nat
  BY <1>2 DEF Init, PageInit, ServerInv
<1>4. answer \in [Watched -> AnswerType] /\ \A t \in Watched : answer[t].kind # "ok"
  BY <1>2, AnswerTypes DEF Init
<1>5. \A t \in Watched : sent[t].op = "none"
  BY DEF PageInit, NoCall
<1>6. PageTypes
  BY <1>4, <1>5 DEF PageInit, PageTypes, Listed
<1>7. (\A t \in Watched : CheckInv(t)) /\ \A s \in Subs : Green(s) /\ Red(s)
  BY <1>5 DEF PageInit, CheckInv, Green, Red
<1> QED
  BY <1>1, <1>3, <1>6, <1>7 DEF PageInv

\* The inductive invariant of the page and the server behind it.
THEOREM PageInvariant == PageSpec => [](PageInv /\ FormInv)
<1>1. PageInv /\ FormInv /\ [PageNext]_allVars => (PageInv /\ FormInv)'
  BY PageInvStep, FormStep DEF PageInv
<1> QED
  BY <1>1, InitPage, PTL DEF PageSpec

\* The page shows, and asks about, submissions that exist or have existed, in
\* whatever order answers come.
THEOREM PageTypesCorrect == PageSpec => []PageTypeOK
<1>1. PageInv => PageTypeOK
  BY DEF PageInv, PageTypes, PageTypeOK, Known, ServerInv, LifeInv, SentInv, CallType
<1> QED
  BY <1>1, PageInvariant, PTL

\* A submission shown as waiting is polled, or older than the one the page was
\* opened on.
Polling == \A s \in Subs : colour[s] = "warning" => s \in Polled \/ openedOn > s

\* What has the colour of waiting keeps its timeout or its call.
LEMMA PollingStep == PageInv /\ Polling /\ [PageNext]_allVars => Polling'
<1> SUFFICES ASSUME PageInv, Polling, [PageNext]_allVars PROVE Polling'
  OBVIOUS
<1>0. SentInv /\ colour \in [Subs -> {"none", "warning", "success", "danger"}]
  BY ListedKnown
<1>1. ASSUME colour' = colour, openedOn' = openedOn,
             \A s \in Polled : s \in Polled'
      PROVE  Polling'
  BY <1>1 DEF Polling
<1>2. ASSUME colour' = colour, openedOn' = openedOn, timers \subseteq timers',
             \A u \in Watched : sent[u].op = "check" => sent'[u].op = "check" /\ sent'[u].sub = sent[u].sub
      PROVE  Polling'
  <2>1. \A s \in Polled : s \in Polled'
    BY <1>2 DEF Polled
  <2> QED
    BY <1>1, <1>2, <2>1
<1>3. ASSUME UNCHANGED page PROVE Polling'
  BY <1>2, <1>3 DEF page
<1>4. CASE Open
  <2>1. ASSUME NEW s \in Subs, colour'[s] = "warning" PROVE s \in Polled' \/ openedOn' > s
    <3>0. ServerInv /\ ColourOf(s) = "warning"
      BY <1>4, <2>1, ListedKnown DEF Open
    <3>1. s \in Waiting
      BY <3>0, ColoursAtOpen
    <3>2. openedOn' \in Waiting /\ s <= openedOn' /\ timers' = {openedOn'} \ {0}
      BY <1>4, <3>1, NewestWaiting DEF Open
    <3>3. s \in 1 .. MaxJobs /\ openedOn' \in 1 .. MaxJobs /\ MaxJobs \in Nat
      BY <3>1, <3>2, SubmissionsAssumption DEF Waiting, Subs
    <3>4. s = openedOn' \/ openedOn' > s
      BY <3>2, <3>3
    <3>5. s = openedOn' => s \in timers'
      BY <3>2, <3>3
    <3> QED
      BY <3>4, <3>5 DEF Polled
  <2> QED
    BY <2>1 DEF Polling
<1>5. ASSUME NEW t \in Watched, NEW op \in {"submit", "check", "select"}, NEW n \in Subs \cup {0},
             Free(t), Send(t, op, n), colour' = colour, openedOn' = openedOn,
             \/ timers' = timers
             \/ op = "check" /\ timers' = timers \ {n}
      PROVE  Polling'
  <2>1. /\ sent'[t].op = op /\ sent'[t].sub = n
        /\ \A u \in Watched \ {t} : sent'[u] = sent[u]
    BY <1>0, <1>5, SendCalls
  <2>2. sent[t].op = "none"
    BY <1>5 DEF Free, NoCall
  <2>3. \A s \in Polled : s \in Polled'
    BY <1>5, <2>1, <2>2 DEF Polled
  <2> QED
    BY <1>1, <1>5, <2>3
<1>6. CASE Click
  <2>1. ASSUME NEW s \in Subs, Load(s) PROVE Polling'
    BY <1>2, <2>1 DEF Load
  <2>2. ASSUME NEW t \in Watched, Submit(t) PROVE Polling'
    BY <1>5, <2>2 DEF Submit
  <2>3. ASSUME NEW t \in Watched, NEW s \in Subs, SelectClicked(t, s) PROVE Polling'
    BY <1>5, <2>3 DEF SelectClicked
  <2> QED
    BY <1>6, <2>1, <2>2, <2>3 DEF Click
<1>7. ASSUME NEW t \in Watched, NEW s \in Subs, Poll(t, s) PROVE Polling'
  BY <1>5, <1>7 DEF Poll
<1>8. CASE LoadEnds
  BY <1>2, <1>8 DEF LoadEnds, Loaded, LoadFails
<1>9. ASSUME NEW t \in Watched, Arrive(t) PROVE Polling'
  <2>1. \A u \in Watched : sent'[u].op = sent[u].op /\ sent'[u].sub = sent[u].sub
    BY <1>0, <1>9 DEF Arrive, SentInv, CallType
  <2> QED
    BY <1>2, <1>9, <2>1 DEF Arrive
\* The call of t is over: it is polled again, or gets another colour.
<1>10. ASSUME NEW t \in Watched, sent' = [sent EXCEPT ![t] = NoCall], openedOn' = openedOn,
              timers \subseteq timers',
              \A s \in Subs : colour'[s] = "warning" => colour[s] = "warning" \/ s \in timers',
              sent[t].op = "check" => sent[t].sub \in timers' \/ \A s \in Subs : s = sent[t].sub => colour'[s] # "warning"
       PROVE  Polling'
  <2>1. \A u \in Watched \ {t} : sent'[u] = sent[u]
    BY <1>0, <1>10, ReadCalls
  <2>2. ASSUME NEW s \in Subs, colour'[s] = "warning", s \in Polled PROVE s \in Polled'
    <3>1. CASE s \in timers
      BY <1>10, <3>1 DEF Polled
    <3>2. CASE s \notin timers
      <4>1. PICK u \in Watched : sent[u].op = "check" /\ s = sent[u].sub
        BY <2>2, <3>2 DEF Polled
      <4>2. CASE u = t
        BY <1>10, <2>2, <4>1, <4>2 DEF Polled
      <4>3. CASE u # t
        BY <2>1, <4>1, <4>3 DEF Polled
      <4> QED
        BY <4>2, <4>3
    <3> QED
      BY <3>1, <3>2
  <2>3. ASSUME NEW s \in Subs, colour'[s] = "warning" PROVE s \in Polled' \/ openedOn' > s
    <3>1. CASE s \in timers'
      BY <3>1 DEF Polled
    <3>2. CASE s \notin timers'
      BY <1>10, <2>2, <2>3, <3>2 DEF Polling
    <3> QED
      BY <3>1, <3>2
  <2> QED
    BY <2>3 DEF Polling
<1>11. ASSUME NEW t \in Watched, Fail(t), sent' = [sent EXCEPT ![t] = NoCall], UNCHANGED <<timers, openedOn>>
       PROVE  Polling'
  <2>1. \A s \in Subs : /\ colour'[s] = "warning" => colour[s] = "warning"
                        /\ sent[t].op = "check" /\ s = sent[t].sub => colour'[s] # "warning"
    BY <1>0, <1>11 DEF Fail, Listed
  <2> QED
    BY <1>10, <1>11, <2>1
<1>12. ASSUME NEW t \in Watched, Lose(t) PROVE Polling'
  BY <1>11, <1>12 DEF Lose
<1>13. ASSUME NEW t \in Watched, Answered(t) PROVE Polling'
  <2>1. CASE SubmitAccepted(t)
    <3>1. /\ sent' = [sent EXCEPT ![t] = NoCall] /\ openedOn' = openedOn /\ sent[t].op = "submit"
      BY <2>1, ReadPage DEF SubmitAccepted
    <3>2. PICK gone : colour' = [u \in Subs |-> IF u = answer[t].sub THEN "warning" ELSE IF u \in gone THEN "none" ELSE colour[u]]
      BY <2>1 DEF SubmitAccepted
    <3>3. timers' = timers \cup {answer[t].sub}
      BY <2>1 DEF SubmitAccepted
    <3>4. \A s \in Subs : colour'[s] = "warning" => colour[s] = "warning" \/ s \in timers'
      BY <3>2, <3>3
    <3> QED
      BY <1>10, <3>1, <3>3, <3>4
  <2>2. CASE Refused(t)
    <3>1. sent' = [sent EXCEPT ![t] = NoCall] /\ UNCHANGED <<timers, openedOn>> /\ Fail(t)
      BY <2>2, ReadPage DEF Refused
    <3> QED
      BY <1>11, <3>1
  <2>3. CASE StillWaiting(t)
    <3>1. /\ sent' = [sent EXCEPT ![t] = NoCall] /\ openedOn' = openedOn /\ colour' = colour
          /\ timers' = timers \cup {sent[t].sub}
      BY <2>3, ReadPage DEF StillWaiting
    <3> QED
      BY <1>10, <3>1
  <2>4. CASE Graded(t)
    <3>1. /\ sent' = [sent EXCEPT ![t] = NoCall] /\ openedOn' = openedOn /\ timers' = timers
      BY <2>4, ReadPage DEF Graded
    <3>2. colour' = IF sent[t].sub \in Listed
                    THEN [colour EXCEPT ![sent[t].sub] = IF answer[t].succeeded THEN "success" ELSE "danger"]
                    ELSE colour
      BY <2>4 DEF Graded
    <3>3. \A s \in Subs : /\ colour'[s] = "warning" => colour[s] = "warning"
                          /\ s = sent[t].sub => colour'[s] # "warning"
      BY <1>0, <3>2 DEF Listed
    <3> QED
      BY <1>10, <3>1, <3>3
  <2>5. CASE Selected(t) \/ Drop(t)
    <3>1. /\ sent' = [sent EXCEPT ![t] = NoCall] /\ openedOn' = openedOn /\ timers' = timers /\ colour' = colour
          /\ sent[t].op # "check"
      BY <2>5, ReadPage DEF Selected, Drop
    <3> QED
      BY <1>10, <3>1
  <2> QED
    BY <1>13, <2>1, <2>2, <2>3, <2>4, <2>5 DEF Answered
<1>14. CASE UNCHANGED allVars
  BY <1>3, <1>14 DEF allVars
<1>15. CASE \/ \E t \in Threads : Server(t)
            \/ \E j \in Jobs : CallbackStep(j)
            \/ Events < MaxEvents /\ Restart /\ UNCHANGED page
  BY <1>3, <1>15 DEF Server, CallbackStep
<1> QED
  BY <1>4, <1>6, <1>7, <1>8, <1>9, <1>12, <1>13, <1>14, <1>15 DEF PageNext

\* The colours of the list are true whatever was lost, and none stays as waiting
\* without being polled.
THEOREM ColoursAreTrue == PageSpec => []ColoursTrue
<1>1. PageInit => Polling
  BY DEF PageInit, Polling
<1>2. PageInv /\ Polling => ColoursTrue
  <2> SUFFICES ASSUME PageInv, Polling PROVE ColoursTrue
    OBVIOUS
  <2>1. ASSUME NEW s \in Kept
        PROVE  /\ colour[s] = "success" => doc[s].result = "success"
               /\ (colour[s] = "danger" /\ failures = 0 /\ restarts = 0) => doc[s].result # "success" /\ s \notin Waiting
    <3>1. s \in Subs /\ Exists(s) /\ Green(s) /\ Red(s)
      BY DEF Kept, PageInv
    <3> QED
      BY <3>1 DEF Green, Red, Told, NotGood, Settled, Waiting
  <2> QED
    BY <2>1 DEF ColoursTrue, Polling
<1> QED
  BY <1>1, <1>2, PollingStep, PageInvariant, PTL DEF PageSpec

-----------------------------------------------------------------------------
(* The page as if it was opened again.                                      *)

\* A page none of whose calls was lost or met a selection, and that was not told of
\* a result before it was counted.
Fresh == opens > 0 /\ ~stale /\ failures = 0 /\ restarts = 0

\* The only callback left is the one of the submission cur that was just made.
JobOf(cur) ==
    \A j \in Uncounted :
      /\ cur # 0 /\ job[j].sub = cur /\ job[j].newsub
      /\ job[j].phase = "setting" => evaluate # "student" /\ \A e \in job[j].set : e.sub = cur
      /\ \A k \in Uncounted : k = j

\* The list is the truth, but for cur and for those that the page is still to remove.
ListBut(cur, gone) ==
    /\ cur # 0 => cur \in Subs /\ Exists(cur)
    /\ \A s \in Subs \ (gone \cup {cur}) : colour[s] = ColourOf(s)
    /\ \A s \in gone : s \in Subs /\ s # cur /\ doc[s].status = "deleted" /\ colour[s] # "none"

\* The page has counted the attempts, and user_tasks too, but for the submission that
\* has been made for the page to count, and for one whose callback is still to count it.
Owed == \E j \in Jobs : job[j].phase \in {"sent", "stored"}
TriesBut(made) == tries + (IF made THEN 1 ELSE 0) = task.tried + (IF Owed THEN 1 ELSE 0)

Under(cur, gone, made) == JobOf(cur) /\ ListBut(cur, gone) /\ TriesBut(made)

\* The submission used for evaluation is the page's, or it is cur.
MineBut(cur) ==
    /\ task.sub \in Kept => task.sub \in {mine, cur}
    /\ cur = 0 /\ mine # 0 => task.sub = mine /\ mine \in Kept

\* The thread of t has not begun, runs at pc, or has answered.
Sent(t) == ~sent[t].arrived /\ thread[t].pc = "idle" /\ answer[t] = NoAnswer
At(t, pc) == sent[t].arrived /\ thread[t].pc = pc /\ answer[t] = NoAnswer
Got(t, kind) == sent[t].arrived /\ thread[t].pc = "idle" /\ answer[t].kind = kind

\* Nothing is asked: the page is what it would be, or polls.
Resting(cur) ==
    /\ \A t \in Watched : sent[t].op = "none"
    /\ \A t \in Threads : thread[t].pc = "idle"
    /\ timers = {cur} \ {0}
    /\ Under(cur, {}, FALSE) /\ MineBut(cur)
    /\ cur # 0 => colour[cur] = "warning"
    /\ cur = 0 => status \in {StatusOf, "Internal error"}

\* t submits: cur is not made yet, is being made, has a job, or is the answer.
NotYet(t, cur) ==
    /\ Sent(t) \/ At(t, "checked") \/ Got(t, "error")
    /\ cur = 0 /\ Under(cur, {}, FALSE)
Making(t, cur) ==
    /\ At(t, "inserted") \/ At(t, "listed")
    /\ thread[t].pc = "listed" => \A s \in thread[t].remove : Exists(s)
    /\ thread[t].sub = cur /\ cur # 0 /\ colour[cur] = "none"
    /\ Under(cur, {}, FALSE) /\ Uncounted = {}
HasMade(t, cur, gone) ==
    /\ At(t, "launched")
    /\ thread[t].job \in Jobs /\ job[thread[t].job].phase # "raised"
    /\ thread[t].sub = cur /\ thread[t].remove = gone /\ cur # 0 /\ colour[cur] = "none"
    /\ Under(cur, gone, TRUE)
HasAnswer(t, cur, gone) ==
    /\ Got(t, "ok")
    /\ answer[t].sub = cur /\ answer[t].remove = gone /\ cur # 0 /\ colour[cur] = "none"
    /\ Under(cur, gone, TRUE)
Submits(t, cur) ==
    /\ sent[t].op = "submit" /\ timers = {}
    /\ MineBut(cur)
    /\ \/ NotYet(t, cur)
       \/ Making(t, cur)
       \/ \E gone \in SUBSET Subs : HasMade(t, cur, gone) \/ HasAnswer(t, cur, gone)

\* t asks for the result of cur.  The server may select it first.
Looks(t, cur) ==
    /\ At(t, "missing") /\ thread[t].sub = cur /\ Uncounted = {}
    /\ \A e \in thread[t].set : e.sub = cur
Knows(t, cur) ==
    /\ Got(t, "result") /\ Uncounted = {}
    /\ task.sub \in Kept /\ answer[t].replace = (task.sub = cur)
Polls(t, cur) ==
    /\ sent[t].op = "check" /\ sent[t].sub = cur /\ timers = {}
    /\ cur # 0 /\ colour[cur] = "warning"
    /\ Under(cur, {}, FALSE) /\ MineBut(cur)
    /\ Sent(t) \/ Looks(t, cur) \/ Got(t, "waiting") \/ Knows(t, cur)

\* t selects the submission n, and the page polls cur or none.
Reads(t, n) == At(t, "select") /\ thread[t].sub = n /\ \A e \in thread[t].set : e.sub = n
Selects(t, n, cur) ==
    /\ sent[t].op = "select" /\ sent[t].sub = n /\ timers = {cur} \ {0}
    /\ evaluate = "student" /\ n \in Kept
    /\ cur # 0 => colour[cur] = "warning"
    /\ cur = 0 => status = StatusFrom(colour, n)
    /\ Under(cur, {}, FALSE)
    /\ \/ MineBut(cur) /\ (Sent(t) \/ Reads(t, n) \/ (Got(t, "fail") /\ cur # 0))
       \/ Got(t, "done") /\ task.sub = n

Alone(t) ==
    /\ \A u \in Watched \ {t} : sent[u].op = "none"
    /\ \A u \in Threads \ {t} : thread[u].pc = "idle"

Calling(t, cur) == Submits(t, cur) \/ Polls(t, cur) \/ \E n \in Subs : Selects(t, n, cur)

\* A page that is not stale has one call under way at most.
FreshMode ==
    \E cur \in Subs \cup {0} : Resting(cur) \/ \E t \in Watched : Alone(t) /\ Calling(t, cur)

\* Only a submission that was given up has ended without a result.
ResultsKept == restarts = 0 => \A s \in Subs : doc[s].status \in {"done", "error"} => doc[s].result # "none"

FreshInv == tries \in Nat /\ ResultsKept /\ (Fresh => openedOn = 0 /\ FreshMode)

\* What is known of the server behind a page.
LEMMA ServerFacts ==
    ASSUME ServerInv
    PROVE  /\ Parts /\ Cared /\ replayed = {}
           /\ \A t \in Threads : thread[t].pc = "idle" => thread[t] = Idle
           /\ Watched \subseteq Threads
           /\ 0 \notin Subs /\ 0 \notin Jobs
BY PartsOfType, SubmissionsAssumption DEF ServerInv, LifeInv, Subs, Jobs

\* A submission is listed by a page that is opened as long as it exists, with the
\* colour of its result.
LEMMA ColoursExist ==
    ASSUME ServerInv, NEW s \in Subs
    PROVE  /\ Exists(s) <=> ColourOf(s) # "none"
           /\ s \in Waiting => ColourOf(s) = "warning"
           /\ Exists(s) /\ s \notin Waiting =>
                ColourOf(s) = IF doc[s].result = "success" THEN "success" ELSE "danger"
<1>1. doc[s] \in DocType /\ Shape(s)
  BY ServerFacts DEF Parts, Cared
<1>2. /\ doc[s].status \in {"none", "waiting", "deleted"} => doc[s].result = "none"
      /\ doc[s].status = "done" => doc[s].result \in {"success", "failed"}
      /\ doc[s].status = "error" => doc[s].result # "success"
  <2>1. /\ Life!Without(doc[s].status).result = "none" /\ Life!GivenUp.result = "none"
        /\ Life!GivenUp.status = "error"
        /\ LifeOf(doc[s]).result = doc[s].result /\ LifeOf(doc[s]).status = doc[s].status
    BY DEF Life!Without, Life!GivenUp, LifeOf
  <2>2. \A o \in Outcomes \cup {Crash} :
          /\ LifeOf(Finished(o)).status = "done" => LifeOf(Finished(o)).result \in {"success", "failed"}
          /\ LifeOf(Finished(o)).status = "error" => LifeOf(Finished(o)).result # "success"
    BY OutcomesType DEF Finished, LifeOf, Outcome, Results
  <2> QED
    BY <1>1, <2>1, <2>2 DEF Shape, DocType
<1> QED
  BY <1>1, <1>2 DEF ColourOf, Waiting, Exists, DocType

\* What waits has a callback to come, unless it is being added: it is cur.
LEMMA WaitsForCur ==
    ASSUME ServerInv, NEW cur, JobOf(cur), NEW s \in Waiting,
           \A t \in Threads : thread[t].pc \notin {"inserted", "listed"}
    PROVE  cur # 0 /\ s = cur
<1>1. Care(s) /\ Serving(s) = {} /\ doc[s].status = "waiting"
  BY ServerFacts DEF Cared, Waiting, Serving
<1>2. PICK j \in Running(s) : TRUE
  BY <1>1 DEF Care
<1>3. j \in Uncounted /\ job[j].sub = s
  BY <1>2 DEF Running, Uncounted
<1> QED
  BY <1>3 DEF JobOf

\* Nothing waits once every callback has ended and no submission is being added.
LEMMA NothingWaits ==
    ASSUME ServerInv, Uncounted = {}, \A t \in Threads : thread[t].pc \notin {"inserted", "listed"}
    PROVE  Waiting = {}
<1>1. JobOf(0)
  BY DEF JobOf
<1> QED
  BY <1>1, WaitsForCur

\* A new submission whose job is sent waits.
LEMMA SentWaits ==
    ASSUME ServerInv, NEW j \in Jobs, job[j].phase = "sent"
    PROVE  job[j].sub \in Subs /\ job[j].sub \in Waiting
<1>1. job[j].sub \in Subs /\ j \in Running(job[j].sub)
  BY ServerFacts DEF Parts, JobType, JobSet, Running
<1> QED
  BY <1>1, ServerFacts DEF Cared, Care, Waiting

\* What a page that has been told of all is shown.
LEMMA NotOwed ==
    ASSUME Uncounted = {}
    PROVE  ~Owed /\ \A cur : JobOf(cur)
BY DEF Uncounted, Owed, JobOf

\* The status of a page that shows the submission used for evaluation.
LEMMA StatusTrue ==
    ASSUME ServerInv, task.sub \in Kept, Waiting = {}, NEW c, c[task.sub] = ColourOf(task.sub)
    PROVE  StatusFrom(c, task.sub) = StatusOf
<1>1. Kept # {} /\ EvalSubmission = {task.sub}
  BY DEF EvalSubmission
<1> QED
  BY <1>1 DEF StatusOf, StatusFrom

\* What is said of the list, the attempts and the callbacks, when they are left alone.
LEMMA UnderFrame ==
    ASSUME doc' = doc, task' = task, setting' = setting, colour' = colour, tries' = tries,
           Uncounted' = Uncounted, \A j \in Uncounted : job'[j] = job[j],
           NEW cur, NEW gone, NEW made, Under(cur, gone, made)
    PROVE  Under(cur, gone, made)'
<1>1. Owed' <=> Owed
  BY DEF Owed, Uncounted
<1>2. TriesBut(made)'
  BY <1>1 DEF TriesBut, Under
<1>3. ListBut(cur, gone)'
  BY DEF ListBut, Under, Exists, ColourOf
<1>4. JobOf(cur)'
  BY DEF JobOf, Under, evaluate
<1> QED
  BY <1>2, <1>3, <1>4 DEF Under

\* What is said of the selection, when it is left alone.
LEMMA MineFrame ==
    ASSUME task' = task, Kept' = Kept, mine' = mine, NEW cur, MineBut(cur)
    PROVE  MineBut(cur)'
BY DEF MineBut

-----------------------------------------------------------------------------
(* The callback of cur.                                                     *)

\* What the steps of the callback of cur do, each to its part.
LEMMA CallbackOfCur ==
    ASSUME ServerInv, NEW j \in Jobs, Callback(j), NEW cur, NEW gone, JobOf(cur), ListBut(cur, gone)
    PROVE  /\ cur \in Subs /\ Exists(cur) /\ j \in Uncounted /\ job[j].sub = cur /\ job[j].newsub
           /\ \A k \in Uncounted : k = j
           /\ StoreResult(j) \/ CountNew(j) \/ SetEvaluation(j)
<1>1. j \in Uncounted
  BY ServerFacts, CallbackJobs
<1>2. /\ cur \in Subs /\ Exists(cur) /\ job[j].sub = cur /\ job[j].newsub
      /\ \A k \in Uncounted : k = j
  BY <1>1 DEF JobOf, ListBut
<1>3. ~CountReplay(j) /\ ~CountDeleted(j)
  BY <1>2 DEF CountReplay, CountDeleted
<1> QED
  BY <1>1, <1>2, <1>3 DEF Callback

\* The result is stored.
LEMMA StoreUnder ==
    ASSUME ServerInv, NEW j \in Jobs, StoreResult(j), colour' = colour, tries' = tries,
           NEW cur, NEW gone, NEW made, Under(cur, gone, made)
    PROVE  /\ Under(cur, gone, made)' /\ Kept' = Kept /\ task' = task /\ setting' = setting
           /\ \A k \in Jobs : job'[k].phase = "raised" => job[k].phase = "raised"
<1>0. Parts /\ JobOf(cur) /\ ListBut(cur, gone) /\ TriesBut(made)
  BY ServerFacts DEF Under
<1>1. /\ cur \in Subs /\ Exists(cur) /\ j \in Uncounted /\ job[j].sub = cur /\ job[j].newsub
      /\ \A k \in Uncounted : k = j
  BY <1>0, CallbackOfCur DEF Callback
<1>2. PICK o \in Outcomes \cup {Crash} :
        /\ doc' = [doc EXCEPT ![cur] = Finished(o)]
        /\ job' = [job EXCEPT ![j].phase = "stored", ![j].set = {o}]
  BY <1>1 DEF StoreResult
<1>3. task' = task /\ setting' = setting
  BY DEF StoreResult
<1>4. /\ job'[j].phase = "stored" /\ job'[j].sub = cur /\ job'[j].newsub
      /\ \A k \in Jobs \ {j} : job'[k] = job[k]
      /\ job[j].phase = "sent"
  BY <1>0, <1>1, <1>2 DEF Parts, JobType, StoreResult
<1>5. Uncounted' = Uncounted /\ (Owed' <=> Owed)
  BY <1>4 DEF Uncounted, Owed
<1>6. Finished(o).status \in {"done", "error"}
  BY DEF Finished
<1>7. /\ doc'[cur].status \in {"done", "error"}
      /\ \A s \in Subs : s # cur => doc'[s] = doc[s]
  BY <1>0, <1>1, <1>2, <1>6 DEF Parts
<1>8. Kept' = Kept
  BY <1>1, <1>7 DEF Kept, Exists
<1>9. JobOf(cur)'
  <2>1. cur # 0
    BY <1>1, ServerFacts
  <2> QED
    BY <1>1, <1>4, <1>5, <2>1 DEF JobOf
<1>10. ListBut(cur, gone)'
  BY <1>0, <1>7 DEF ListBut, Exists, ColourOf
<1>11. TriesBut(made)'
  BY <1>0, <1>3, <1>5 DEF TriesBut
<1> QED
  BY <1>3, <1>4, <1>8, <1>9, <1>10, <1>11 DEF Under

\* The attempt is counted, by the page or by user_tasks first.
LEMMA CountUnder ==
    ASSUME ServerInv, NEW j \in Jobs, CountNew(j), colour' = colour, tries' = tries, tries \in Int,
           NEW cur, NEW gone, NEW made, Under(cur, gone, made)
    PROVE  /\ Under(cur, gone, made)' /\ Kept' = Kept /\ task'.sub = task.sub /\ setting' = setting
           /\ \A k \in Jobs : job'[k].phase = "raised" => job[k].phase = "raised"
<1>0. Parts /\ JobOf(cur) /\ ListBut(cur, gone) /\ TriesBut(made)
  BY ServerFacts DEF Under
<1>1. /\ cur \in Subs /\ Exists(cur) /\ j \in Uncounted /\ job[j].sub = cur /\ job[j].newsub
      /\ \A k \in Uncounted : k = j
  BY <1>0, CallbackOfCur DEF Callback
<1>2. PICK set : /\ set = {Evaluation(o.result, o.grade, cur) :
                             o \in {r \in job[j].set : evaluate = "last" \/ (evaluate = "best" /\ task.grade <= r.grade)}}
                 /\ Ready(j, set)
  BY <1>1 DEF CountNew
<1>3. (\A e \in set : e.sub = cur) /\ (set # {} => evaluate # "student")
  BY <1>2 DEF Evaluation
<1>4. /\ setting' = setting /\ doc' = doc /\ job[j].phase = "stored"
      /\ task' = [task EXCEPT !.tried = @ + 1]
  BY DEF CountNew
<1>5. task'.tried = task.tried + 1 /\ task'.sub = task.sub /\ task.tried \in Nat
  BY <1>0, <1>4 DEF Parts, TaskType
<1>6. /\ set = {} => Uncounted' = {}
      /\ set # {} => /\ Uncounted' = Uncounted
                     /\ job'[j].phase = "setting" /\ job'[j].set = set
                     /\ job'[j].sub = cur /\ job'[j].newsub
      /\ \A k \in Jobs \ {j} : job'[k] = job[k]
  <2>1. /\ set = {} => Uncounted' = Uncounted \ {j}
        /\ set # {} => /\ Uncounted' = Uncounted
                       /\ job'[j].phase = "setting" /\ job'[j].set = set
                       /\ job'[j].sub = job[j].sub /\ job'[j].newsub = job[j].newsub
        /\ \A k \in Jobs \ {j} : job'[k] = job[k]
    BY <1>0, <1>1, <1>2, ReadyIsCounted
  <2>2. Uncounted \ {j} = {}
    BY <1>1
  <2> QED
    BY <1>1, <2>1, <2>2
<1>7. Owed /\ ~Owed'
  <2>1. Owed
    BY <1>4 DEF Owed
  <2>2. ASSUME Owed' PROVE FALSE
    <3>1. PICK k \in Jobs : job'[k].phase \in {"sent", "stored"}
      BY <2>2 DEF Owed
    <3>2. k \in Uncounted'
      BY <3>1 DEF Uncounted
    <3> QED
      BY <1>1, <1>6, <3>1, <3>2
  <2> QED
    BY <2>1, <2>2
<1>8. TriesBut(made)'
  BY <1>0, <1>5, <1>7 DEF TriesBut
<1>9. JobOf(cur)'
  <2>1. cur # 0
    BY <1>1, ServerFacts
  <2> QED
    BY <1>1, <1>3, <1>4, <1>6, <2>1 DEF JobOf, evaluate
<1>10. ListBut(cur, gone)' /\ Kept' = Kept
  BY <1>0, <1>4 DEF ListBut, Exists, ColourOf, Kept
<1>11. job'[j].phase # "raised"
  <2>1. CASE set # {}
    BY <1>6, <2>1
  <2>2. CASE set = {}
    BY <1>0, <1>2, <2>2 DEF Ready, Over, Forgotten, NoJob, Parts
  <2> QED
    BY <2>1, <2>2
<1> QED
  BY <1>4, <1>5, <1>6, <1>8, <1>9, <1>10, <1>11 DEF Under

\* user_tasks is set to cur.
LEMMA SetUnder ==
    ASSUME ServerInv, NEW j \in Jobs, SetEvaluation(j), colour' = colour, tries' = tries,
           NEW cur, NEW gone, NEW made, Under(cur, gone, made)
    PROVE  /\ Under(cur, gone, made)' /\ Kept' = Kept /\ task'.sub = cur /\ setting' = setting
           /\ evaluate # "student"
           /\ \A k \in Jobs : job'[k].phase = "raised" => job[k].phase = "raised"
<1>0. Parts /\ JobOf(cur) /\ ListBut(cur, gone) /\ TriesBut(made)
  BY ServerFacts DEF Under
<1>1. /\ cur \in Subs /\ Exists(cur) /\ j \in Uncounted /\ job[j].sub = cur
      /\ \A k \in Uncounted : k = j
  BY <1>0, CallbackOfCur DEF Callback
<1>2. /\ setting' = setting /\ doc' = doc /\ job[j].phase = "setting"
      /\ job' = [job EXCEPT ![j] = Over(j, "called")]
      /\ evaluate # "student"
  BY <1>0, <1>1 DEF SetEvaluation, JobOf
<1>3. PICK e \in job[j].set : task' = Evaluated(e) /\ e.sub = cur
  BY <1>0, <1>1, <1>2 DEF SetEvaluation, JobOf
<1>4. task'.sub = cur /\ task'.tried = task.tried
  <2>1. cur # 0
    BY <1>1, ServerFacts
  <2> QED
    BY <1>0, <1>3, <2>1 DEF Evaluated, Parts, TaskType
<1>5. Uncounted' = {} /\ \A k \in Jobs \ {j} : job'[k] = job[k]
  <2>1. Uncounted' = Uncounted \ {j}
    BY <1>0, <1>2, OverIsCounted
  <2>2. \A k \in Jobs \ {j} : job'[k] = job[k]
    BY <1>0, <1>2 DEF Parts
  <2> QED
    BY <1>1, <2>1, <2>2
<1>6. ~Owed /\ ~Owed'
  <2>1. ASSUME NEW k \in Jobs, job[k].phase \in {"sent", "stored"} PROVE FALSE
    <3>1. k \in Uncounted
      BY <2>1 DEF Uncounted
    <3> QED
      BY <1>1, <1>2, <2>1, <3>1
  <2>2. ASSUME NEW k \in Jobs, job'[k].phase \in {"sent", "stored"} PROVE FALSE
    BY <1>5, <2>2 DEF Uncounted
  <2> QED
    BY <2>1, <2>2 DEF Owed
<1>7. TriesBut(made)' /\ JobOf(cur)'
  BY <1>0, <1>4, <1>5, <1>6 DEF TriesBut, JobOf
<1>8. ListBut(cur, gone)' /\ Kept' = Kept
  BY <1>0, <1>2 DEF ListBut, Exists, ColourOf, Kept
<1>9. job'[j].phase # "raised"
  BY <1>0, <1>2 DEF Over, Forgotten, NoJob, Parts
<1> QED
  BY <1>2, <1>4, <1>5, <1>7, <1>8, <1>9 DEF Under

\* Whichever step of the callback it is.
LEMMA CallbackUnder ==
    ASSUME ServerInv, NEW j \in Jobs, CallbackStep(j), tries \in Int,
           NEW cur, NEW gone, NEW made, Under(cur, gone, made)
    PROVE  /\ cur # 0 /\ Uncounted # {}
           /\ Under(cur, gone, made)' /\ (MineBut(cur) => MineBut(cur)')
           /\ Kept' = Kept /\ setting' = setting
           /\ evaluate = "student" => task'.sub = task.sub
           /\ \A k \in Jobs : job'[k].phase = "raised" => job[k].phase = "raised"
           /\ thread' = thread /\ answer' = answer /\ UNCHANGED page
<1>1. Callback(j) /\ UNCHANGED page /\ JobOf(cur) /\ ListBut(cur, gone)
  BY DEF CallbackStep, Under
<1>2. /\ cur \in Subs /\ j \in Uncounted
      /\ StoreResult(j) \/ CountNew(j) \/ SetEvaluation(j)
  BY <1>1, CallbackOfCur
<1>3. thread' = thread /\ answer' = answer /\ cur # 0
  BY <1>2, ServerFacts DEF StoreResult, CountNew, SetEvaluation
<1>4. mine' = mine /\ colour' = colour /\ tries' = tries
  BY <1>1 DEF page
<1>5. CASE StoreResult(j)
  BY <1>1, <1>2, <1>3, <1>4, <1>5, StoreUnder, MineFrame
<1>6. CASE CountNew(j)
  <2>1. /\ Under(cur, gone, made)' /\ Kept' = Kept /\ task'.sub = task.sub /\ setting' = setting
        /\ \A k \in Jobs : job'[k].phase = "raised" => job[k].phase = "raised"
    BY <1>4, <1>6, CountUnder
  <2>2. MineBut(cur) => MineBut(cur)'
    BY <1>4, <2>1 DEF MineBut
  <2> QED
    BY <1>1, <1>2, <1>3, <2>1, <2>2
<1>7. CASE SetEvaluation(j)
  <2>1. /\ Under(cur, gone, made)' /\ Kept' = Kept /\ task'.sub = cur /\ setting' = setting
        /\ evaluate # "student"
        /\ \A k \in Jobs : job'[k].phase = "raised" => job[k].phase = "raised"
    BY <1>4, <1>7, SetUnder
  <2>2. MineBut(cur)'
    BY <1>3, <2>1 DEF MineBut
  <2> QED
    BY <1>1, <1>2, <1>3, <2>1, <2>2
<1> QED
  BY <1>2, <1>5, <1>6, <1>7

-----------------------------------------------------------------------------
(* The server at work for the call under way.                               *)

\* The submission is inserted: the page does not list it, as it should not yet.
LEMMA InsertFresh ==
    ASSUME ServerInv, NEW t \in Watched, Insert(t), UNCHANGED page, NEW cur, Submits(t, cur)
    PROVE  \E c \in Subs : Submits(t, c)'
<1>0. /\ Parts /\ t \in Threads /\ Watched \subseteq Threads
      /\ thread[t].pc = "checked" /\ sent' = sent /\ timers' = timers /\ colour' = colour
      /\ mine' = mine /\ tries' = tries
      /\ UNCHANGED <<setting, task, job, answer>>
  BY ServerFacts DEF Insert, page
<1>1. /\ sent[t].op = "submit" /\ timers = {} /\ MineBut(0)
      /\ At(t, "checked") /\ Under(0, {}, FALSE)
  BY <1>0 DEF Submits, NotYet, Making, HasMade, HasAnswer, At, Got, Sent
<1>2. PICK c \in Subs : /\ NextSub(c)
                        /\ doc' = [doc EXCEPT ![c].status = "waiting"]
                        /\ thread' = [thread EXCEPT ![t].sub = c, ![t].pc = "inserted"]
  BY DEF Insert
<1>3. /\ thread'[t].pc = "inserted" /\ thread'[t].sub = c
  BY <1>0, <1>2 DEF Parts, ThreadType
<1>4. /\ doc[c].status = "none" /\ doc'[c].status = "waiting"
      /\ \A s \in Subs \ {c} : doc'[s] = doc[s]
  BY <1>0, <1>2 DEF NextSub, Parts, DocType
<1>5. ColourOf(c) = "none" /\ ~Exists(c)
  BY <1>4, ColoursExist DEF Exists
<1>6. c # 0 /\ Exists(c)' /\ c \in Kept' /\ \A s \in Subs \ {c} : (Exists(s)' <=> Exists(s)) /\ (s \in Kept' <=> s \in Kept)
  BY <1>4, ServerFacts DEF Exists, Kept
<1>7. Uncounted = {} /\ Uncounted' = {}
  BY <1>0, <1>1 DEF Under, JobOf, Uncounted
<1>8. TriesBut(FALSE)'
  BY <1>0, <1>1 DEF Under, TriesBut, Owed
<1>9. ListBut(c, {})' /\ colour'[c] = "none"
  <2>1. \A s \in Subs : colour[s] = ColourOf(s)
    BY <1>1, ServerFacts DEF Under, ListBut
  <2>2. \A s \in Subs \ {c} : ColourOf(s)' = ColourOf(s)
    BY <1>4 DEF ColourOf
  <2> QED
    BY <1>0, <1>5, <1>6, <2>1, <2>2 DEF ListBut
<1>10. JobOf(c)'
  BY <1>7 DEF JobOf
<1>11. MineBut(c)'
  <2>1. task.sub \in Kept' /\ task.sub # c => task.sub \in Kept
    BY <1>6 DEF Kept
  <2>2. task.sub \in Kept => task.sub = mine
    BY <1>1, ServerFacts DEF MineBut, Kept
  <2> QED
    BY <1>0, <1>6, <2>1, <2>2 DEF MineBut
<1>12. At(t, "inserted")'
  BY <1>0, <1>1, <1>3 DEF At
<1>13. Making(t, c)'
  BY <1>3, <1>6, <1>7, <1>8, <1>9, <1>10, <1>12 DEF Making, Under, At
<1> QED
  BY <1>0, <1>1, <1>11, <1>13 DEF Submits

\* The submissions to remove are listed by the server.
LEMMA ListFresh ==
    ASSUME ServerInv, NEW t \in Watched, List(t), UNCHANGED page, NEW cur, Submits(t, cur)
    PROVE  Submits(t, cur)'
<1>0. /\ Parts /\ t \in Threads
      /\ thread[t].pc = "inserted" /\ sent' = sent /\ timers' = timers /\ colour' = colour
      /\ mine' = mine /\ tries' = tries
      /\ UNCHANGED <<setting, doc, task, job, answer>>
      /\ thread' = [thread EXCEPT ![t].remove = Exceeding, ![t].pc = "listed"]
  BY ServerFacts DEF List, page, database
<1>1. /\ sent[t].op = "submit" /\ timers = {} /\ MineBut(cur)
      /\ At(t, "inserted") /\ Making(t, cur)
  BY <1>0 DEF Submits, NotYet, Making, HasMade, HasAnswer, At, Got, Sent
<1>2. thread'[t].pc = "listed" /\ thread'[t].remove = Exceeding /\ thread'[t].sub = cur
  BY <1>0, <1>1 DEF Parts, ThreadType, Making
<1>3. \A s \in Exceeding : Exists(s)'
  BY <1>0 DEF Exceeding, Kept, Exists
<1>4. Uncounted' = Uncounted /\ Kept' = Kept
  BY <1>0 DEF Uncounted, Kept, Exists
<1>5. Under(cur, {}, FALSE)' /\ MineBut(cur)'
  BY <1>0, <1>1, <1>4, UnderFrame, MineFrame DEF Making
<1>6. At(t, "listed")'
  BY <1>0, <1>1, <1>2 DEF At
<1>7. Making(t, cur)'
  BY <1>0, <1>1, <1>2, <1>3, <1>4, <1>5, <1>6 DEF Making
<1> QED
  BY <1>0, <1>1, <1>5, <1>7 DEF Submits

\* They are deleted, and are the ones that the page is to remove; the job is owed.
LEMMA LaunchFresh ==
    ASSUME ServerInv, NEW t \in Watched, Launch(t), UNCHANGED page, NEW cur, Submits(t, cur), tries \in Nat
    PROVE  Submits(t, cur)'
<1>0. /\ Parts /\ Cared /\ replayed = {} /\ t \in Threads
      /\ thread[t].pc = "listed" /\ sent' = sent /\ timers' = timers /\ colour' = colour
      /\ mine' = mine /\ tries' = tries
      /\ UNCHANGED <<setting, task, answer>>
  BY ServerFacts DEF Launch, page
<1>1. /\ sent[t].op = "submit" /\ timers = {} /\ MineBut(cur)
      /\ At(t, "listed") /\ Making(t, cur)
  BY <1>0 DEF Submits, NotYet, Making, HasMade, HasAnswer, At, Got, Sent
<1>2. PICK gone : gone = thread[t].remove
  OBVIOUS
<1>3. /\ cur \in Subs /\ cur # 0 /\ thread[t].sub = cur /\ colour[cur] = "none" /\ Exists(cur)
      /\ Uncounted = {} /\ \A s \in gone : Exists(s)
      /\ ListBut(cur, {}) /\ TriesBut(FALSE)
  BY <1>0, <1>1, <1>2 DEF Making, Under, ListBut
<1>4. gone \in SUBSET Subs
  BY <1>0, <1>2 DEF Parts, ThreadType
<1>5. cur \notin gone
  <2>1. t \in Serving(cur)
    BY <1>0, <1>3 DEF Serving
  <2>2. doc[cur].status = "waiting"
    BY <1>0, <1>3, <2>1 DEF Cared, Care
  <2>3. \A s \in gone : doc[s].status \in {"done", "error", "deleted"}
    BY <1>0, <1>2 DEF Cared, Careful
  <2> QED
    BY <2>2, <2>3
<1>6. doc' = [s \in Subs |-> IF s \in gone THEN [Blank EXCEPT !.status = "deleted"] ELSE doc[s]]
  BY <1>2 DEF Launch
<1>7. PICK j \in Jobs : /\ NewJob(j, cur, TRUE)
                        /\ thread' = [thread EXCEPT ![t].job = j, ![t].pc = "launched"]
  BY <1>3 DEF Launch
<1>8. /\ thread'[t].pc = "launched" /\ thread'[t].sub = cur /\ thread'[t].remove = gone /\ thread'[t].job = j
  BY <1>0, <1>2, <1>3, <1>7 DEF Parts, ThreadType
<1>9. /\ Uncounted' = {j} /\ job'[j].phase = "sent" /\ job'[j].sub = cur /\ job'[j].newsub
      /\ Owed' /\ ~Owed
  <2>1. Uncounted' = Uncounted \cup {j} /\ job'[j].phase = "sent" /\ job'[j].sub = cur /\ job'[j].newsub = TRUE
    BY <1>0, <1>3, <1>7, NewIsUncounted
  <2> QED
    BY <1>3, <2>1, NotOwed DEF Owed
<1>10. JobOf(cur)' /\ TriesBut(TRUE)'
  <2>1. JobOf(cur)'
    BY <1>3, <1>9 DEF JobOf
  <2>2. tries = task.tried /\ task' = task /\ tries' = tries
    BY <1>0, <1>3, <1>9 DEF TriesBut, Parts, TaskType
  <2>3. TriesBut(TRUE)'
    BY <1>9, <2>2 DEF TriesBut
  <2> QED
    BY <2>1, <2>3
<1>11. /\ \A s \in gone : doc'[s].status = "deleted"
       /\ \A s \in Subs \ gone : doc'[s] = doc[s]
  BY <1>4, <1>6 DEF Blank
<1>12. ListBut(cur, gone)'
  <2>1. \A s \in Subs \ {cur} : colour[s] = ColourOf(s)
    BY <1>3 DEF ListBut
  <2>2. \A s \in gone : ColourOf(s) # "none" /\ s # cur
    BY <1>3, <1>4, <1>5, ColoursExist
  <2>3. \A s \in Subs \ gone : ColourOf(s)' = ColourOf(s) /\ (Exists(s)' <=> Exists(s))
    BY <1>11 DEF ColourOf, Exists
  <2> QED
    BY <1>0, <1>3, <1>4, <1>5, <1>11, <2>1, <2>2, <2>3 DEF ListBut
<1>13. MineBut(cur)'
  <2>1. task.sub \in Kept' => task.sub \in Kept
    BY <1>11 DEF Kept, Exists
  <2> QED
    BY <1>0, <1>1, <1>3, <2>1 DEF MineBut
<1>14. At(t, "launched")'
  BY <1>0, <1>1, <1>8 DEF At
<1>15. HasMade(t, cur, gone)'
  BY <1>0, <1>3, <1>8, <1>9, <1>10, <1>12, <1>14 DEF HasMade, Under
<1> QED
  BY <1>0, <1>1, <1>4, <1>13, <1>15 DEF Submits

\* The answer tells the page what to list and what to remove.
LEMMA StoreJobIdFresh ==
    ASSUME ServerInv, PageTypes, NEW t \in Watched, StoreJobId(t), UNCHANGED page, NEW cur, Submits(t, cur)
    PROVE  Submits(t, cur)'
<1>0. /\ Parts /\ t \in Threads
      /\ thread[t].pc = "launched" /\ sent' = sent /\ timers' = timers /\ colour' = colour
      /\ mine' = mine /\ tries' = tries
      /\ UNCHANGED <<setting, task>>
  BY ServerFacts DEF StoreJobId, page
<1>1. PICK gone \in SUBSET Subs : HasMade(t, cur, gone)
  BY <1>0 DEF Submits, NotYet, Making, HasAnswer, At, Got, Sent
<1>2. sent[t].op = "submit" /\ timers = {} /\ MineBut(cur) /\ sent[t].arrived
  BY <1>1 DEF Submits, HasMade, At
<1>3. PICK j \in Jobs : /\ j = thread[t].job /\ job[j].phase # "raised"
                        /\ Returned(j) /\ Return(j) /\ ~Raised(j)
  BY <1>1 DEF HasMade, StoreJobId, Raised
<1>4. /\ Uncounted' = Uncounted
      /\ \A k \in Uncounted' : job'[k] = job[k]
  BY <1>0, <1>3, ReturnedIsCounted
<1>5. PICK a : a = [kind |-> "ok", sub |-> cur, remove |-> gone]
  OBVIOUS
<1>6. Reply(t, a) /\ cur \in Subs
  BY <1>1, <1>3, <1>5 DEF StoreJobId, HasMade, Under, ListBut
<1>7. a \in AnswerType /\ a.kind = "ok" /\ a.sub = cur /\ a.remove = gone
  BY <1>5, <1>6 DEF AnswerType
<1>8. answer'[t] = a /\ thread'[t].pc = "idle"
  BY <1>0, <1>6, <1>7, ReplyAnswer DEF Idle
<1>9. \A s \in Subs : doc'[s].status = doc[s].status /\ doc'[s].result = doc[s].result
  BY <1>0 DEF StoreJobId, Parts, DocType
<1>10. Kept' = Kept /\ \A s \in Subs : ColourOf(s)' = ColourOf(s) /\ (Exists(s)' <=> Exists(s))
  BY <1>9 DEF ColourOf, Exists, Kept
<1>11. Under(cur, gone, TRUE)'
  <2>1. Owed' <=> Owed
    BY <1>4 DEF Owed, Uncounted
  <2>2. JobOf(cur)' /\ TriesBut(TRUE)'
    BY <1>0, <1>1, <1>4, <2>1 DEF HasMade, Under, JobOf, TriesBut, evaluate
  <2>3. ListBut(cur, gone)'
    BY <1>0, <1>1, <1>9, <1>10 DEF HasMade, Under, ListBut
  <2> QED
    BY <2>2, <2>3 DEF Under
<1>12. MineBut(cur)'
  BY <1>0, <1>2, <1>10, MineFrame
<1>13. HasAnswer(t, cur, gone)'
  BY <1>0, <1>1, <1>2, <1>7, <1>8, <1>11 DEF HasAnswer, HasMade, Got
<1> QED
  BY <1>0, <1>2, <1>12, <1>13 DEF Submits

\* A step that selects reads the submission, and tells how when it has written.
LEMMA ReadSelectedThread ==
    ASSUME ServerInv, PageTypes, NEW t \in Threads, ReadSelected(t), NEW s, thread[t].sub = s
    PROVE  /\ UNCHANGED <<setting, doc, task, job>>
           /\ Exists(s) /\ doc[s].result # "none" =>
                /\ thread'[t].pc = thread[t].pc /\ thread'[t].sub = s /\ answer' = answer
                /\ \A e \in thread'[t].set : e.sub = s
           /\ ~(Exists(s) /\ doc[s].result # "none") =>
                thread'[t].pc = "idle" /\ (t \in Watched => answer'[t].kind = "fail")
<1>1. Parts
  BY ServerFacts
<1>2. UNCHANGED <<setting, doc, task, job>>
  BY DEF ReadSelected, database
<1>3. ASSUME Exists(s), doc[s].result # "none"
      PROVE  /\ thread'[t].pc = thread[t].pc /\ thread'[t].sub = s /\ answer' = answer
             /\ \A e \in thread'[t].set : e.sub = s
  <2>1. PICK x : x = Evaluation(doc[s].result, doc[s].grade, s)
    OBVIOUS
  <2>2. thread' = [thread EXCEPT ![t].set = {x}] /\ answer' = answer /\ x.sub = s
    BY <1>3, <2>1 DEF ReadSelected, Evaluation
  <2> QED
    BY <1>1, <2>2 DEF Parts, ThreadType
<1>4. ASSUME ~(Exists(s) /\ doc[s].result # "none")
      PROVE  thread'[t].pc = "idle" /\ (t \in Watched => answer'[t].kind = "fail")
  <2>1. Reply(t, Failure)
    BY <1>4 DEF ReadSelected
  <2> QED
    BY <2>1, ReplyAnswer, AnswerTypes DEF Idle
<1> QED
  BY <1>2, <1>3, <1>4

\* ... and the submission that was read is selected.
LEMMA WriteSelectedThread ==
    ASSUME ServerInv, PageTypes, NEW t \in Watched, WriteSelected(t), NEW s \in Subs, \A e \in thread[t].set : e.sub = s
    PROVE  /\ UNCHANGED <<setting, doc, job>>
           /\ task'.sub = s /\ task'.tried = task.tried
           /\ thread'[t].pc = "idle"
           /\ thread[t].pc = "select" => answer'[t].kind = "done"
           /\ thread[t].pc = "missing" => answer'[t].kind = "result" /\ answer'[t].replace = TRUE
<1>1. Parts /\ t \in Threads /\ s # 0
  BY ServerFacts
<1>2. PICK e \in thread[t].set :
        /\ task' = Evaluated(e)
        /\ Reply(t, IF thread[t].pc = "select" THEN [kind |-> "done"] ELSE ResultAnswer(e.succeeded, TRUE))
  BY DEF WriteSelected
<1>3. e.sub = s /\ e.succeeded \in BOOLEAN
  BY <1>1, <1>2 DEF Parts, ThreadType, Evaluations
<1>4. task'.sub = s /\ task'.tried = task.tried
  BY <1>1, <1>2, <1>3 DEF Evaluated, Parts, TaskType
<1>5. CASE thread[t].pc = "select"
  <2>1. PICK a : a = [kind |-> "done"]
    OBVIOUS
  <2>2. a \in AnswerType /\ a.kind = "done" /\ Reply(t, a)
    BY <1>2, <1>5, <2>1, AnswerTypes
  <2> QED
    BY <1>1, <1>4, <1>5, <2>2, ReplyAnswer DEF Idle, WriteSelected
<1>6. CASE thread[t].pc # "select"
  <2>1. PICK a : a = ResultAnswer(e.succeeded, TRUE)
    OBVIOUS
  <2>2. a \in AnswerType /\ a.kind = "result" /\ Reply(t, a)
    BY <1>2, <1>3, <1>6, <2>1, AnswerTypes
  <2>3. a.replace = TRUE
    BY <2>1 DEF ResultAnswer
  <2> QED
    BY <1>1, <1>4, <1>6, <2>2, <2>3, ReplyAnswer DEF Idle, WriteSelected
<1> QED
  BY <1>5, <1>6

\* A check that selects finds a result, and tells that the submission is selected.
LEMMA ServePolls ==
    ASSUME ServerInv, PageTypes, NEW t \in Watched, Serve(t), UNCHANGED page, CheckInv(t),
           ResultsKept, restarts = 0, NEW cur, Polls(t, cur)
    PROVE  Polls(t, cur)'
<1>0. /\ Parts /\ t \in Threads /\ thread[t].pc # "idle"
      /\ sent' = sent /\ timers' = timers /\ colour' = colour
      /\ mine' = mine /\ tries' = tries
  BY ServerFacts, ServeMoves DEF page
<1>1. /\ sent[t].op = "check" /\ sent[t].sub = cur /\ timers = {}
      /\ cur # 0 /\ colour[cur] = "warning"
      /\ Under(cur, {}, FALSE) /\ MineBut(cur) /\ Looks(t, cur)
  BY <1>0 DEF Polls, Sent, Got, Knows
<1>2. /\ At(t, "missing") /\ thread[t].sub = cur /\ Uncounted = {}
      /\ \A e \in thread[t].set : e.sub = cur
      /\ thread[t].pc = "missing" /\ sent[t].arrived /\ answer[t] = NoAnswer
      /\ cur \in Subs /\ Exists(cur)
  BY <1>1 DEF Looks, At, Under, ListBut
<1>3. ReadSelected(t) \/ WriteSelected(t)
  BY <1>2 DEF Serve, Insert, List, Launch, StoreJobId, Overwrite
<1>4. doc[cur].result # "none"
  <2>1. Settled(cur)
    BY <1>1, <1>2 DEF CheckInv
  <2> QED
    BY <1>2, <2>1 DEF ResultsKept, Settled, Exists
<1>5. CASE ReadSelected(t)
  <2>1. /\ UNCHANGED <<setting, doc, task, job>>
        /\ thread'[t].pc = "missing" /\ thread'[t].sub = cur /\ answer' = answer
        /\ \A e \in thread'[t].set : e.sub = cur
    BY <1>0, <1>2, <1>4, <1>5, ReadSelectedThread
  <2>2. Uncounted' = Uncounted /\ Kept' = Kept
    BY <2>1 DEF Uncounted, Kept, Exists
  <2>3. Under(cur, {}, FALSE)' /\ MineBut(cur)'
    BY <1>0, <1>1, <2>1, <2>2, UnderFrame, MineFrame
  <2>4. Looks(t, cur)'
    BY <1>0, <1>2, <2>1, <2>2 DEF Looks, At
  <2> QED
    BY <1>0, <1>1, <2>3, <2>4 DEF Polls
<1>6. CASE WriteSelected(t)
  <2>1. /\ UNCHANGED <<setting, doc, job>>
        /\ task'.sub = cur /\ task'.tried = task.tried
        /\ thread'[t].pc = "idle"
        /\ answer'[t].kind = "result" /\ answer'[t].replace = TRUE
    BY <1>2, <1>6, WriteSelectedThread
  <2>2. Uncounted' = Uncounted /\ Kept' = Kept /\ cur \in Kept
    BY <1>2, <2>1 DEF Uncounted, Kept, Exists
  <2>3. TriesBut(FALSE)' /\ JobOf(cur)'
    BY <1>0, <1>1, <1>2, <2>1, <2>2 DEF Under, TriesBut, Owed, JobOf
  <2>4. ListBut(cur, {})'
    BY <1>0, <1>1, <2>1 DEF Under, ListBut, Exists, ColourOf
  <2>5. MineBut(cur)'
    BY <1>1, <2>1 DEF MineBut
  <2>6. Knows(t, cur)'
    BY <1>0, <1>2, <2>1, <2>2 DEF Knows, Got
  <2> QED
    BY <1>0, <1>1, <2>3, <2>4, <2>5, <2>6 DEF Polls, Under
<1> QED
  BY <1>3, <1>5, <1>6

\* A selection finds no result if the submission waits: it is cur.
LEMMA ServeSelects ==
    ASSUME ServerInv, PageTypes, NEW t \in Watched, Serve(t), UNCHANGED page, Alone(t),
           ResultsKept, restarts = 0, NEW n \in Subs, NEW cur, Selects(t, n, cur)
    PROVE  Selects(t, n, cur)'
<1>0. /\ Parts /\ t \in Threads /\ thread[t].pc # "idle"
      /\ sent' = sent /\ timers' = timers /\ colour' = colour /\ status' = status
      /\ mine' = mine /\ tries' = tries
  BY ServerFacts, ServeMoves DEF page
<1>1. /\ sent[t].op = "select" /\ sent[t].sub = n /\ timers = {cur} \ {0}
      /\ evaluate = "student" /\ n \in Kept
      /\ cur # 0 => colour[cur] = "warning"
      /\ cur = 0 => status = StatusFrom(colour, n)
      /\ Under(cur, {}, FALSE) /\ MineBut(cur) /\ Reads(t, n)
  BY <1>0 DEF Selects, Sent, Got
<1>2. /\ thread[t].sub = n /\ \A e \in thread[t].set : e.sub = n
      /\ thread[t].pc = "select" /\ sent[t].arrived /\ answer[t] = NoAnswer
      /\ Exists(n)
  BY <1>1 DEF Reads, At, Kept
<1>3. ReadSelected(t) \/ WriteSelected(t)
  BY <1>2 DEF Serve, Insert, List, Launch, StoreJobId, Overwrite
<1>4. setting' = setting /\ StatusFrom(colour, n)' = StatusFrom(colour, n)
  BY <1>0, <1>3 DEF ReadSelected, WriteSelected, StatusFrom
<1>5. CASE ReadSelected(t)
  <2>1. UNCHANGED <<setting, doc, task, job>>
    BY <1>0, <1>2, <1>5, ReadSelectedThread
  <2>2. Uncounted' = Uncounted /\ Kept' = Kept
    BY <2>1 DEF Uncounted, Kept, Exists
  <2>3. Under(cur, {}, FALSE)' /\ MineBut(cur)'
    BY <1>0, <1>1, <2>1, <2>2, UnderFrame, MineFrame
  <2>4. CASE doc[n].result # "none"
    <3>1. /\ thread'[t].pc = "select" /\ thread'[t].sub = n /\ answer' = answer
          /\ \A e \in thread'[t].set : e.sub = n
      BY <1>0, <1>2, <1>5, <2>4, ReadSelectedThread
    <3>2. Reads(t, n)'
      BY <1>0, <1>2, <3>1 DEF Reads, At
    <3> QED
      BY <1>0, <1>1, <1>4, <2>2, <2>3, <3>2 DEF Selects, evaluate
  <2>5. CASE doc[n].result = "none"
    <3>1. thread'[t].pc = "idle" /\ answer'[t].kind = "fail"
      BY <1>0, <1>2, <1>5, <2>5, ReadSelectedThread
    <3>2. Got(t, "fail")'
      BY <1>0, <1>2, <3>1 DEF Got
    <3>3. n \in Waiting
      BY <1>2, <2>5 DEF ResultsKept, Waiting, Exists
    <3>4. \A u \in Threads : thread[u].pc \notin {"inserted", "listed"}
      BY <1>2 DEF Alone
    <3>5. cur # 0
      BY <1>1, <3>3, <3>4, WaitsForCur DEF Under
    <3> QED
      BY <1>0, <1>1, <1>4, <2>2, <2>3, <3>2, <3>5 DEF Selects, evaluate
  <2> QED
    BY <2>4, <2>5
<1>6. CASE WriteSelected(t)
  <2>1. /\ UNCHANGED <<setting, doc, job>>
        /\ task'.sub = n /\ task'.tried = task.tried
        /\ thread'[t].pc = "idle" /\ answer'[t].kind = "done"
    BY <1>2, <1>6, WriteSelectedThread
  <2>2. Uncounted' = Uncounted /\ Kept' = Kept
    BY <2>1 DEF Uncounted, Kept, Exists
  <2>3. TriesBut(FALSE)' /\ JobOf(cur)'
    BY <1>0, <1>1, <2>1, <2>2 DEF Under, TriesBut, Owed, JobOf, evaluate
  <2>4. ListBut(cur, {})'
    BY <1>0, <1>1, <2>1 DEF Under, ListBut, Exists, ColourOf
  <2>5. Got(t, "done")'
    BY <1>0, <1>2, <2>1 DEF Got
  <2> QED
    BY <1>0, <1>1, <1>4, <2>1, <2>2, <2>3, <2>4, <2>5 DEF Selects, Under, evaluate
<1> QED
  BY <1>3, <1>5, <1>6

\* Any step of the server for a page that is not stale.
LEMMA ServerFresh ==
    ASSUME PageInv, tries \in Nat, ResultsKept, restarts = 0, FreshMode, NEW t \in Threads, Server(t)
    PROVE  FreshMode'
<1>0. ServerInv /\ PageTypes /\ Parts /\ Watched \subseteq Threads /\ Serve(t) /\ UNCHANGED page
  BY ServerFacts DEF PageInv, Server
<1>1. /\ thread[t].pc # "idle"
      /\ \A u \in Threads \ {t} : thread'[u] = thread[u]
  BY <1>0, ServeMoves
<1>2. PICK cur \in Subs \cup {0} : Resting(cur) \/ \E u \in Watched : Alone(u) /\ Calling(u, cur)
  BY DEF FreshMode
<1>3. ~Resting(cur)
  BY <1>1 DEF Resting
<1>4. t \in Watched /\ Alone(t) /\ Calling(t, cur)
  BY <1>1, <1>2, <1>3 DEF Alone
<1>5. Alone(t)'
  BY <1>0, <1>1, <1>4 DEF Alone, page
<1>6. SUFFICES \E c \in Subs \cup {0} : Calling(t, c)'
  BY <1>4, <1>5 DEF FreshMode
<1>7. CASE Submits(t, cur)
  <2>1. CASE Insert(t)
    BY <1>0, <1>4, <1>7, <2>1, InsertFresh DEF Calling
  <2>2. CASE List(t)
    BY <1>0, <1>4, <1>7, <2>2, ListFresh DEF Calling
  <2>3. CASE Launch(t)
    BY <1>0, <1>4, <1>7, <2>3, LaunchFresh DEF Calling
  <2>4. CASE StoreJobId(t)
    BY <1>0, <1>4, <1>7, <2>4, StoreJobIdFresh DEF Calling
  <2>5. thread[t].pc \in {"checked", "inserted", "listed", "launched"}
    BY <1>1, <1>7 DEF Submits, NotYet, Making, HasMade, HasAnswer, At, Got, Sent
  <2>6. ~Overwrite(t) /\ ~ReadSelected(t) /\ ~WriteSelected(t)
    BY <2>5 DEF Overwrite, ReadSelected, WriteSelected
  <2> QED
    BY <1>0, <2>1, <2>2, <2>3, <2>4, <2>6 DEF Serve
<1>8. CASE Polls(t, cur)
  <2>1. CheckInv(t)
    BY <1>4 DEF PageInv
  <2> QED
    BY <1>0, <1>4, <1>8, <2>1, ServePolls DEF Calling
<1>9. ASSUME NEW n \in Subs, Selects(t, n, cur) PROVE \E c \in Subs \cup {0} : Calling(t, c)'
  BY <1>0, <1>4, <1>9, ServeSelects DEF Calling
<1> QED
  BY <1>4, <1>7, <1>8, <1>9 DEF Calling

\* The callback of cur leaves the call under way where it is.
LEMMA CallbackFresh ==
    ASSUME PageInv, tries \in Nat, FreshMode, NEW j \in Jobs, CallbackStep(j)
    PROVE  FreshMode'
<1>0. ServerInv /\ Parts /\ tries \in Int
  BY ServerFacts DEF PageInv
<1>1. PICK cur \in Subs \cup {0} : Resting(cur) \/ \E u \in Watched : Alone(u) /\ Calling(u, cur)
  BY DEF FreshMode
<1>2. ASSUME NEW gone, NEW made, Under(cur, gone, made)
      PROVE  /\ cur # 0 /\ Uncounted # {}
             /\ Under(cur, gone, made)' /\ (MineBut(cur) => MineBut(cur)')
             /\ Kept' = Kept /\ setting' = setting
             /\ evaluate = "student" => task'.sub = task.sub
             /\ \A k \in Jobs : job'[k].phase = "raised" => job[k].phase = "raised"
             /\ thread' = thread /\ answer' = answer
             /\ sent' = sent /\ timers' = timers /\ colour' = colour /\ status' = status
  BY <1>0, <1>2, CallbackUnder DEF page
<1>3. CASE Resting(cur)
  <2>1. /\ Under(cur, {}, FALSE) /\ MineBut(cur)
    BY <1>3 DEF Resting
  <2>2. Resting(cur)'
    BY <1>2, <1>3, <2>1 DEF Resting
  <2> QED
    BY <2>2 DEF FreshMode
<1>4. ASSUME NEW t \in Watched, Alone(t), Submits(t, cur) PROVE FreshMode'
  <2>1. MineBut(cur)
    BY <1>4 DEF Submits
  <2>2. ~NotYet(t, cur) /\ ~Making(t, cur)
    BY <1>2 DEF NotYet, Making
  <2>3. PICK gone \in SUBSET Subs : HasMade(t, cur, gone) \/ HasAnswer(t, cur, gone)
    BY <1>4, <2>2 DEF Submits
  <2>4. Under(cur, gone, TRUE)
    BY <2>3 DEF HasMade, HasAnswer
  <2>5. HasMade(t, cur, gone) => HasMade(t, cur, gone)'
    BY <1>2, <2>4 DEF HasMade, At
  <2>6. HasAnswer(t, cur, gone) => HasAnswer(t, cur, gone)'
    BY <1>2, <2>4 DEF HasAnswer, Got
  <2>7. Submits(t, cur)' /\ Alone(t)'
    BY <1>2, <1>4, <2>1, <2>3, <2>4, <2>5, <2>6 DEF Submits, Alone
  <2> QED
    BY <2>7 DEF FreshMode, Calling
<1>5. ASSUME NEW t \in Watched, Alone(t), Polls(t, cur) PROVE FreshMode'
  <2>1. Under(cur, {}, FALSE) /\ MineBut(cur)
    BY <1>5 DEF Polls
  <2>2. ~Looks(t, cur) /\ ~Knows(t, cur)
    BY <1>2, <2>1 DEF Looks, Knows
  <2>3. Sent(t) => Sent(t)'
    BY <1>2, <2>1 DEF Sent
  <2>4. Got(t, "waiting") => Got(t, "waiting")'
    BY <1>2, <2>1 DEF Got
  <2>5. Polls(t, cur)' /\ Alone(t)'
    BY <1>2, <1>5, <2>1, <2>2, <2>3, <2>4 DEF Polls, Alone
  <2> QED
    BY <2>5 DEF FreshMode, Calling
<1>6. ASSUME NEW t \in Watched, Alone(t), NEW n \in Subs, Selects(t, n, cur) PROVE FreshMode'
  <2>1. Under(cur, {}, FALSE)
    BY <1>6 DEF Selects
  <2>2. Sent(t) => Sent(t)'
    BY <1>2, <2>1 DEF Sent
  <2>3. Reads(t, n) => Reads(t, n)'
    BY <1>2, <2>1 DEF Reads, At
  <2>4. /\ Got(t, "fail") => Got(t, "fail")'
        /\ Got(t, "done") => Got(t, "done")'
    BY <1>2, <2>1 DEF Got
  <2>5. Selects(t, n, cur)' /\ Alone(t)'
    BY <1>2, <1>6, <2>1, <2>2, <2>3, <2>4 DEF Selects, Alone, evaluate
  <2> QED
    BY <2>5 DEF FreshMode, Calling
<1> QED
  BY <1>1, <1>3, <1>4, <1>5, <1>6 DEF Calling

-----------------------------------------------------------------------------
(* The page at work.                                                        *)

\* What a page that is opened would show is made of the database.
LEMMA ShownFrame ==
    ASSUME doc' = doc, task' = task
    PROVE  /\ Kept' = Kept /\ Waiting' = Waiting /\ StatusOf' = StatusOf
           /\ \A s \in Subs : ColourOf(s)' = ColourOf(s)
<1>1. Kept' = Kept /\ Waiting' = Waiting /\ \A s \in Subs : ColourOf(s)' = ColourOf(s)
  BY DEF Kept, Exists, Waiting, ColourOf
<1>2. EvalSubmission' = EvalSubmission /\ EvalSubmission \subseteq Subs
  BY <1>1 DEF EvalSubmission, Kept
<1> QED
  BY <1>1, <1>2 DEF StatusOf

\* A page that is opened while nothing goes on is the truth.
LEMMA OpenFresh ==
    ASSUME PageInv, Open, ~stale'
    PROVE  openedOn' = 0 /\ FreshMode' /\ tries' \in Nat
<1>0. ServerInv /\ Parts
  BY ServerFacts DEF PageInv
<1>1. /\ Uncounted = {} /\ \A t \in Threads : thread[t].pc = "idle"
      /\ Quiet
  BY DEF Open, Quiet
<1>2. Waiting = {}
  BY <1>0, <1>1, NothingWaits
<1>3. /\ openedOn' = 0 /\ timers' = {}
      /\ colour' = [s \in Subs |-> ColourOf(s)]
      /\ mine' = IF EvalSubmission = {} THEN 0 ELSE task.sub
      /\ status' = StatusOf
      /\ tries' = task.tried
      /\ \A t \in Watched : sent'[t].op = "none"
      /\ UNCHANGED <<doc, task, job, thread, setting>>
  BY <1>2 DEF Open, vars, database, NoCall
<1>4. tries' \in Nat
  BY <1>0, <1>3 DEF Parts, TaskType
<1>5. /\ Kept' = Kept /\ StatusOf' = StatusOf /\ \A s \in Subs : ColourOf(s)' = ColourOf(s)
      /\ Uncounted' = Uncounted /\ \A t \in Threads : thread'[t].pc = "idle"
  BY <1>1, <1>3, ShownFrame DEF Uncounted
<1>6. ~Owed' /\ JobOf(0)'
  BY <1>1, <1>5 DEF Owed, Uncounted, JobOf
<1>7. TriesBut(FALSE)'
  BY <1>0, <1>3, <1>6 DEF TriesBut, Parts, TaskType
<1>8. ListBut(0, {})'
  BY <1>0, <1>3, <1>5 DEF ListBut
<1>9. MineBut(0)'
  BY <1>3, <1>5 DEF MineBut, EvalSubmission
<1>10. Resting(0)'
  BY <1>3, <1>5, <1>6, <1>7, <1>8, <1>9 DEF Resting, Under
<1> QED
  BY <1>3, <1>4, <1>10 DEF FreshMode

\* A step that leaves alone all but answers that nobody waits for.
LEMMA ModeFrame ==
    ASSUME ServerInv, FreshMode,
           UNCHANGED <<setting, doc, task, job, thread, timers, sent, colour, mine, status, tries>>,
           \A t \in Watched : sent[t].op # "none" => answer'[t] = answer[t]
    PROVE  FreshMode'
<1>1. /\ Kept' = Kept /\ StatusOf' = StatusOf /\ \A s \in Subs : ColourOf(s)' = ColourOf(s)
      /\ Uncounted' = Uncounted
  BY ShownFrame DEF Uncounted
<1>2. PICK cur \in Subs \cup {0} : Resting(cur) \/ \E u \in Watched : Alone(u) /\ Calling(u, cur)
  BY DEF FreshMode
<1>3. \A gone, made : Under(cur, gone, made) => Under(cur, gone, made)'
  BY <1>1, UnderFrame
<1>4. MineBut(cur) => MineBut(cur)'
  BY <1>1, MineFrame
<1>5. Resting(cur) => Resting(cur)'
  BY <1>1, <1>3, <1>4 DEF Resting
<1>6. ASSUME NEW t \in Watched, Alone(t), Calling(t, cur) PROVE FreshMode'
  <2>1. sent[t].op # "none"
    BY <1>6 DEF Calling, Submits, Polls, Selects
  <2>2. answer'[t] = answer[t] /\ Alone(t)'
    BY <1>6, <2>1 DEF Alone
  <2>3. /\ Sent(t) => Sent(t)'
        /\ \A pc : At(t, pc) => At(t, pc)'
        /\ \A kind : Got(t, kind) => Got(t, kind)'
    BY <2>2 DEF Sent, At, Got
  <2>4. CASE Submits(t, cur)
    <3>1. NotYet(t, cur) => NotYet(t, cur)'
      BY <1>3, <2>3 DEF NotYet
    <3>2. Making(t, cur) => Making(t, cur)'
      BY <1>1, <1>3, <2>3 DEF Making, Exists
    <3>3. \A gone : /\ HasMade(t, cur, gone) => HasMade(t, cur, gone)'
                    /\ HasAnswer(t, cur, gone) => HasAnswer(t, cur, gone)'
      BY <1>3, <2>2, <2>3 DEF HasMade, HasAnswer
    <3> QED
      BY <1>4, <2>2, <2>4, <3>1, <3>2, <3>3 DEF Submits, Calling, FreshMode
  <2>5. CASE Polls(t, cur)
    <3>1. Looks(t, cur) => Looks(t, cur)'
      BY <1>1, <2>3 DEF Looks
    <3>2. Knows(t, cur) => Knows(t, cur)'
      BY <1>1, <2>2, <2>3 DEF Knows
    <3> QED
      BY <1>3, <1>4, <2>2, <2>3, <2>5, <3>1, <3>2 DEF Polls, Calling, FreshMode
  <2>6. ASSUME NEW n \in Subs, Selects(t, n, cur) PROVE FreshMode'
    <3>1. Reads(t, n) => Reads(t, n)'
      BY <2>3 DEF Reads
    <3>2. Selects(t, n, cur)'
      BY <1>1, <1>3, <1>4, <2>3, <2>6, <3>1 DEF Selects, evaluate, StatusFrom
    <3> QED
      BY <2>2, <3>2 DEF Calling, FreshMode
  <2> QED
    BY <1>6, <2>4, <2>5, <2>6 DEF Calling
<1> QED
  BY <1>2, <1>5, <1>6 DEF FreshMode

\* Before a call is sent none is under way: the form would be disabled, or the call
\* would meet a selection.
LEMMA RestsBefore ==
    ASSUME PageInv, FormInv, openedOn = 0, FreshMode, NEW t \in Watched, NEW op, NEW s,
           Free(t), Send(t, op, s), ~stale',
           (\E u \in Watched : AsksFor(u)) => op = "select"
    PROVE  /\ \E cur \in Subs \cup {0} : Resting(cur)
           /\ \A u \in Threads : thread[u].pc = "idle"
           /\ \A u \in Watched : sent[u].op = "none"
<1>1. PICK cur \in Subs \cup {0} : Resting(cur) \/ \E u \in Watched : Alone(u) /\ Calling(u, cur)
  BY DEF FreshMode
<1>2. ASSUME NEW u \in Watched, Calling(u, cur) PROVE FALSE
  <2>1. sent[u].op \in {"submit", "check", "select"}
    BY <1>2 DEF Calling, Submits, Polls, Selects
  <2>2. sent[u] # NoCall
    BY <2>1 DEF NoCall
  <2>3. op = "select" \/ sent[u].op = "select"
    BY <2>1 DEF AsksFor
  <2> QED
    BY <2>2, <2>3 DEF Send
<1>3. Resting(cur)
  BY <1>1, <1>2
<1> QED
  BY <1>3 DEF Resting

\* A call that is sent by a page at rest.
LEMMA SendFresh ==
    ASSUME PageInv, NEW t \in Watched, NEW op \in {"submit", "check", "select"}, NEW s \in Subs \cup {0},
           Free(t), Send(t, op, s), UNCHANGED <<vars, colour, mine, tries>>, NEW cur, Resting(cur)
    PROVE  /\ sent'[t].op = op /\ sent'[t].sub = s /\ Sent(t)' /\ Alone(t)'
           /\ Under(cur, {}, FALSE)' /\ MineBut(cur)'
           /\ Kept' = Kept /\ setting' = setting /\ cur \in Subs \cup {0}
           /\ cur # 0 => colour'[cur] = "warning"
           /\ timers = {cur} \ {0}
<1>1. /\ sent'[t].op = op /\ sent'[t].sub = s /\ ~sent'[t].arrived
      /\ \A u \in Watched \ {t} : sent'[u] = sent[u]
  BY SendCalls, ListedKnown
<1>2. UNCHANGED <<setting, doc, task, job, thread, answer>>
  BY DEF vars, database
<1>3. Kept' = Kept /\ Uncounted' = Uncounted
  BY <1>2, ShownFrame DEF Uncounted
<1>4. Under(cur, {}, FALSE)' /\ MineBut(cur)'
  BY <1>2, <1>3, UnderFrame, MineFrame DEF Resting
<1>5. Sent(t)' /\ Alone(t)'
  BY <1>1, <1>2 DEF Free, Sent, Alone, Resting
<1>6. cur \in Subs \cup {0}
  BY DEF Resting, Under, ListBut
<1> QED
  BY <1>1, <1>2, <1>3, <1>4, <1>5, <1>6 DEF Resting

\* Clicks.  The form is enabled: no submission is polled.
LEMMA ClickFresh ==
    ASSUME PageInv, FormInv, openedOn = 0, FreshMode, Click, ~stale'
    PROVE  FreshMode'
<1>0. ServerInv /\ Parts
  BY ServerFacts DEF PageInv
<1>1. ASSUME NEW s \in Subs, Load(s) PROVE FreshMode'
  BY <1>0, <1>1, ModeFrame DEF Load, vars, database
<1>2. ASSUME NEW t \in Watched, Submit(t) PROVE FreshMode'
  <2>1. /\ Free(t) /\ ~blurred /\ Send(t, "submit", 0) /\ timers' = timers
        /\ UNCHANGED <<vars, colour, mine, tries>>
    BY <1>2 DEF Submit
  <2>2. timers = {} /\ \A u \in Watched : ~AsksFor(u)
    BY <2>1 DEF FormInv
  <2>3. PICK cur \in Subs \cup {0} : Resting(cur)
    BY <2>1, <2>2, RestsBefore
  <2>4. cur = 0
    BY <2>2, <2>3 DEF Resting
  <2>5. /\ sent'[t].op = "submit" /\ Sent(t)' /\ Alone(t)'
        /\ Under(cur, {}, FALSE)' /\ MineBut(cur)'
    BY <2>1, <2>3, SendFresh
  <2>6. Submits(t, cur)'
    BY <2>1, <2>2, <2>4, <2>5 DEF Submits, NotYet
  <2> QED
    BY <2>5, <2>6 DEF Calling, FreshMode
<1>3. ASSUME NEW t \in Watched, NEW s \in Subs, SelectClicked(t, s) PROVE FreshMode'
  <2>1. /\ Free(t) /\ Send(t, "select", s) /\ timers' = timers /\ evaluate = "student"
        /\ UNCHANGED <<vars, colour, mine, tries>> /\ s \in Listed
        /\ status' = StatusFrom(colour, s)
    BY <1>3 DEF SelectClicked
  <2>2. PICK cur \in Subs \cup {0} : Resting(cur)
    BY <2>1, RestsBefore
  <2>3. s \in Kept
    <3>1. s = cur => Exists(s)
      BY <1>0, <2>2, ServerFacts DEF Resting, Under, ListBut
    <3>2. s # cur => colour[s] = ColourOf(s)
      BY <2>2 DEF Resting, Under, ListBut
    <3> QED
      BY <1>0, <2>1, <3>1, <3>2, ColoursExist DEF Listed, Kept
  <2>4. /\ sent'[t].op = "select" /\ sent'[t].sub = s /\ Sent(t)' /\ Alone(t)'
        /\ Under(cur, {}, FALSE)' /\ MineBut(cur)'
        /\ Kept' = Kept /\ setting' = setting
        /\ cur # 0 => colour'[cur] = "warning"
        /\ timers = {cur} \ {0}
    BY <2>1, <2>2, SendFresh
  <2>5. Selects(t, s, cur)'
    BY <2>1, <2>3, <2>4 DEF Selects, evaluate, StatusFrom
  <2> QED
    BY <2>4, <2>5 DEF Calling, FreshMode
<1> QED
  BY <1>1, <1>2, <1>3 DEF Click

\* A timeout.
LEMMA PollFresh ==
    ASSUME PageInv, FormInv, openedOn = 0, FreshMode, NEW t \in Watched, NEW s \in Subs, Poll(t, s), ~stale'
    PROVE  FreshMode'
<1>1. /\ Free(t) /\ Send(t, "check", s) /\ s \in timers /\ timers' = timers \ {s}
      /\ UNCHANGED <<vars, colour, mine, tries>>
  BY DEF Poll
<1>2. \A u \in Watched : ~AsksFor(u)
  BY <1>1 DEF FormInv
<1>3. PICK cur \in Subs \cup {0} : Resting(cur)
  BY <1>1, <1>2, RestsBefore
<1>4. cur = s /\ cur # 0 /\ timers' = {}
  BY <1>1, <1>3 DEF Resting
<1>5. /\ sent'[t].op = "check" /\ sent'[t].sub = s /\ Sent(t)' /\ Alone(t)'
      /\ Under(cur, {}, FALSE)' /\ MineBut(cur)'
      /\ colour'[cur] = "warning"
  BY <1>1, <1>3, <1>4, SendFresh
<1>6. Polls(t, cur)'
  BY <1>4, <1>5 DEF Polls
<1> QED
  BY <1>5, <1>6 DEF Calling, FreshMode

\* Loads, and answers that nobody waits for.
LEMMA LoadsFresh ==
    ASSUME PageInv, FreshMode, LoadEnds
    PROVE  FreshMode'
<1>0. ServerInv
  BY DEF PageInv
<1>1. UNCHANGED <<vars, timers, sent, colour, mine, status, tries>>
  BY DEF LoadEnds, Loaded, LoadFails
<1> QED
  BY <1>0, <1>1, ModeFrame DEF vars, database

\* An answer that nobody waits for changes nothing.
LEMMA DropFresh ==
    ASSUME PageInv, FreshMode, NEW t \in Watched, Drop(t)
    PROVE  FreshMode'
<1>0. ServerInv /\ SentInv
  BY DEF PageInv
<1>1. Read(t, "none", answer[t]) /\ UNCHANGED <<timers, colour, mine, status, tries>>
  BY DEF Drop
<1>2. /\ sent[t].op = "none" /\ sent' = [sent EXCEPT ![t] = NoCall]
      /\ \A u \in Watched \ {t} : answer'[u] = answer[u]
      /\ UNCHANGED <<setting, doc, task, job, thread>>
  BY <1>1, ReadPage DEF Aside, database
<1>3. sent' = sent
  BY <1>0, <1>2 DEF SentInv
<1> QED
  BY <1>0, <1>1, <1>2, <1>3, ModeFrame

\* The call that arrives is the only one.
LEMMA ArrivesAlone ==
    ASSUME PageInv, FreshMode, NEW t \in Watched, Arrive(t)
    PROVE  \E cur \in Subs \cup {0} : Alone(t) /\ Calling(t, cur) /\ Sent(t)
<1>1. PICK cur \in Subs \cup {0} : Resting(cur) \/ \E u \in Watched : Alone(u) /\ Calling(u, cur)
  BY DEF FreshMode
<1>2. sent[t].op # "none" /\ ~sent[t].arrived
  BY DEF Arrive
<1>3. Alone(t) /\ Calling(t, cur)
  BY <1>1, <1>2 DEF Resting, Alone
<1>4. Sent(t)
  BY <1>2, <1>3 DEF Calling, Submits, Polls, Selects, NotYet, Making, HasMade, HasAnswer, Looks, Knows, Reads, At, Got
<1> QED
  BY <1>3, <1>4

\* What the calls do when they arrive, and what they leave alone.
LEMMA ArriveFrame ==
    ASSUME PageInv, NEW t \in Watched, Arrive(t), Alone(t), NEW cur, Under(cur, {}, FALSE)
    PROVE  /\ sent'[t].op = sent[t].op /\ sent'[t].sub = sent[t].sub /\ sent'[t].arrived
           /\ Alone(t)' /\ Under(cur, {}, FALSE)' /\ (MineBut(cur) => MineBut(cur)')
           /\ Kept' = Kept /\ Uncounted' = Uncounted /\ setting' = setting /\ task' = task
           /\ timers' = timers /\ colour' = colour /\ status' = status /\ tries' = tries
           /\ thread[t] = Idle /\ thread \in [Threads -> ThreadType] /\ t \in Threads
<1>0. ServerInv /\ PageTypes /\ SentInv /\ Parts /\ t \in Threads /\ Watched \subseteq Threads
  BY ServerFacts DEF PageInv
<1>1. UNCHANGED <<setting, doc, task, job>> /\ thread[t].pc = "idle"
  BY DEF Arrive, Post, Check, Select, database
<1>2. /\ sent' = [sent EXCEPT ![t].arrived = TRUE]
      /\ UNCHANGED <<timers, colour, mine, status, tries>>
  BY DEF Arrive
<1>3. /\ sent'[t].op = sent[t].op /\ sent'[t].sub = sent[t].sub /\ sent'[t].arrived
      /\ \A u \in Watched \ {t} : sent'[u] = sent[u]
  BY <1>0, <1>2 DEF SentInv, CallType
<1>4. \A u \in Threads \ {t} : thread'[u] = thread[u]
  BY <1>0 DEF Arrive, Post, Check, Select, Reply, Goto, Parts
<1>5. Kept' = Kept /\ Uncounted' = Uncounted
  BY <1>1, ShownFrame DEF Uncounted
<1>6. Under(cur, {}, FALSE)' /\ (MineBut(cur) => MineBut(cur)')
  BY <1>1, <1>2, <1>5, UnderFrame, MineFrame
<1>7. Alone(t)'
  BY <1>3, <1>4 DEF Alone
<1> QED
  BY <1>0, <1>1, <1>2, <1>3, <1>5, <1>6, <1>7, ServerFacts DEF Parts

\* The call of t arrives: the submission begins, unless one waits or there are too many.
LEMMA PostFresh ==
    ASSUME PageInv, NEW t \in Watched, Arrive(t), Alone(t), Sent(t), NEW cur, Submits(t, cur)
    PROVE  Submits(t, cur)' /\ Alone(t)'
<1>0. ServerInv /\ PageTypes
  BY DEF PageInv
<1>1. sent[t].op = "submit" /\ timers = {} /\ MineBut(cur) /\ NotYet(t, cur) /\ answer[t] = NoAnswer
  BY DEF Submits, Making, HasMade, HasAnswer, Sent, At, Got
<1>2. cur = 0 /\ Under(cur, {}, FALSE)
  BY <1>1 DEF NotYet
<1>3. /\ sent'[t].op = sent[t].op /\ sent'[t].arrived
      /\ Alone(t)' /\ Under(cur, {}, FALSE)' /\ MineBut(cur)' /\ timers' = timers
      /\ thread[t] = Idle /\ thread \in [Threads -> ThreadType] /\ t \in Threads
  BY <1>1, <1>2, ArriveFrame
<1>4. Reply(t, ErrorAnswer) \/ (thread' = [thread EXCEPT ![t].pc = "checked"] /\ answer' = answer)
  BY <1>1 DEF Arrive, Post, Goto
<1>5. CASE Reply(t, ErrorAnswer)
  <2>1. Got(t, "error")'
    BY <1>0, <1>3, <1>5, ReplyAnswer, AnswerTypes DEF Got, Idle
  <2> QED
    BY <1>1, <1>2, <1>3, <2>1 DEF Submits, NotYet
<1>6. CASE thread' = [thread EXCEPT ![t].pc = "checked"] /\ answer' = answer
  <2>1. At(t, "checked")'
    BY <1>1, <1>3, <1>6 DEF At, ThreadType
  <2> QED
    BY <1>1, <1>2, <1>3, <2>1 DEF Submits, NotYet
<1> QED
  BY <1>4, <1>5, <1>6

\* A check is answered, or selects cur, once its callback has ended: the page is not told
\* of a result before it is counted.
LEMMA CheckFresh ==
    ASSUME PageInv, NEW t \in Watched, Arrive(t), Alone(t), Sent(t), ~stale', NEW cur, Polls(t, cur)
    PROVE  Polls(t, cur)' /\ Alone(t)'
<1>0. ServerInv /\ PageTypes /\ Watched \subseteq Threads
  BY ServerFacts DEF PageInv
<1>1. /\ sent[t].op = "check" /\ sent[t].sub = cur /\ timers = {}
      /\ cur # 0 /\ colour[cur] = "warning"
      /\ Under(cur, {}, FALSE) /\ MineBut(cur) /\ answer[t] = NoAnswer
  BY DEF Polls, Sent
<1>2. /\ sent'[t].op = "check" /\ sent'[t].sub = cur /\ sent'[t].arrived
      /\ Alone(t)' /\ Under(cur, {}, FALSE)' /\ MineBut(cur)' /\ timers' = timers /\ colour' = colour
      /\ Uncounted' = Uncounted /\ task' = task /\ Kept' = Kept
      /\ thread[t] = Idle /\ thread \in [Threads -> ThreadType] /\ t \in Threads
  BY <1>1, ArriveFrame
<1>3. cur \in Subs /\ Exists(cur) /\ JobOf(cur) /\ Check(t, cur) /\ ~HalfCounted(cur)
  BY <1>1 DEF Under, ListBut, Arrive
<1>4. SUFFICES Looks(t, cur)' \/ Got(t, "waiting")' \/ Knows(t, cur)'
  BY <1>1, <1>2 DEF Polls
<1>5. CASE cur \in Waiting
  <2>1. PICK a : a = [kind |-> "waiting"]
    OBVIOUS
  <2>2. a \in AnswerType /\ a.kind = "waiting" /\ Reply(t, a)
    BY <1>3, <1>5, <2>1, AnswerTypes DEF Check
  <2> QED
    BY <1>0, <1>2, <2>2, ReplyAnswer DEF Got, Idle
<1>6. CASE cur \notin Waiting
  <2>1. Uncounted = {}
    <3>1. ASSUME NEW j \in Uncounted PROVE FALSE
      <4>1. j \in Jobs /\ job[j].sub = cur
        BY <1>3, <3>1 DEF JobOf, Uncounted
      <4>2. job[j].phase = "sent"
        BY <1>3, <3>1, <4>1 DEF HalfCounted
      <4> QED
        BY <1>0, <1>6, <4>1, <4>2, SentWaits
    <3> QED
      BY <3>1
  <2>2. CASE DefaultMissing
    <3>1. thread' = [thread EXCEPT ![t].pc = "missing", ![t].sub = cur] /\ answer' = answer
      BY <1>3, <1>6, <2>2 DEF Check
    <3>2. thread'[t].pc = "missing" /\ thread'[t].sub = cur /\ thread'[t].set = {}
      BY <1>2, <3>1 DEF Idle, ThreadType
    <3>3. Looks(t, cur)'
      BY <1>1, <1>2, <2>1, <3>1, <3>2 DEF Looks, At
    <3> QED
      BY <3>3
  <2>3. CASE ~DefaultMissing
    <3>1. PICK b \in BOOLEAN, c \in BOOLEAN : b = (doc[cur].result = "success") /\ c = (task.sub = cur)
      OBVIOUS
    <3>2. PICK a : a = ResultAnswer(b, c)
      OBVIOUS
    <3>3. a \in AnswerType /\ a.kind = "result" /\ a.replace = (task.sub = cur)
      BY <3>1, <3>2, AnswerTypes DEF ResultAnswer
    <3>4. Reply(t, a)
      BY <1>3, <1>6, <2>3, <3>1, <3>2 DEF Check
    <3>5. task.sub \in Kept
      <4>1. task.sub \in Subs \cup {0}
        BY <1>0, ServerFacts DEF Parts, TaskType
      <4> QED
        BY <2>3, <4>1 DEF DefaultMissing, Kept
    <3>6. Knows(t, cur)'
      BY <1>0, <1>2, <2>1, <3>3, <3>4, <3>5, ReplyAnswer DEF Knows, Got, Idle
    <3> QED
      BY <3>6
  <2> QED
    BY <2>2, <2>3
<1> QED
  BY <1>5, <1>6

\* A selection begins.
LEMMA SelectFresh ==
    ASSUME PageInv, NEW t \in Watched, Arrive(t), Alone(t), Sent(t), NEW n \in Subs, NEW cur, Selects(t, n, cur)
    PROVE  Selects(t, n, cur)' /\ Alone(t)'
<1>1. /\ sent[t].op = "select" /\ sent[t].sub = n /\ timers = {cur} \ {0}
      /\ evaluate = "student" /\ n \in Kept
      /\ cur # 0 => colour[cur] = "warning"
      /\ cur = 0 => status = StatusFrom(colour, n)
      /\ Under(cur, {}, FALSE) /\ MineBut(cur) /\ answer[t] = NoAnswer
  BY AnswerTypes DEF Selects, Sent, Got, NoAnswer
<1>2. /\ sent'[t].op = "select" /\ sent'[t].sub = n /\ sent'[t].arrived
      /\ Alone(t)' /\ Under(cur, {}, FALSE)' /\ MineBut(cur)'
      /\ timers' = timers /\ colour' = colour /\ status' = status
      /\ Kept' = Kept /\ setting' = setting
      /\ thread[t] = Idle /\ thread \in [Threads -> ThreadType] /\ t \in Threads
  BY <1>1, ArriveFrame
<1>3. thread' = [thread EXCEPT ![t].pc = "select", ![t].sub = n] /\ answer' = answer
  BY <1>1 DEF Arrive, Select
<1>4. thread'[t].pc = "select" /\ thread'[t].sub = n /\ thread'[t].set = {}
  BY <1>2, <1>3 DEF Idle, ThreadType
<1>5. Reads(t, n)'
  BY <1>1, <1>2, <1>3, <1>4 DEF Reads, At
<1> QED
  BY <1>1, <1>2, <1>5 DEF Selects, evaluate, StatusFrom

\* Whatever the call that arrives.
LEMMA ArriveFresh ==
    ASSUME PageInv, FreshMode, NEW t \in Watched, Arrive(t), ~stale'
    PROVE  FreshMode'
<1>1. PICK cur \in Subs \cup {0} : Alone(t) /\ Calling(t, cur) /\ Sent(t)
  BY ArrivesAlone
<1>2. Calling(t, cur)' /\ Alone(t)'
  BY <1>1, PostFresh, CheckFresh, SelectFresh DEF Calling
<1> QED
  BY <1>2 DEF FreshMode

\* Once the answer to the call under way is read, nothing is asked.
LEMMA ReadFresh ==
    ASSUME PageInv, FreshMode, NEW t \in Watched, NEW op, NEW a, Read(t, op, a), op # "none"
    PROVE  /\ \E cur \in Subs \cup {0} : Calling(t, cur)
           /\ \A u \in Watched : sent'[u].op = "none"
           /\ \A u \in Threads : u # t \/ thread[u].pc = "idle" => thread'[u].pc = "idle"
           /\ UNCHANGED <<setting, doc, task, job, thread>>
           /\ Kept' = Kept /\ StatusOf' = StatusOf /\ Uncounted' = Uncounted
           /\ \A s \in Subs : ColourOf(s)' = ColourOf(s)
           /\ sent[t].op = op /\ answer[t] = a
           /\ ServerInv /\ Parts /\ colour \in [Subs -> {"none", "warning", "success", "danger"}]
<1>1. PICK cur \in Subs \cup {0} : Resting(cur) \/ \E u \in Watched : Alone(u) /\ Calling(u, cur)
  BY DEF FreshMode
<1>2. /\ sent[t].op = op /\ answer[t] = a
      /\ sent'[t] = NoCall /\ \A u \in Watched \ {t} : sent'[u] = sent[u]
      /\ UNCHANGED <<setting, doc, task, job, thread>>
      /\ NoCall.op = "none"
  BY ReadPage DEF Aside, database
<1>3. Alone(t) /\ Calling(t, cur)
  BY <1>1, <1>2 DEF Resting, Alone
<1>4. \A u \in Watched : sent'[u].op = "none"
  BY <1>2, <1>3 DEF Alone
<1>5. \A u \in Threads : u # t \/ thread[u].pc = "idle" => thread'[u].pc = "idle"
  BY <1>2, <1>3 DEF Alone
<1>6. /\ Kept' = Kept /\ StatusOf' = StatusOf /\ Uncounted' = Uncounted
      /\ \A s \in Subs : ColourOf(s)' = ColourOf(s)
  BY <1>2, ShownFrame DEF Uncounted
<1>7. ServerInv /\ Parts /\ colour \in [Subs -> {"none", "warning", "success", "danger"}]
  BY ListedKnown, ServerFacts
<1> QED
  BY <1>2, <1>3, <1>4, <1>5, <1>6, <1>7

\* A page whose list, tries and selection are left alone.
LEMMA RestFresh ==
    ASSUME \A u \in Watched : sent'[u].op = "none",
           \A u \in Threads : thread'[u].pc = "idle",
           UNCHANGED <<setting, doc, task, job, colour, tries>>,
           NEW cur \in Subs \cup {0}, Under(cur, {}, FALSE), MineBut(cur)',
           timers' = {cur} \ {0}, cur # 0 => colour[cur] = "warning",
           cur = 0 => status' \in {StatusOf, "Internal error"}
    PROVE  FreshMode'
<1>1. StatusOf' = StatusOf /\ Uncounted' = Uncounted
  BY ShownFrame DEF Uncounted
<1>2. Under(cur, {}, FALSE)'
  BY <1>1, UnderFrame
<1>3. Resting(cur)'
  BY <1>1, <1>2 DEF Resting
<1> QED
  BY <1>3 DEF FreshMode

\* The page lists cur and waits for it, and removes those that were deleted.
LEMMA AcceptedFresh ==
    ASSUME PageInv, FreshMode, tries \in Nat, NEW t \in Watched, SubmitAccepted(t)
    PROVE  FreshMode'
<1>0. /\ Read(t, "submit", answer[t]) /\ answer[t].kind = "ok"
      /\ tries' = tries + 1 /\ UNCHANGED <<mine, status>>
  BY DEF SubmitAccepted
<1>1. /\ \E cur \in Subs \cup {0} : Calling(t, cur)
      /\ \A u \in Watched : sent'[u].op = "none"
      /\ \A u \in Threads : u # t \/ thread[u].pc = "idle" => thread'[u].pc = "idle"
      /\ UNCHANGED <<setting, doc, task, job, thread>>
      /\ Kept' = Kept /\ StatusOf' = StatusOf /\ Uncounted' = Uncounted
      /\ \A s \in Subs : ColourOf(s)' = ColourOf(s)
      /\ sent[t].op = "submit"
      /\ ServerInv /\ Parts /\ colour \in [Subs -> {"none", "warning", "success", "danger"}]
  BY <1>0, ReadFresh
<1>2. PICK cur \in Subs \cup {0} : Submits(t, cur)
  BY <1>1 DEF Calling, Polls, Selects
<1>3. PICK gone \in SUBSET Subs : HasAnswer(t, cur, gone)
  <2>1. answer[t] # NoAnswer /\ answer[t].kind # "error"
    BY <1>0 DEF NoAnswer
  <2>2. ~NotYet(t, cur)
    BY <2>1 DEF NotYet, Sent, At, Got
  <2>3. ~Making(t, cur)
    BY <2>1 DEF Making, At
  <2>4. \A gone \in SUBSET Subs : ~HasMade(t, cur, gone)
    BY <2>1 DEF HasMade, At
  <2> QED
    BY <1>2, <2>2, <2>3, <2>4 DEF Submits
<1>4. /\ answer[t].sub = cur /\ answer[t].remove = gone /\ cur # 0
      /\ JobOf(cur) /\ ListBut(cur, gone) /\ TriesBut(TRUE)
      /\ MineBut(cur) /\ timers = {} /\ thread[t].pc = "idle"
  BY <1>2, <1>3 DEF HasAnswer, Under, Submits, Got
<1>5. gone \subseteq Listed /\ gone \cap Listed = gone
  BY <1>4 DEF ListBut, Listed
<1>6. /\ colour' = [u \in Subs |-> IF u = cur THEN "warning" ELSE IF u \in gone THEN "none" ELSE colour[u]]
      /\ timers' = {cur}
  BY <1>4, <1>5 DEF SubmitAccepted
<1>7. ListBut(cur, {})' /\ colour'[cur] = "warning"
  <2>1. cur \in Subs /\ Exists(cur) /\ (Exists(cur)' <=> Exists(cur))
    BY <1>1, <1>4 DEF ListBut, Exists
  <2>2. \A s \in gone : s # cur /\ ColourOf(s) = "none"
    BY <1>1, <1>4, ColoursExist DEF ListBut, Exists
  <2>3. \A s \in Subs \ (gone \cup {cur}) : colour[s] = ColourOf(s)
    BY <1>4 DEF ListBut
  <2> QED
    BY <1>1, <1>6, <2>1, <2>2, <2>3 DEF ListBut
<1>8. TriesBut(FALSE)'
  BY <1>0, <1>1, <1>4 DEF TriesBut, Owed
<1>9. JobOf(cur)'
  BY <1>1, <1>4 DEF JobOf, evaluate
<1>10. MineBut(cur)'
  BY <1>0, <1>1, <1>4 DEF MineBut
<1>11. Resting(cur)'
  BY <1>1, <1>4, <1>6, <1>7, <1>8, <1>9, <1>10 DEF Resting, Under
<1> QED
  BY <1>11 DEF FreshMode

\* A submission that is refused, or a selection of a submission that waits, changes nothing.
LEMMA RefusedFresh ==
    ASSUME PageInv, FreshMode, NEW t \in Watched, Refused(t)
    PROVE  FreshMode'
<1>0. /\ Read(t, sent[t].op, answer[t]) /\ Fail(t) /\ answer[t].kind \in {"fail", "error"} /\ sent[t].op # "none"
      /\ UNCHANGED <<mine, tries, timers>> /\ answer[t] # NoAnswer
  BY DEF Refused, NoAnswer, PageInv, SentInv
<1>1. /\ \E cur \in Subs \cup {0} : Calling(t, cur)
      /\ \A u \in Watched : sent'[u].op = "none"
      /\ \A u \in Threads : u # t \/ thread[u].pc = "idle" => thread'[u].pc = "idle"
      /\ UNCHANGED <<setting, doc, task, job, thread>>
      /\ Kept' = Kept
  BY <1>0, ReadFresh
<1>2. PICK cur \in Subs \cup {0} : Calling(t, cur)
  BY <1>1
<1>3. CASE Submits(t, cur)
  <2>1. NotYet(t, cur) /\ Got(t, "error")
    BY <1>0, <1>3 DEF Submits, NotYet, Making, HasMade, HasAnswer, Sent, At, Got
  <2>2. cur = 0 /\ Under(cur, {}, FALSE) /\ MineBut(cur) /\ timers = {} /\ thread[t].pc = "idle" /\ sent[t].op = "submit"
    BY <1>3, <2>1 DEF Submits, NotYet, Got
  <2>3. colour' = colour /\ status' = "Internal error"
    BY <1>0, <2>2 DEF Fail
  <2>4. MineBut(cur)'
    BY <1>0, <1>1, <2>2, MineFrame
  <2> QED
    BY <1>0, <1>1, <2>2, <2>3, <2>4, RestFresh
<1>4. CASE Polls(t, cur)
  BY <1>0, <1>4 DEF Polls, Looks, Knows, Sent, At, Got
<1>5. ASSUME NEW n \in Subs, Selects(t, n, cur) PROVE FreshMode'
  <2>1. Got(t, "fail") /\ cur # 0 /\ MineBut(cur)
    BY <1>0, <1>5 DEF Selects, Reads, Sent, At, Got
  <2>2. Under(cur, {}, FALSE) /\ timers = {cur} \ {0} /\ colour[cur] = "warning" /\ thread[t].pc = "idle" /\ sent[t].op = "select"
    BY <1>5, <2>1 DEF Selects, Got
  <2>3. colour' = colour
    BY <1>0, <2>2 DEF Fail
  <2>4. MineBut(cur)'
    BY <1>0, <1>1, <2>1, MineFrame
  <2> QED
    BY <1>0, <1>1, <1>2, <2>1, <2>2, <2>3, <2>4, RestFresh
<1> QED
  BY <1>2, <1>3, <1>4, <1>5 DEF Calling

\* cur is polled again.
LEMMA StillWaitingFresh ==
    ASSUME PageInv, FreshMode, NEW t \in Watched, StillWaiting(t)
    PROVE  FreshMode'
<1>0. /\ Read(t, "check", answer[t]) /\ answer[t].kind = "waiting"
      /\ timers' = timers \cup {sent[t].sub}
      /\ UNCHANGED <<colour, mine, status, tries>>
  BY DEF StillWaiting
<1>1. /\ \E cur \in Subs \cup {0} : Calling(t, cur)
      /\ \A u \in Watched : sent'[u].op = "none"
      /\ \A u \in Threads : u # t \/ thread[u].pc = "idle" => thread'[u].pc = "idle"
      /\ UNCHANGED <<setting, doc, task, job, thread>>
      /\ Kept' = Kept /\ sent[t].op = "check"
  BY <1>0, ReadFresh
<1>2. PICK cur \in Subs \cup {0} : Polls(t, cur)
  BY <1>1 DEF Calling, Submits, Selects
<1>3. Got(t, "waiting")
  BY <1>0, <1>2 DEF Polls, Looks, Knows, Sent, At, Got, NoAnswer
<1>4. /\ sent[t].sub = cur /\ timers = {} /\ cur # 0 /\ colour[cur] = "warning"
      /\ Under(cur, {}, FALSE) /\ MineBut(cur) /\ thread[t].pc = "idle"
  BY <1>2, <1>3 DEF Polls, Got
<1>5. MineBut(cur)' /\ timers' = {cur} \ {0}
  BY <1>0, <1>1, <1>4, MineFrame
<1> QED
  BY <1>0, <1>1, <1>4, <1>5, RestFresh

\* cur is given the colour of its result, and the page selects what the server has selected.
LEMMA GradedFresh ==
    ASSUME PageInv, FreshMode, NEW t \in Watched, Graded(t)
    PROVE  FreshMode'
<1>0. /\ Read(t, "check", answer[t]) /\ answer[t].kind = "result"
      /\ timers' = timers /\ tries' = tries
  BY DEF Graded
<1>1. /\ \E cur \in Subs \cup {0} : Calling(t, cur)
      /\ \A u \in Watched : sent'[u].op = "none"
      /\ \A u \in Threads : u # t \/ thread[u].pc = "idle" => thread'[u].pc = "idle"
      /\ UNCHANGED <<setting, doc, task, job, thread>>
      /\ Kept' = Kept /\ StatusOf' = StatusOf /\ Uncounted' = Uncounted
      /\ \A s \in Subs : ColourOf(s)' = ColourOf(s)
      /\ sent[t].op = "check"
      /\ ServerInv /\ Parts /\ colour \in [Subs -> {"none", "warning", "success", "danger"}]
  BY <1>0, ReadFresh
<1>2. PICK cur \in Subs \cup {0} : Polls(t, cur)
  BY <1>1 DEF Calling, Submits, Selects
<1>3. Knows(t, cur)
  BY <1>0, <1>2 DEF Polls, Looks, Sent, At, Got, NoAnswer
<1>4. /\ sent[t].sub = cur /\ timers = {} /\ cur # 0 /\ colour[cur] = "warning"
      /\ ListBut(cur, {}) /\ TriesBut(FALSE) /\ MineBut(cur) /\ thread[t].pc = "idle"
      /\ sent[t].arrived /\ Uncounted = {} /\ task.sub \in Kept /\ answer[t].replace = (task.sub = cur)
      /\ cur \in Subs /\ Exists(cur)
  BY <1>2, <1>3 DEF Polls, Knows, Got, Under, ListBut
<1>5. /\ \A u \in Threads : thread'[u].pc = "idle"
      /\ Waiting = {}
  <2>1. \A u \in Threads : thread'[u].pc = "idle"
    BY <1>1, <1>4
  <2>2. \A u \in Threads : thread[u].pc \notin {"inserted", "listed"}
    BY <1>1, <2>1
  <2> QED
    BY <1>1, <1>4, <2>1, <2>2, NothingWaits
<1>6. PICK b \in BOOLEAN : b = answer[t].succeeded /\ (b = (doc[cur].result = "success"))
  <2>1. Told(cur, answer[t].succeeded)
    BY <1>0, <1>1, <1>4 DEF PageInv, CheckInv
  <2> QED
    BY <1>4, <2>1 DEF Told
<1>7. /\ colour' = [colour EXCEPT ![cur] = IF b THEN "success" ELSE "danger"]
      /\ cur \in Listed
  BY <1>4, <1>6 DEF Graded, Listed
<1>8. \A s \in Subs : colour'[s] = ColourOf(s)
  <2>1. ColourOf(cur) = IF b THEN "success" ELSE "danger"
    BY <1>1, <1>4, <1>5, <1>6, ColoursExist
  <2>2. \A s \in Subs : s # cur => colour[s] = ColourOf(s)
    BY <1>4 DEF ListBut
  <2> QED
    BY <1>1, <1>7, <2>1, <2>2
<1>9. SetSelectedSubmission(task.sub)
  <2>1. PICK m : m = IF answer[t].replace THEN cur ELSE mine
    OBVIOUS
  <2>2. SetSelectedSubmission(m)
    BY <1>4, <2>1 DEF Graded
  <2>3. m = task.sub
    BY <1>4, <2>1 DEF MineBut
  <2> QED
    BY <2>2, <2>3
<1>10. task.sub \in Subs /\ task.sub \in Listed
  <2>1. task.sub \in Subs /\ Exists(task.sub)
    BY <1>4 DEF Kept
  <2>2. task.sub = cur \/ colour[task.sub] = ColourOf(task.sub)
    BY <1>4, <2>1 DEF ListBut
  <2> QED
    BY <1>1, <1>4, <2>1, <2>2, ColoursExist DEF Listed
<1>11. mine' = task.sub /\ status' = StatusFrom(colour', task.sub)
  BY <1>9, <1>10 DEF SetSelectedSubmission
<1>12. StatusFrom(colour', task.sub) = StatusOf
  BY <1>1, <1>4, <1>5, <1>8, <1>10, StatusTrue
<1>13. Under(0, {}, FALSE)'
  <2>1. ListBut(0, {})'
    BY <1>1, <1>8 DEF ListBut
  <2>2. JobOf(0)'
    BY <1>1, <1>4 DEF JobOf
  <2>3. TriesBut(FALSE)'
    BY <1>0, <1>1, <1>4 DEF TriesBut, Owed
  <2> QED
    BY <2>1, <2>2, <2>3 DEF Under
<1>14. MineBut(0)'
  BY <1>1, <1>4, <1>11 DEF MineBut
<1>15. Resting(0)'
  BY <1>0, <1>1, <1>4, <1>5, <1>11, <1>12, <1>13, <1>14 DEF Resting
<1> QED
  BY <1>15 DEF FreshMode

\* The page shows as its own what the server has selected.
LEMMA SelectedFresh ==
    ASSUME PageInv, FreshMode, NEW t \in Watched, Selected(t)
    PROVE  FreshMode'
<1>0. /\ Read(t, "select", answer[t]) /\ answer[t].kind = "done"
      /\ mine' = sent[t].sub
      /\ UNCHANGED <<colour, status, tries, timers>>
  BY DEF Selected
<1>1. /\ \E cur \in Subs \cup {0} : Calling(t, cur)
      /\ \A u \in Watched : sent'[u].op = "none"
      /\ \A u \in Threads : u # t \/ thread[u].pc = "idle" => thread'[u].pc = "idle"
      /\ UNCHANGED <<setting, doc, task, job, thread>>
      /\ Kept' = Kept /\ sent[t].op = "select"
      /\ ServerInv
  BY <1>0, ReadFresh
<1>2. PICK cur \in Subs \cup {0}, n \in Subs : Selects(t, n, cur)
  BY <1>1 DEF Calling, Submits, Polls
<1>3. Got(t, "done") /\ task.sub = n
  BY <1>0, <1>2 DEF Selects, Reads, Sent, At, Got, NoAnswer
<1>4. /\ sent[t].sub = n /\ timers = {cur} \ {0} /\ n \in Kept
      /\ cur # 0 => colour[cur] = "warning"
      /\ cur = 0 => status = StatusFrom(colour, n)
      /\ Under(cur, {}, FALSE) /\ thread[t].pc = "idle"
  BY <1>2, <1>3 DEF Selects, Got
<1>5. \A u \in Threads : thread'[u].pc = "idle"
  BY <1>1, <1>4
<1>6. MineBut(cur)'
  BY <1>0, <1>1, <1>3, <1>4 DEF MineBut
<1>7. cur = 0 => status = StatusOf
  <2>1. SUFFICES ASSUME cur = 0 PROVE status = StatusOf
    OBVIOUS
  <2>2. Uncounted = {}
    BY <1>4, <2>1 DEF Under, JobOf
  <2>3. \A u \in Threads : thread[u].pc \notin {"inserted", "listed"}
    BY <1>1, <1>5
  <2>4. Waiting = {}
    BY <1>1, <2>2, <2>3, NothingWaits
  <2>5. n \in Subs /\ colour[n] = ColourOf(n)
    BY <1>2, <1>4, <2>1, ServerFacts, <1>1 DEF Under, ListBut
  <2> QED
    BY <1>1, <1>3, <1>4, <2>1, <2>4, <2>5, StatusTrue
<1> QED
  BY <1>0, <1>1, <1>2, <1>4, <1>5, <1>6, <1>7, RestFresh

\* A step of the server that is no restart stores no end without a result.
LEMMA ResultsOfServer ==
    ASSUME ServerInv, ResultsKept, restarts = 0,
           (\E t \in Threads : Serve(t)) \/ (\E j \in Jobs : Callback(j))
    PROVE  ResultsKept'
<1>1. doc \in [Subs -> DocType] /\ replayed = {}
  BY ServerFacts DEF Parts
<1>2. \A s \in Subs : doc[s].status \in {"done", "error"} => doc[s].result # "none"
  BY DEF ResultsKept
<1>3. ASSUME NEW t \in Threads, Serve(t) PROVE ResultsKept'
  <2>1. CASE Insert(t)
    <3>1. PICK s \in Subs : doc' = [doc EXCEPT ![s].status = "waiting"]
      BY <2>1 DEF Insert
    <3> QED
      BY <1>1, <1>2, <3>1 DEF ResultsKept, DocType
  <2>2. CASE Launch(t)
    <3>1. doc' = [s \in Subs |-> IF s \in thread[t].remove THEN [Blank EXCEPT !.status = "deleted"] ELSE doc[s]]
      BY <2>2 DEF Launch
    <3> QED
      BY <1>1, <1>2, <3>1 DEF ResultsKept, Blank
  <2>3. CASE StoreJobId(t)
    <3>1. \A s \in Subs : doc'[s].status = doc[s].status /\ doc'[s].result = doc[s].result
      BY <1>1, <2>3 DEF StoreJobId, DocType
    <3> QED
      BY <1>2, <3>1 DEF ResultsKept
  <2>4. ~Overwrite(t)
    BY <1>1, ServerFacts DEF Overwrite, Cared, Careful
  <2>5. CASE List(t) \/ ReadSelected(t) \/ WriteSelected(t)
    <3>1. doc' = doc
      BY <2>5 DEF List, ReadSelected, WriteSelected, database
    <3> QED
      BY <1>2, <3>1 DEF ResultsKept
  <2> QED
    BY <1>3, <2>1, <2>2, <2>3, <2>4, <2>5 DEF Serve
<1>4. ASSUME NEW j \in Jobs, Callback(j) PROVE ResultsKept'
  <2>1. CASE StoreResult(j)
    <3>1. PICK o \in Outcomes \cup {Crash} :
            doc' = IF Exists(job[j].sub) THEN [doc EXCEPT ![job[j].sub] = Finished(o)] ELSE doc
      BY <2>1 DEF StoreResult
    <3>2. o.result # "none" /\ Finished(o).result = o.result
      BY OutcomesType DEF Outcome, Results, Finished
    <3> QED
      BY <1>1, <1>2, <3>1, <3>2 DEF ResultsKept
  <2>2. CASE CountNew(j) \/ CountReplay(j) \/ CountDeleted(j) \/ SetEvaluation(j)
    <3>1. doc' = doc
      BY <2>2 DEF CountNew, CountReplay, CountDeleted, SetEvaluation, database
    <3> QED
      BY <1>2, <3>1 DEF ResultsKept
  <2> QED
    BY <1>4, <2>1, <2>2 DEF Callback
<1> QED
  BY <1>3, <1>4

\* What the answer to a call does to the page, but for its alerts.
LEMMA AnsweredFresh ==
    ASSUME PageInv, tries \in Nat, NEW t \in Watched, Answered(t)
    PROVE  /\ Aside /\ tries' \in Nat
           /\ UNCHANGED <<openedOn, opens, failures, stale>>
           /\ FreshMode => FreshMode'
<1>1. CASE SubmitAccepted(t)
  <2>1. Read(t, "submit", answer[t]) /\ tries' = tries + 1 /\ UNCHANGED <<failures, stale>>
    BY <1>1 DEF SubmitAccepted
  <2>2. Aside /\ UNCHANGED <<openedOn, opens>>
    BY <2>1 DEF Read, Aside
  <2> QED
    BY <1>1, <2>1, <2>2, AcceptedFresh
<1>2. CASE Refused(t)
  BY <1>2, RefusedFresh DEF Refused, Read, Aside
<1>3. CASE StillWaiting(t)
  BY <1>3, StillWaitingFresh DEF StillWaiting, Read, Aside
<1>4. CASE Graded(t)
  BY <1>4, GradedFresh DEF Graded, Read, Aside
<1>5. CASE Selected(t)
  BY <1>5, SelectedFresh DEF Selected, Read, Aside
<1>6. CASE Drop(t)
  BY <1>6, DropFresh DEF Drop, Read, Aside
<1> QED
  BY <1>1, <1>2, <1>3, <1>4, <1>5, <1>6 DEF Answered

\* A step of the user, or of the page alone.
LEMMA AsksFresh ==
    ASSUME PageInv, FormInv, FreshInv,
           \/ Click
           \/ \E t \in Watched, s \in Subs : Poll(t, s)
           \/ \E t \in Watched : Arrive(t)
           \/ LoadEnds
    PROVE  FreshInv'
<1>1. /\ doc' = doc /\ UNCHANGED <<restarts, tries, openedOn, opens, failures>>
      /\ stale => stale'
  <2>1. CASE Click
    <3>1. ASSUME NEW t \in Watched, NEW op, NEW s, Send(t, op, s) PROVE stale => stale'
      BY <3>1 DEF Send
    <3>2. CASE \E t \in Watched : Submit(t)
      BY <3>1, <3>2 DEF Submit, vars, database
    <3>3. CASE \E s \in Subs : Load(s)
      BY <3>3 DEF Load, vars, database
    <3>4. CASE \E t \in Watched, s \in Subs : SelectClicked(t, s)
      BY <3>1, <3>4 DEF SelectClicked, vars, database
    <3> QED
      BY <2>1, <3>2, <3>3, <3>4 DEF Click
  <2>3. CASE LoadEnds
    BY <2>3 DEF LoadEnds, Loaded, LoadFails, vars, database
  <2>4. CASE \E t \in Watched, s \in Subs : Poll(t, s)
    BY <2>4 DEF Poll, Send, vars, database
  <2>2. CASE \E t \in Watched : Arrive(t)
    BY <2>2 DEF Arrive, Post, Check, Select, database
  <2> QED
    BY <2>1, <2>2, <2>3, <2>4
<1>2. ResultsKept'
  BY <1>1 DEF FreshInv, ResultsKept
<1>3. Fresh' => Fresh /\ ~stale'
  BY <1>1 DEF Fresh
<1>4. ASSUME Fresh' PROVE openedOn' = 0 /\ FreshMode'
  <2>1. openedOn = 0 /\ openedOn' = 0 /\ FreshMode /\ ~stale'
    BY <1>1, <1>3, <1>4 DEF FreshInv
  <2>2. FreshMode'
    BY <2>1, ClickFresh, PollFresh, ArriveFresh, LoadsFresh
  <2> QED
    BY <2>1, <2>2
<1> QED
  BY <1>1, <1>2, <1>4 DEF FreshInv

\* A step of the server or of a callback.
LEMMA ServesFresh ==
    ASSUME PageInv, FreshInv,
           (\E t \in Threads : Server(t)) \/ (\E j \in Jobs : CallbackStep(j))
    PROVE  FreshInv'
<1>1. UNCHANGED page
  BY DEF Server, CallbackStep
<1>2. restarts' = restarts
  <2>1. ASSUME NEW t \in Threads, Serve(t) PROVE restarts' = restarts
    BY <2>1 DEF Serve, Insert, List, Launch, StoreJobId, Overwrite, ReadSelected, WriteSelected
  <2>2. ASSUME NEW j \in Jobs, Callback(j) PROVE restarts' = restarts
    BY <2>2 DEF Callback, StoreResult, CountNew, CountReplay, CountDeleted, SetEvaluation
  <2> QED
    BY <2>1, <2>2 DEF Server, CallbackStep
<1>3. ResultsKept'
  <2>1. CASE restarts = 0
    BY <2>1, ResultsOfServer DEF FreshInv, PageInv, Server, CallbackStep
  <2>2. CASE restarts # 0
    BY <1>2, <2>2 DEF ResultsKept
  <2> QED
    BY <2>1, <2>2
<1>4. ASSUME Fresh' PROVE openedOn' = 0 /\ FreshMode'
  <2>1. Fresh /\ openedOn' = openedOn
    BY <1>1, <1>2, <1>4 DEF Fresh, page
  <2>2. FreshMode /\ openedOn = 0 /\ restarts = 0 /\ tries \in Nat /\ ResultsKept
    BY <2>1 DEF FreshInv, Fresh
  <2> QED
    BY <2>1, <2>2, ServerFresh, CallbackFresh
<1> QED
  BY <1>1, <1>3, <1>4 DEF FreshInv, page

\* It is inductive, with the invariant of the page.
LEMMA FreshInvStep == PageInv /\ FormInv /\ FreshInv /\ [PageNext]_allVars => FreshInv'
<1> SUFFICES ASSUME PageInv, FormInv, FreshInv, [PageNext]_allVars PROVE FreshInv'
  OBVIOUS
<1>0. ServerInv /\ Parts /\ restarts \in Nat /\ failures \in Nat /\ tries \in Nat
  BY ServerFacts DEF PageInv, FreshInv
<1>1. CASE Open
  <2>1. doc' = doc /\ restarts' = restarts /\ tries' = task.tried
    BY <1>1 DEF Open, vars, database
  <2>2. ResultsKept' /\ tries' \in Nat
    BY <1>0, <2>1 DEF FreshInv, ResultsKept, Parts, TaskType
  <2> QED
    BY <1>1, <2>2, OpenFresh DEF FreshInv, Fresh
<1>2. ASSUME NEW t \in Watched, Answered(t) PROVE FreshInv'
  <2>1. /\ doc' = doc /\ UNCHANGED <<restarts, openedOn, opens, failures, stale>>
        /\ tries' \in Nat /\ (FreshMode => FreshMode')
    BY <1>0, <1>2, AnsweredFresh DEF Aside, database
  <2> QED
    BY <2>1 DEF FreshInv, Fresh, ResultsKept
<1>3. ASSUME NEW t \in Watched, Lose(t) PROVE FreshInv'
  <2>1. doc' = doc /\ restarts' = restarts /\ tries' = tries /\ failures' # 0
    BY <1>0, <1>3 DEF Lose, vars, database
  <2> QED
    BY <2>1 DEF FreshInv, Fresh, ResultsKept
<1>4. CASE Events < MaxEvents /\ Restart /\ UNCHANGED page
  <2>1. restarts' # 0 /\ tries' = tries
    BY <1>0, <1>4 DEF Restart, page
  <2> QED
    BY <1>0, <2>1 DEF FreshInv, Fresh, ResultsKept
<1>5. CASE UNCHANGED allVars
  <2>1. /\ UNCHANGED <<setting, doc, task, job, thread, answer, restarts>>
        /\ UNCHANGED <<timers, sent, colour, mine, status, tries, openedOn, opens, failures, stale>>
    BY <1>5 DEF allVars, vars, page, database
  <2>2. FreshMode => FreshMode'
    BY <1>0, <2>1, ModeFrame
  <2> QED
    BY <2>1, <2>2 DEF FreshInv, Fresh, ResultsKept
<1> QED
  BY <1>1, <1>2, <1>3, <1>4, <1>5, AsksFresh, ServesFresh DEF PageNext

\* No page is opened yet.
LEMMA InitFresh == PageInit => FreshInv
BY DEF PageInit, Init, FreshInv, Fresh, ResultsKept, Blank

\* A page that is not stale has at most one call under way, and the list, the
\* attempts, the selection and the status differ from those of a page that would
\* be opened now by no more than what this call and the callback of its
\* submission are to change.
THEOREM FreshInvariant == PageSpec => []FreshInv
BY InitFresh, FreshInvStep, PageInvariant, PTL DEF PageSpec

\* Nothing asked, nothing polled and no callback left: the page is what it would
\* be if it was opened again.
LEMMA FreshAtRest ==
    ASSUME PageInv, FreshMode, tries \in Nat, Quiet, Polled = {}, \A t \in Watched : sent[t] = NoCall
    PROVE  /\ \A s \in Subs : colour[s] = ColourOf(s)
           /\ EvalSubmission = {mine} \ {0}
           /\ tries = task.tried
           /\ status \in {StatusOf, "Internal error"}
<1>0. ServerInv /\ Parts /\ mine \in Subs \cup {0} /\ 0 \notin Subs
  <2>1. ServerInv /\ mine \in Subs \cup {0}
    BY ListedKnown
  <2> QED
    BY <2>1, ServerFacts
<1>1. PICK cur \in Subs \cup {0} : Resting(cur)
  <2>1. \A t \in Watched : sent[t].op = "none"
    BY DEF NoCall
  <2>2. \A t \in Watched, cur \in Subs \cup {0} : ~Calling(t, cur)
    BY <2>1 DEF Calling, Submits, Polls, Selects
  <2> QED
    BY <2>2 DEF FreshMode
<1>2. cur = 0 /\ Uncounted = {}
  BY <1>0, <1>1 DEF Resting, Polled, Quiet
<1>3. Under(0, {}, FALSE) /\ MineBut(0) /\ status \in {StatusOf, "Internal error"}
  BY <1>1, <1>2 DEF Resting
<1>4. \A s \in Subs : colour[s] = ColourOf(s)
  BY <1>0, <1>3 DEF Under, ListBut
<1>5. tries = task.tried
  <2>1. task.tried \in Nat /\ ~Owed
    BY <1>0, <1>2, NotOwed DEF Parts, TaskType
  <2>2. tries + 0 = task.tried + 0
    BY <1>3, <2>1 DEF Under, TriesBut
  <2> QED
    BY <2>1, <2>2
<1>6. EvalSubmission = {mine} \ {0}
  <2>1. Kept \subseteq Subs
    BY DEF Kept
  <2>2. CASE mine # 0
    <3>1. task.sub = mine /\ mine \in Kept
      BY <1>3, <2>2 DEF MineBut
    <3> QED
      BY <2>2, <3>1 DEF EvalSubmission
  <2>3. CASE mine = 0
    BY <1>0, <1>3, <2>1, <2>3 DEF MineBut, EvalSubmission
  <2> QED
    BY <2>2, <2>3
<1> QED
  BY <1>3, <1>4, <1>5, <1>6

\* The page built from the answers it got shows, once nothing is going on, what it
\* would if it was opened again.
THEOREM PageAsReopened == PageSpec => []AsReopened
<1>1. PageInv /\ FreshInv => AsReopened
  BY FreshAtRest DEF AsReopened, FreshInv, Fresh
<1> QED
  BY <1>1, FreshInvariant, PageInvariant, PTL
=============================================================================
