--------------------------- MODULE SubmissionLife ---------------------------
(***************************************************************************)
(* What the submission managers promise about each submission of a user:   *)
(* it waits until it has one result, or is given up when the frontend      *)
(* restarts; the result stays as it is until the submission is deleted,    *)
(* and nothing is deleted while it waits.  All bets are off for the        *)
(* submissions that an administrator replays.                              *)
(***************************************************************************)
CONSTANTS
    Subs,       \* the submissions
    Graded      \* what is stored of a submission when its job is done

VARIABLES
    life,       \* what is stored of each
    replayed    \* the submissions that were replayed

vars == <<life, replayed>>

Without(status) == [status |-> status, result |-> "none", grade |-> 0]
GivenUp == Without("error")

Init ==
    /\ life = [s \in Subs |-> Without("none")]
    /\ replayed = {}

Insert(s) ==
    /\ life[s] = Without("none")
    /\ life' = [life EXCEPT ![s] = Without("waiting")]
    /\ UNCHANGED replayed

Grade(s) ==
    /\ life[s] = Without("waiting")
    /\ \E g \in Graded : life' = [life EXCEPT ![s] = g]
    /\ UNCHANGED replayed

Delete(S) ==
    /\ \A s \in S \ replayed : life[s] \in Graded \cup {GivenUp, Without("deleted")}
    /\ life' = [s \in Subs |-> IF s \in S THEN Without("deleted") ELSE life[s]]
    /\ UNCHANGED replayed

\* The frontend has restarted: the jobs are lost.
GiveUp ==
    /\ life' = [s \in Subs |-> IF life[s] = Without("waiting") THEN GivenUp ELSE life[s]]
    /\ UNCHANGED replayed

\* A submission, or a copy of one, is replayed.
Replay(s) ==
    /\ replayed' = replayed \cup {s}
    /\ \/ UNCHANGED life
       \/ life[s] = Without("none") /\ \E g \in Graded : life' = [life EXCEPT ![s] = g]

Replayed(s) ==
    /\ s \in replayed
    /\ \E g \in Graded \cup {Without("waiting")} : life' = [life EXCEPT ![s] = g]
    /\ UNCHANGED replayed

Next ==
    \/ \E s \in Subs : Insert(s) \/ Grade(s) \/ Replay(s) \/ Replayed(s)
    \/ \E S \in SUBSET Subs : Delete(S)
    \/ GiveUp

Spec == Init /\ [][Next]_vars
=============================================================================
