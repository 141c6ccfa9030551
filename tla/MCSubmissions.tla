---------------------------- MODULE MCSubmissions ----------------------------
(* Small instances of Submissions for TLC.                                  *)
EXTENDS Submissions, TLC

CONSTANTS t1, t2

\* A success, and a lower grade; crashes come from unavailable environments.
MCOutcomes == {[result |-> "success", grade |-> 1], [result |-> "failed", grade |-> 0]}

MCBest == [evaluate |-> "best", stored |-> 1, limit |-> 0]

\* Two submissions are stored when the last one counts, so that there is one
\* before the last to be mistaken for it.
MCSettings == {MCBest, [evaluate |-> "last", stored |-> 2, limit |-> 2]}

MCBestOnly == {MCBest}

MCSymmetry == Permutations(Threads)
=============================================================================
