----------------------------- MODULE MCTaskPage -----------------------------
(* Small instances of TaskPage for TLC.                                     *)
EXTENDS TaskPage

CONSTANTS t1, t2

\* The other outcome is the crash of an environment that is not available.
MCOutcomes == {[result |-> "success", grade |-> 1]}

MCSettings == {[evaluate |-> e, stored |-> 1, limit |-> 0] : e \in {"best", "student"}}
=============================================================================
