----------------------------- MODULE MCLisOutcome ----------------------------
(* A small instance of LisOutcome for TLC.                                  *)
EXTENDS LisOutcome

CONSTANTS o1, o2

\* The outcome o1 gets a grade more than the other.
MCMaxGrade == [o \in Outcomes |-> IF o = o1 THEN 2 ELSE 1]
=============================================================================
