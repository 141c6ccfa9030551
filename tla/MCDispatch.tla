----------------------------- MODULE MCDispatch -----------------------------
(* A small instance of Dispatch for TLC.                                    *)
EXTENDS Dispatch

CONSTANTS c1, a1, a2, e1, e2, j1, j2

\* a1 and a2 both offer e1; only a2 offers e2.  Each has one slot.
MCSlots == (a1 :> 1) @@ (a2 :> 1)
MCOffers == (a1 :> {e1}) @@ (a2 :> {e1, e2})
MCEnvOf == (j1 :> e1) @@ (j2 :> e2)
MCOwner == [j \in Jobs |-> c1]
=============================================================================
