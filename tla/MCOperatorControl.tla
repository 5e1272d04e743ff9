--------------------------- MODULE MCOperatorControl ---------------------------
(* The bounded specification of OperatorControl for TLC. *)
EXTENDS OperatorControl

AllLow == {Fleet}
AnyLow == SUBSET Fleet

\* Nothing is left to do within the bounds.
HorizonReached ==
    /\ now = MaxNow /\ Len(inbox) = MaxUpdates
    /\ UNCHANGED vars

MCSpec == Init /\ [][Next \/ HorizonReached]_vars
MCFairSpec == MCSpec /\ Fairness
===============================================================================
