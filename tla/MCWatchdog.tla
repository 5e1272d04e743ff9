------------------------------- MODULE MCWatchdog ------------------------------
(* Constants for model checking Watchdog. *)
EXTENDS Watchdog

TwoReminders == <<1, 2>>

HorizonReached ==
    /\ now = MaxNow /\ run.at = "idle" /\ ~Due
    /\ UNCHANGED vars

MCSpec == Init /\ [][Next \/ HorizonReached]_vars
===============================================================================
