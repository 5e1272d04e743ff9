----------------------------- MODULE MCAutoReboot -----------------------------
(* Constants for model checking AutoReboot. *)
EXTENDS AutoReboot

LowFull == Answer("low", "full")
OkFull == Answer("ok", "full")

Transition == [LowFull EXCEPT !.transitioning = TRUE]

\* The readings that tell the gates of one miner apart.
PolicyReadings ==
    {LowFull, OkFull, [LowFull EXCEPT !.restarted = TRUE], [Transition EXCEPT !.hot = TRUE]}
FleetReadings == {LowFull, OkFull, NoAnswer, Answer("low", "short")}

\* The QA mode shortens the cooldown and the window.
Cooldowns == [qa \in QaStates |-> IF qa = "off" THEN 3 ELSE 2]
Windows == [qa \in QaStates |-> IF qa = "off" THEN 4 ELSE 2]
OneTick == [qa \in QaStates |-> 1]
TwoTicks == [qa \in QaStates |-> 2]

\* The clock has nowhere left to go: a stutter, so that TLC's deadlock check
\* still finds every other state with no step.
HorizonReached ==
    /\ phase = "down" /\ \A d \in Downtimes : clock + d > MaxNow
    /\ UNCHANGED vars

MCSpec == Init /\ [][Next \/ HorizonReached]_vars
===============================================================================
