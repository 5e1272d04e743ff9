----------------------------- MODULE MCAcquisition -----------------------------
(* Constants for model checking Acquisition. *)
EXTENDS Acquisition, TLC

CONSTANTS w1, w2

TwoWorkers == {w1, w2}

TwoAnswers == {"silent", "rate"}
LastHung == {N}

\* The acquirer is closed, or the last tick is over and every thread rests.
HorizonReached ==
    /\ \A w \in Workers : worker[w].at = "idle"
    /\ main = "closed" \/ (main = "idle" /\ epoch = MaxEpoch)
    /\ UNCHANGED vars

MCSpec == Init /\ [][Next \/ HorizonReached]_vars
MCFairSpec == MCSpec /\ Fairness
===============================================================================
