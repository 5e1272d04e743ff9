------------------------------- MODULE MCEpisodes ------------------------------
(* Constants for model checking Episodes. *)
EXTENDS Episodes

\* One staged reminder, and then the steady repetition.
OneReminder == <<2>>

\* The clock has nowhere left to go.
HorizonReached ==
    /\ phase # "down" /\ \A gap \in Gaps : now + gap > MaxNow
    /\ UNCHANGED vars

MCSpec == Init /\ [][Next \/ HorizonReached]_vars
===============================================================================
