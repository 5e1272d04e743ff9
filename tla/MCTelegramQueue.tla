---------------------------- MODULE MCTelegramQueue ----------------------------
(* Constants for model checking TelegramQueue. *)
EXTENDS TelegramQueue, TLC

Say(type, text, parts, command) == [type |-> type, text |-> text, parts |-> parts, command |-> command]

TwoTypes == {"STATE_CHANGE", "STATUS"}

\* Notifications with two texts and of two types, and answers of one part and of two; the
\* answer to /status has the type and may have the text of a notification.
Mixed == {Say("STATUS", "x", 1, FALSE), Say("STATE_CHANGE", "x", 1, FALSE), Say("STATE_CHANGE", "y", 1, FALSE),
          Say("STATUS", "x", 1, TRUE), Say("STATUS", "y", 2, TRUE)}

\* A refused post is one that ended well for the queue and one that failed for the fallback.
TwoOutcomes == {"ok", "exception"}

Windows == ("STATE_CHANGE" :> 1) @@ ("STATUS" :> 1)

HorizonReached ==
    /\ now = MaxNow /\ Len(offered) = MaxOffers
    /\ UNCHANGED vars

MCSpec == Init /\ [][Next \/ HorizonReached]_vars
MCFairSpec == MCSpec /\ Fairness
===============================================================================
