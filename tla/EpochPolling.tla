------------------------------ MODULE EpochPolling -----------------------------
(***************************************************************************)
(* What the adaptive acquisition promises (specs/022-adaptive-acquisition,    *)
(* FR-002, FR-003, FR-007 and FR-014), without workers, leases or deadlines:  *)
(* an epoch gives every miner exactly one result, an answer only to a miner   *)
(* that was asked in this epoch, and a miner is asked once per epoch and never *)
(* while an earlier conversation with it still goes on.                      *)
(***************************************************************************)
CONSTANT Fleet

VARIABLES
    phase,   \* idle, collecting an epoch, stopping, stopped
    asked,   \* the miners asked in this epoch
    talking, \* the miners with a conversation on the wire, of this epoch or of an earlier one
    result   \* what the epoch has given each miner so far

vars == <<phase, asked, talking, result>>

Results == {"none", "answer", "placeholder"}
Nothing == [m \in Fleet |-> "none"]

Init == phase = "idle" /\ asked = {} /\ talking = {} /\ result = Nothing

Begin ==
    /\ phase = "idle" /\ phase' = "collecting"
    /\ asked' = {} /\ result' = Nothing
    /\ UNCHANGED talking

Ask(m) ==
    /\ phase \in {"collecting", "stopping"} /\ m \notin asked \cup talking
    /\ asked' = asked \cup {m} /\ talking' = talking \cup {m}
    /\ UNCHANGED <<phase, result>>

HangUp(m) ==
    /\ m \in talking /\ talking' = talking \ {m}
    /\ UNCHANGED <<phase, asked, result>>

\* Some of the miners that have no result get one, an answer only if they were asked.
Give ==
    /\ phase = "collecting"
    /\ result' \in [Fleet -> Results]
    /\ \A m \in Fleet : \/ result'[m] = result[m]
                        \/ result[m] = "none" /\ (result'[m] = "answer" => m \in asked)
    /\ UNCHANGED <<phase, asked, talking>>

End ==
    /\ phase = "collecting" /\ \A m \in Fleet : result[m] # "none"
    /\ phase' = "idle"
    /\ UNCHANGED <<asked, talking, result>>

\* The monitor is stopped: what was collected is thrown away.
Stop ==
    /\ phase \in {"idle", "collecting"} /\ phase' = "stopping"
    /\ result' = Nothing
    /\ UNCHANGED <<asked, talking>>

Stopped ==
    /\ phase = "stopping" /\ talking = {} /\ phase' = "stopped"
    /\ UNCHANGED <<asked, talking, result>>

Next ==
    \/ Begin \/ Give \/ End \/ Stop \/ Stopped
    \/ \E m \in Fleet : Ask(m) \/ HangUp(m)

Spec == Init /\ [][Next]_vars
===============================================================================
