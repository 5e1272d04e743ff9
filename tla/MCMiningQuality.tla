----------------------------- MODULE MCMiningQuality ----------------------------
(* Instances of MiningQuality. *)
EXTENDS MiningQuality

\* All values, all but the rejected shares, all but the uptime, and none.
MCGaps == {{}, {"rejected"}, {"elapsed"}, {"elapsed", "accepted", "rejected"}}
===============================================================================
