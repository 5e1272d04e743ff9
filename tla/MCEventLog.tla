------------------------------- MODULE MCEventLog -------------------------------
(* Instances of EventLog. *)
EXTENDS EventLog, TLC

Interchangeable == Permutations(Miners)
===============================================================================
