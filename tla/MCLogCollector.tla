----------------------------- MODULE MCLogCollector -----------------------------
(* Instances of LogCollector. *)
EXTENDS LogCollector, TLC

Interchangeable == Permutations(Streams)
===============================================================================
