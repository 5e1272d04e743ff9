-------------------------------- MODULE MCBackup --------------------------------
(* Instances of Backup: kept is the last generation of the latest day, and of each of the
   latest two pairs of days. *)
EXTENDS Backup, TLC

DailyAndWeekly == {[width |-> 1, limit |-> 1], [width |-> 2, limit |-> 2]}

Interchangeable == Permutations(Writers)
===============================================================================
