-------------------------------- MODULE MCSlaTracker --------------------------------
(* Instances of SlaTracker for TLC. *)
EXTENDS SlaTracker, TLC

MonitorSymmetry == Permutations(Monitors)
====
