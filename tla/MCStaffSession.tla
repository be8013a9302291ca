-------------------------------- MODULE MCStaffSession --------------------------------
(* Instances of StaffSession for TLC. *)
EXTENDS StaffSession
====
