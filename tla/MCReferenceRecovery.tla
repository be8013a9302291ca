------------------------------ MODULE MCReferenceRecovery ------------------------------
(* One contact: the bounds are in the configuration.                       *)
EXTENDS ReferenceRecovery
====
