------------------------------ MODULE MCPublicSubmission ------------------------------
(* One person, one tab: the sets and the bounds are in the configuration.  *)
EXTENDS PublicSubmission
====
