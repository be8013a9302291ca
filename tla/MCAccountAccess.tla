-------------------------------- MODULE MCAccountAccess --------------------------------
(* One account: the sets and the bounds are in the configurations.         *)
EXTENDS AccountAccess
====
