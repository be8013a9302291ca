-------------------------------- MODULE MCDocumentScan --------------------------------
(* Instances of DocumentScan for TLC. *)
EXTENDS DocumentScan, TLC

WorkerSymmetry == Permutations(Workers)
====
