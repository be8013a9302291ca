-------------------------------- MODULE MCReportExport --------------------------------
(* Instances of ReportExport for TLC. *)
EXTENDS ReportExport, TLC

WorkerSymmetry == Permutations(Workers)
====
