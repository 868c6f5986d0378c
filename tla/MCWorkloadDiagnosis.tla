-------------------------- MODULE MCWorkloadDiagnosis --------------------------
(* A small instance of WorkloadDiagnosis. *)
EXTENDS WorkloadDiagnosis

AnyExit == {0, 1}
===============================================================================
