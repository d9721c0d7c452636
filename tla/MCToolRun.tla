------------------------------ MODULE MCToolRun ------------------------------
(* Instances of ToolRun for TLC. *)
EXTENDS ToolRun, TLC

Interchangeable == Permutations(Procs)
=============================================================================
