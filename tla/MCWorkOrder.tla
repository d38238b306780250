------------------------------ MODULE MCWorkOrder ------------------------------
(* Instances of WorkOrder and the mutations its properties must catch. *)
EXTENDS WorkOrder
=============================================================================
