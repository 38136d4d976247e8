------------------------------ MODULE MCOffload ------------------------------
(* Offload for TLC: the bounds are in the configuration.                     *)
EXTENDS Offload
=============================================================================
