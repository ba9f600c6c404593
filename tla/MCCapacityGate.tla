--------------------------- MODULE MCCapacityGate ---------------------------
(* Instances of CapacityGate for TLC. *)
EXTENDS CapacityGate, TLC

CONSTANTS j1, j2, j3

Sizes == (j1 :> 3) @@ (j2 :> 2) @@ (j3 :> 2)
=============================================================================
