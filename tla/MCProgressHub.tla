--------------------------- MODULE MCProgressHub ---------------------------
(* Instances of ProgressHub for TLC. *)
EXTENDS ProgressHub, TLC

CONSTANTS j1, j2, c1, c2

\* Ana's job and Bo's.
Owners == (j1 :> "ana") @@ (j2 :> "bo")

\* Ana's browser and an anonymous one.
Ana   == (c1 :> "ana")
Users == (c1 :> "ana") @@ (c2 :> "nobody")
=============================================================================
