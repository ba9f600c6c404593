----------------------------- MODULE MCLibrary -----------------------------
(* Instances of Library for TLC. *)
EXTENDS Library, TLC

CONSTANTS j1, j2, top, sub, inSub, single, r1, r2

\* Requests are interchangeable.
Symmetry == Permutations(Requests)

\* Ana uploads a folder with a file in a subfolder, a guest a single file.
Walks     == (j1 :> <<top, sub, inSub>>) @@ (j2 :> <<single>>)
Uploaders == (j1 :> "ana") @@ (j2 :> "nobody")
Parents   == (top :> "root") @@ (sub :> top) @@ (inSub :> sub) @@ (single :> "root")
Paths     == (top :> {top}) @@ (sub :> {sub, top}) @@ (inSub :> {inSub, sub, top})
             @@ (single :> {single})
=============================================================================
