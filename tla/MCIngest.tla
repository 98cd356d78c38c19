------------------------------ MODULE MCIngest ------------------------------
(* Ingest on up to two listeners, two paths and four audit events.           *)
EXTENDS Ingest, TLC

CONSTANTS w1, w2, x1, x2, d3, i1, i2, path1, path2

\* Two writes of path1 and two of path2, in the order Vault performed them.
Writes == {w1, w2, x1, x2}
WritesPath == (w1 :> path1) @@ (w2 :> path1) @@ (x1 :> path2) @@ (x2 :> path2)
WritesVersion == (w1 :> 1) @@ (w2 :> 2) @@ (x1 :> 1) @@ (x2 :> 2)
WritesOrder == (w1 :> 1) @@ (w2 :> 2) @@ (x1 :> 1) @@ (x2 :> 2)

\* Writes of path1, and a delete after it; parseLine gives a delete version 0.
WithDelete == {w1, w2, d3}
WithDeletePath == (w1 :> path1) @@ (w2 :> path1) @@ (d3 :> path1)
WithDeleteVersion == (w1 :> 1) @@ (w2 :> 2) @@ (d3 :> 0)
WithDeleteOrder == (w1 :> 1) @@ (w2 :> 2) @@ (d3 :> 3)
=============================================================================
