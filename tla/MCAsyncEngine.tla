---------------------------- MODULE MCAsyncEngine -----------------------------
(* AsyncEngine for TLC: two calls. *)
EXTENDS AsyncEngine

CONSTANTS c1, c2, x, y, l1

UniqueIds == (c1 :> x) @@ (c2 :> y)
OneLoop == (c1 :> l1) @@ (c2 :> l1)
=============================================================================
