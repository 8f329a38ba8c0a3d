------------------------------- MODULE MCDict -------------------------------
(* Dict with four keys whose hashes collide in small tables and not in       *)
(* larger ones; one of them is stored with two values.                       *)
EXTENDS Dict
CONSTANTS k1, k2, k3, k4, v1, v2
MCKeys == {k1, k2, k3, k4}
MCHash == (k1 :> 0) @@ (k2 :> 4) @@ (k3 :> 6) @@ (k4 :> 3)
MCPairs == (MCKeys \X {v1}) \union {<<k2, v2>>}
=============================================================================
