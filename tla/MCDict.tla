------------------------------- MODULE MCDict -------------------------------
(* Keys that share a bucket in small tables; two of them are told apart    *)
(* when the table has grown.                                               *)
EXTENDS Dict, TLC

CONSTANTS k1, k2, k3, k4
MCHash == (k1 :> 0) @@ (k2 :> 4) @@ (k3 :> 2) @@ (k4 :> 3)
=============================================================================
