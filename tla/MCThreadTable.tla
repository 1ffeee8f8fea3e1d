--------------------------- MODULE MCThreadTable ---------------------------
(* Instances of ThreadTable for TLC. *)
EXTENDS ThreadTable, TLC

CONSTANTS a1, a2

\* The two addresses have the same hash; there is another bucket.
OneBucket == (a1 :> 1) @@ (a2 :> 1)
=============================================================================
