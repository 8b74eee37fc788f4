--------------------------- MODULE MCDatasetSearch ---------------------------
(* Three partitions, two of them searched on one node.                     *)
EXTENDS DatasetSearch, TLC

CONSTANTS n1, n2, p1, p2, p3

MCOwner == (p1 :> n1) @@ (p2 :> n1) @@ (p3 :> n2)
MCItemsOf == (p1 :> {1, 4}) @@ (p2 :> {2}) @@ (p3 :> {3, 5})
=============================================================================
