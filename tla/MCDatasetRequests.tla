-------------------------- MODULE MCDatasetRequests --------------------------
(* Two partitions on three nodes: the placements move both partitions, at  *)
(* first to nodes that exchange them, and leave one without a replica.     *)
EXTENDS DatasetRequests, TLC

CONSTANTS n1, n2, n3, p1, p2, a, b, c

MCOrder == <<p1, p2>>
MCPlacements == << (p1 :> {n1}) @@ (p2 :> {n2}), (p1 :> {n2, n3}) @@ (p2 :> {n1}), (p1 :> {n3}) @@ (p2 :> {}) >>
MCPartitionOf == (a :> p1) @@ (b :> p1) @@ (c :> p2)
MCLenOf == (p1 :> 1) @@ (p2 :> 4)
=============================================================================
