------------------------ MODULE MCDatasetAllocation ------------------------
(* Two datasets: one with two partitions, one with one.                    *)
EXTENDS DatasetAllocation

CONSTANTS n1, n2, d1, d2, p1, p2, p3

MCPartsOf == (d1 :> {p1, p2}) @@ (d2 :> {p3})
MCTwoPartsOf == (d1 :> {p1}) @@ (d2 :> {p3})
=============================================================================
