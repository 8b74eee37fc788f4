------------------------- MODULE MCPartitionReplicas -------------------------
(* Small instances of PartitionReplicas for TLC.                           *)
EXTENDS PartitionReplicas, TLC

\* Nodes, calls and ids are interchangeable.
Symmetry == Permutations(Nodes) \cup Permutations(Calls) \cup Permutations(Ids)
=============================================================================
