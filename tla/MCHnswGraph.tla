----------------------------- MODULE MCHnswGraph -----------------------------
\* An instance of HnswGraph: four vertices on a line, the last with the id of the first.
EXTENDS HnswGraph

CONSTANTS v1, v2, v3, v4

MCIdOf == [v \in Vertices |-> IF v = v4 THEN v1 ELSE v]
MCPosition == [v \in Vertices |-> CASE v = v1 -> 0 [] v = v2 -> 10 [] v = v3 -> 40 [] v = v4 -> 60]
=============================================================================
