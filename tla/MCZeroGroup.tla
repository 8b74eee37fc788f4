----------------------------- MODULE MCZeroGroup -----------------------------
(* The nodes that join are interchangeable.                                *)
EXTENDS ZeroGroup, TLC

Joiners == Permutations(Nodes \ {Boot})
=============================================================================
