--------------------------- MODULE MCTaskWorkflow ---------------------------
(* An instance of TaskWorkflow: sessions and calls may be exchanged.         *)
EXTENDS TaskWorkflow, TLC

CONSTANTS s1, s2, k1, k2, k3

Alike == Permutations({s1, s2}) \cup Permutations({k1, k2, k3})
=============================================================================
