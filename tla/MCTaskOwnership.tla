--------------------------- MODULE MCTaskOwnership ---------------------------
(* Instances of TaskOwnership: two sessions that compete for two tasks.      *)
EXTENDS TaskOwnership

CONSTANTS s1, s2, t1, t2, p1
=============================================================================
