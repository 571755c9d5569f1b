-------------------------- MODULE MCStateDirectory --------------------------
EXTENDS StateDirectory, TLC

CONSTANTS c1, c2

MCCalls == {c1, c2}
MCKeyAgents == {"coder"}
MCEdges == {<<"planner", "coder">>}
MCSources == [p \in Projects |-> IF p = "p1" THEN "path" ELSE "none"]
MCStatuses == [t \in Tasks |-> CASE t = "t1" -> "completed" [] t = "t2" -> "active" [] OTHER -> "none"]
MCReports == [t \in Tasks |-> IF t = "t2" THEN {[kind |-> "report", at |-> 1, id |-> 2]} ELSE {}]
MCReferences == {<<"t1", "p1">>}

CallsAlike == Permutations(Calls)
=============================================================================
