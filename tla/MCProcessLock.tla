---------------------------- MODULE MCProcessLock ----------------------------
(* Instances of ProcessLock.  Four processes of one client each on one       *)
(* machine; or three, of which one has two clients and one, that of c4, runs *)
(* on another machine that shares the state directory.                       *)
EXTENDS ProcessLock

CONSTANTS c1, c2, c3, c4

OneHost == {"h1"}
FourPids == Clients
OwnPid == [c \in Clients |-> c]
SameHost == [p \in Pids |-> "h1"]

ThreePids == {c1, c2, c4}
SharedPid == [c \in Clients |-> IF c = c3 THEN c2 ELSE c]
TwoHosts == {"h1", "h2"}
LastIsForeign == [p \in Pids |-> IF p = c4 THEN "h2" ELSE "h1"]
=============================================================================
