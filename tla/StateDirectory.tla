--------------------------- MODULE StateDirectory ---------------------------
(***************************************************************************)
(* All that shares ~/.synaphex: pages and rule operations of               *)
(* Configuration, projects, tasks and memory references of Registry,       *)
(* installs of Registration, runs of agents of AgentRun.  Each call is a   *)
(* process, or the user at work by hand; any of them may end between two   *)
(* of its steps.                                                           *)
(***************************************************************************)
EXTENDS AgentRun

vars == <<confVars, regVars, insVars, runVars>>

Init ==
  \E installed \in BOOLEAN :
    ConfInit(installed) /\ RegInit(installed) /\ InsInit(installed) /\ RunInit(installed)

TypeOK == ConfTypeOK /\ RegTypeOK /\ InsTypeOK /\ RunTypeOK

Crash(c) ==
  /\ edit[c].pc # "idle"
  /\ edit[c].pc \notin Over \/ Installing(c) \/ Running(c) \/ work[c].pc \notin Over \cup {"idle"}
  /\ edit' = [edit EXCEPT ![c] = Ended(c, "crashed")]
  /\ CASE work[c].op # "none" -> RegDies(c) /\ UNCHANGED <<insVars, runVars>>
       [] Installing(c) -> InsDies(c) /\ UNCHANGED <<manifest, work, mutex, bound, runVars>>
       [] Running(c) -> RunDies(c) /\ UNCHANGED <<work, mutex, insVars, memory, working, records>>
       [] OTHER -> UNCHANGED <<work, mutex, bound, insVars, runVars>>
  /\ UNCHANGED <<docs, byHand, slipped, source, status, place, owner, refs>>

Next ==
  \E c \in Calls :
    \/ ConfStep(c) /\ UNCHANGED <<regVars, insVars, runVars>>
    \/ RegStep(c) /\ UNCHANGED <<insVars, runVars>>
    \/ InsStep(c) /\ UNCHANGED runVars
    \/ RunStep(c)
    \/ Crash(c)

Spec == Init /\ [][Next]_vars
=============================================================================
