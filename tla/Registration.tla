---------------------------- MODULE Registration ----------------------------
(***************************************************************************)
(* The installer: it registers Synaphex with provider hosts through their  *)
(* own commands, prepares the configuration, and keeps a manifest of the   *)
(* hosts it registered, which tells an uninstall where to look.  An entry  *)
(* of a host is recognised by its shape: ours and current, ours and        *)
(* outdated, or foreign.  Commands time out; hosts are independent.        *)
(***************************************************************************)
EXTENDS Registry

CONSTANT Providers

ASSUME ProvidersAssumption == Providers \subseteq {"openai", "anthropic", "google"}

VARIABLES
  entry,      \* entry[p]: what is registered under our name at host p
  manifest,   \* the hosts recorded as registered
  inst,       \* inst[c]: what installer process c is doing
  loose       \* history: hosts whose registration nothing vouches for

insVars == <<entry, manifest, inst, loose>>

Owned == {"current", "outdated"}
Settled == {"idle", "ended", "failed", "crashed"}
Unstarted == [op |-> "none", pc |-> "idle", todo |-> {}, plan |-> [p \in Providers |-> "none"],
              at |-> "none", done |-> {}, base |-> {}]

InsInit(installed) ==
  /\ entry = [p \in Providers |-> IF installed /\ p # "google" THEN "current" ELSE "absent"]
  /\ manifest = {p \in Providers : entry[p] = "current"}
  /\ inst = [c \in Calls |-> Unstarted] /\ loose = {}

InsTypeOK ==
  /\ entry \in [Providers -> {"absent", "foreign"} \cup Owned]
  /\ manifest \subseteq Providers /\ loose \subseteq Providers
  /\ \A c \in Calls : /\ inst[c].op \in {"none", "install", "uninstall"}
                      /\ inst[c].todo \cup inst[c].done \cup inst[c].base \subseteq Providers

Installing(c) == inst[c].pc \notin Settled
Alone(c) == \A x \in Calls \ {c} : ~Installing(x)

\* Two installer processes at a time vouch for nothing.
Engage(c, record) ==
  /\ Occupy(c)
  /\ inst' = [inst EXCEPT ![c] = record]
  /\ loose' = IF Alone(c) THEN loose ELSE Providers
  /\ UNCHANGED <<docs, byHand, slipped, regVars, entry, manifest>>
Proceed(c, record) == inst' = [inst EXCEPT ![c] = record] /\ UNCHANGED <<confVars, regVars>>
Finish(c, pc) == [Unstarted EXCEPT !.op = inst[c].op, !.pc = pc]

(***************************************************************************)
(* Planning: detection and inspection of each selected host, before the    *)
(* user confirms.                                                          *)
(***************************************************************************)
Install(c) == Fresh(c) /\ \E chosen \in (SUBSET Providers) \ {{}} :
                Engage(c, [Unstarted EXCEPT !.op = "install", !.pc = "plan", !.todo = chosen])

\* Reading what is registered may fail.
Inspections(p) == {entry[p], "unknown"}
Action(found) == CASE found = "absent" -> "register" [] found = "current" -> "already"
                   [] found = "outdated" -> "refresh" [] OTHER -> "skip"

\* A host may be missing or too old.
Detections == {"available", "not_found", "unsupported"}
PlanHost(c) ==
  /\ inst[c].pc = "plan"
  /\ \E p \in inst[c].todo : \E host \in Detections, found \in Inspections(p) :
       Proceed(c, [inst[c] EXCEPT !.todo = @ \ {p}, !.plan[p] = IF host = "available" THEN Action(found) ELSE "skip"])
  /\ UNCHANGED <<entry, manifest, loose>>

Planned(c, actions) == {p \in Providers : inst[c].plan[p] \in actions}
Confirm(c) ==
  /\ inst[c].pc = "plan" /\ inst[c].todo = {}
  /\ \/ Proceed(c, [Unstarted EXCEPT !.op = "install", !.pc = "apply", !.todo = Planned(c, {"register", "refresh"}),
                                     !.done = Planned(c, {"already"})])
     \/ Planned(c, {"register", "refresh"}) # {} /\ Proceed(c, Finish(c, "ended"))
  /\ UNCHANGED <<entry, manifest, loose>>

(***************************************************************************)
(* Applying: each host is inspected again; the failure of one is reported  *)
(* and does not stop the others.                                           *)
(***************************************************************************)
InspectAgain(c) ==
  /\ inst[c].pc = "apply"
  /\ \E p \in inst[c].todo : \E found \in Inspections(p) :
       LET rest == [inst[c] EXCEPT !.todo = @ \ {p}] IN
         Proceed(c, CASE found = "foreign" -> rest
                      [] found = "current" -> [rest EXCEPT !.done = @ \cup {p}]
                      [] found = "outdated" /\ p # "google" -> [rest EXCEPT !.pc = "replace", !.at = p]
                      [] OTHER -> [rest EXCEPT !.pc = "add", !.at = p])
  /\ UNCHANGED <<entry, manifest, loose>>

\* How a command of a host ends: one that times out is killed and reported as
\* failed, done or not.
CommandEnds == {[done |-> TRUE, reported |-> TRUE], [done |-> TRUE, reported |-> FALSE],
                [done |-> FALSE, reported |-> FALSE]}

\* The outcome of the removal of a stale entry is not looked at.
RemoveStale(c) ==
  /\ inst[c].pc = "replace"
  /\ \E end \in CommandEnds : entry' = IF end.done THEN [entry EXCEPT ![inst[c].at] = "absent"] ELSE entry
  /\ Proceed(c, [inst[c] EXCEPT !.pc = "add"]) /\ UNCHANGED <<manifest, loose>>

AddEntry(c) ==
  /\ inst[c].pc = "add"
  /\ \E end \in CommandEnds :
       LET p == inst[c].at IN
       /\ entry' = IF end.done THEN [entry EXCEPT ![p] = "current"] ELSE entry
       /\ loose' = IF end.done /\ ~end.reported THEN loose \cup {p} ELSE loose
       /\ Proceed(c, [inst[c] EXCEPT !.pc = "apply", !.at = "none", !.done = IF end.reported THEN @ \cup {p} ELSE @])
  /\ UNCHANGED manifest

(***************************************************************************)
(* The configuration is prepared next; whatever comes of it, the hosts are *)
(* recorded.                                                               *)
(***************************************************************************)
PrepareState(c) ==
  /\ inst[c].pc = "apply" /\ inst[c].todo = {}
  /\ edit' = [edit EXCEPT ![c] = [Idle EXCEPT !.op = "install", !.pc = "agents"]]
  /\ inst' = [inst EXCEPT ![c].pc = "prepare"]
  /\ UNCHANGED <<docs, byHand, slipped, regVars, entry, manifest, loose>>

ReadManifest(c) ==
  /\ (inst[c].pc = "prepare" /\ edit[c].pc \in {"ended", "failed"}) \/ inst[c].pc = "forget"
  /\ Proceed(c, [inst[c] EXCEPT !.pc = IF inst[c].pc = "prepare" THEN "record" ELSE "unrecord", !.base = manifest])
  /\ UNCHANGED <<entry, manifest, loose>>

\* A bug: nothing is recorded when the configuration failed.
RecordableIfReady(c) == IF edit[c].pc = "ended" THEN inst[c].done ELSE {}
Recordable(c) == inst[c].done
Record(c) ==
  /\ inst[c].pc = "record"
  /\ manifest' = inst[c].base \cup Recordable(c)
  /\ loose' = IF Alone(c) THEN loose \ inst[c].done ELSE loose
  /\ Proceed(c, Finish(c, "ended")) /\ UNCHANGED entry

(***************************************************************************)
(* Uninstalling looks at the recorded hosts, or at all when none is        *)
(* recorded, and removes what is provably ours.                            *)
(***************************************************************************)
Uninstall(c) == Engage(c, [Unstarted EXCEPT !.op = "uninstall", !.pc = "remove",
                                            !.todo = IF manifest # {} THEN manifest ELSE Providers])
InspectToRemove(c) ==
  /\ inst[c].pc = "remove"
  /\ \E p \in inst[c].todo : \E found \in Inspections(p) :
       LET rest == [inst[c] EXCEPT !.todo = @ \ {p}] IN
         Proceed(c, IF found \in Owned THEN [rest EXCEPT !.pc = "removing", !.at = p] ELSE rest)
  /\ UNCHANGED <<entry, manifest, loose>>

RemoveEntry(c) ==
  /\ inst[c].pc = "removing"
  /\ \E end \in CommandEnds :
       LET p == inst[c].at IN
       /\ entry' = IF end.done THEN [entry EXCEPT ![p] = "absent"] ELSE entry
       /\ Proceed(c, [inst[c] EXCEPT !.pc = "remove", !.at = "none", !.done = IF end.reported THEN @ \cup {p} ELSE @])
  /\ UNCHANGED <<manifest, loose>>

RemovalsDone(c) ==
  /\ inst[c].pc = "remove" /\ inst[c].todo = {}
  /\ Proceed(c, [inst[c] EXCEPT !.pc = "forget"]) /\ UNCHANGED <<entry, manifest, loose>>

Forget(c) ==
  /\ inst[c].pc = "unrecord"
  /\ manifest' = inst[c].base \ inst[c].done
  /\ Proceed(c, Finish(c, "ended")) /\ UNCHANGED <<entry, loose>>

\* Others change the hosts too: a server of the same name is added, ours is
\* removed, or the package moves and every entry of ours is outdated.
ChangeHosts(c) ==
  /\ edit[c].pc = "idle"
  /\ edit' = [edit EXCEPT ![c] = [Idle EXCEPT !.op = "hand", !.pc = "ended"]]
  /\ entry' \in {[entry EXCEPT ![p] = what] : p \in Providers, what \in {"absent", "foreign"}}
                 \cup {[p \in Providers |-> IF entry[p] = "current" THEN "outdated" ELSE entry[p]]}
  /\ UNCHANGED <<docs, byHand, slipped, regVars, manifest, inst, loose>>

InsStep(c) ==
  \/ Install(c) \/ PlanHost(c) \/ Confirm(c) \/ InspectAgain(c) \/ RemoveStale(c) \/ AddEntry(c)
  \/ PrepareState(c) \/ ReadManifest(c) \/ Record(c) \/ Uninstall(c) \/ InspectToRemove(c)
  \/ RemoveEntry(c) \/ RemovalsDone(c) \/ Forget(c) \/ ChangeHosts(c)

\* The command that a process has under way when it ends is not stopped with
\* it: it takes effect all the same, or it does not.
Underway(c) ==
  {entry} \cup CASE inst[c].pc = "add" -> {[entry EXCEPT ![inst[c].at] = "current"]}
                  [] inst[c].pc \in {"replace", "removing"} -> {[entry EXCEPT ![inst[c].at] = "absent"]}
                  [] OTHER -> {}
Added == {p \in Providers : entry'[p] \in Owned /\ entry[p] \notin Owned}
\* A process that ends before it recorded what it added leaves that loose.
InsDies(c) ==
  /\ inst' = [inst EXCEPT ![c] = Finish(c, "crashed")]
  /\ entry' \in Underway(c)
  /\ loose' = IF inst[c].op = "install" THEN loose \cup (inst[c].done \ manifest) \cup Added ELSE loose

\* Every registration that Synaphex made is recorded, and found by an uninstall.
\* Loose are only the hosts whose command failed after it took effect, whose
\* installer ended before recording them, or that two installers worked on at a
\* time: an uninstall that has others on record passes them by.
RegistrationAccountedFor ==
  (\A c \in Calls : ~Installing(c)) =>
    \A p \in Providers : entry[p] \in Owned => p \in manifest \cup loose
=============================================================================
