---------------------------- MODULE CoderStaging ----------------------------
(***************************************************************************)
(* One run of a provider for an agent.  For CODER the registered source is *)
(* cloned into a staging workspace, the program edits the clone, and what  *)
(* it changed is captured from git and published with the work record      *)
(* under the lock of the task.  The user works on the source meanwhile,    *)
(* ownership of the task moves, the program may hang, be killed or leave   *)
(* descendants behind, any call may throw and the process may die.         *)
(*                                                                         *)
(* A tree is its base commit, how often it was edited, and whether it has  *)
(* a nested repository or a link that leaves it.                           *)
(***************************************************************************)
EXTENDS ProviderExecution

CONSTANTS
  Calls,           \* runs, each started once
  RunAgents,       \* agents that are run
  Commits, UnsafeCommits,
  Configs,         \* agent configurations
  Runtimes,        \* what the probes of the installed programs may find
  Results,         \* results a program may express
  NetworkRules,    \* decisions the network rule may have
  StdoutLimit,
  Nobody, NoTree,
  MaxEdits,        \* bound: edits of one workspace
  MaxTerms         \* bound: sessions that open the task in turn

ASSUME UnsafeAssumption == UnsafeCommits \subseteq Commits
ASSUME RunAgentsAssumption == RunAgents \subseteq TaskRoles
ASSUME ResultsAssumption ==
  \A r \in Results : /\ r = [field \in {"agent", "outcome", "warnings", "calls", "actions", "body"} |-> r[field]]
                     /\ r.body = [field \in DOMAIN r.body |-> r.body[field]]
ASSUME StagingBounds == MaxEdits \in Nat /\ MaxTerms \in Nat /\ StdoutLimit \in Nat \ {0}

VARIABLES
  source,    \* the registered source: its commit, and whether it is dirty
  owner,     \* token of the session that owns the task, 0 for none
  issued, status,
  lock,      \* holder of the task's lock
  call,      \* call[k]: where the run is and what it has in its hands
  child,     \* child[k]: the provider's program
  staged,    \* staged[k]: the staging repository
  temps,     \* temps[k]: temporary directories on disk
  change,    \* change[k]: how much of the change set is on disk
  work       \* work[k]: the work record, or report, on disk

world == <<source, owner, issued, status>>
disk == <<temps, change, work>>
vars == <<world, lock, call, child, staged, disk>>

Preparing == {"home", "head", "index", "clean", "container", "workspace", "clone", "owned"}
Capturing == {"add", "manifest", "tree", "patch", "audit"}
Locked == {"lifecycle", "publish", "record", "complete", "release"}
Ended == {"ended", "crashed"}

Tree(commit) == [base |-> commit, edits |-> 0, unsafe |-> commit \in UnsafeCommits]

NoCall == [pc |-> "idle", agent |-> "coder", config |-> Nobody, policy |-> Nobody,
           fence |-> 0, base |-> Nobody, answer |-> Nothing, manifest |-> NoTree,
           tree |-> NoTree, patch |-> NoTree, outcome |-> "none", leaks |-> FALSE,
           undisposed |-> FALSE, unreleased |-> FALSE, restaged |-> FALSE]
NoChild == [state |-> "none", cwd |-> "source", said |-> Nothing, text |-> "none",
            overflowed |-> FALSE, code |-> 0, signal |-> "none", descendant |-> "none"]
NoStage == [work |-> NoTree, index |-> NoTree, remote |-> FALSE]

\* createTextExclusive and createJsonExclusive create a file and then fill it.
ChangeParts == <<"none", "directory", "torn_patch", "patch", "torn_metadata", "published">>

Init ==
  /\ source \in [head : Commits, dirty : {FALSE}]
  /\ owner = 1 /\ issued = 1 /\ status = "active" /\ lock = Nobody
  /\ call = [k \in Calls |-> NoCall] /\ child = [k \in Calls |-> NoChild]
  /\ staged = [k \in Calls |-> NoStage] /\ temps = [k \in Calls |-> {}]
  /\ change = [k \in Calls |-> "none"] /\ work = [k \in Calls |-> "none"]

-----------------------------------------------------------------------------
(* invokePrepared.                                                           *)

Goto(k, pc) == call' = [call EXCEPT ![k].pc = pc]

Invoke(k) ==
  /\ call[k].pc = "idle" /\ owner # 0 /\ status = "active"
  /\ \E agent \in RunAgents, config \in Configs, decision \in NetworkRules :
       call' = [call EXCEPT ![k] = [NoCall EXCEPT !.pc = "config", !.agent = agent,
                  !.config = config, !.policy = ExecutionPolicy(agent, decision, FALSE)]]
  /\ UNCHANGED <<world, lock, child, staged, disk>>

Resolve(k) ==
  /\ call[k].pc = "config" /\ Executable(call[k].config)
  /\ \E runtimes \in Runtimes : Routable(call[k].config, runtimes)
  /\ Goto(k, "fence") /\ UNCHANGED <<world, lock, child, staged, disk>>

CaptureFence(k) ==
  /\ call[k].pc = "fence" /\ owner # 0
  /\ call' = [call EXCEPT ![k].pc = IF @ = "fence" /\ call[k].agent = "coder" THEN "home" ELSE "spawn",
                          ![k].fence = owner]
  /\ UNCHANGED <<world, lock, child, staged, disk>>

-----------------------------------------------------------------------------
(* CoderWorkspaceStager.prepare.  Each step is a git process of its own on a *)
(* source the user works in.                                                 *)

MakeHome(k) ==
  /\ call[k].pc = "home" /\ Goto(k, "head")
  /\ temps' = [temps EXCEPT ![k] = {"home"}]
  /\ UNCHANGED <<world, lock, child, staged, change, work>>

ReadHead(k) ==
  /\ call[k].pc = "head"
  /\ call' = [call EXCEPT ![k].pc = "index", ![k].base = source.head]
  /\ UNCHANGED <<world, lock, child, staged, disk>>

AssertSupportedIndex(k) ==
  /\ call[k].pc = "index" /\ source.head \notin UnsafeCommits
  /\ Goto(k, "clean") /\ UNCHANGED <<world, lock, child, staged, disk>>

AssertClean(k) ==
  /\ call[k].pc = "clean" /\ ~source.dirty
  /\ Goto(k, "container") /\ UNCHANGED <<world, lock, child, staged, disk>>

MakeContainer(k) ==
  /\ call[k].pc = "container" /\ Goto(k, "workspace")
  /\ temps' = [temps EXCEPT ![k] = @ \cup {"container"}]
  /\ UNCHANGED <<world, lock, child, staged, change, work>>

MakeWorkspace(k) ==
  /\ call[k].pc = "workspace" /\ Goto(k, "clone")
  /\ UNCHANGED <<world, lock, child, staged, disk>>

\* clone, checkout of the base, removal of the remotes, verification.
CreateStagingClone(k) ==
  /\ call[k].pc = "clone" /\ Goto(k, "owned")
  /\ staged' = [staged EXCEPT ![k] = [work |-> Tree(call[k].base), index |-> Tree(call[k].base),
                                       remote |-> FALSE]]
  /\ UNCHANGED <<world, lock, child, disk>>

\* Cloning takes time: nothing runs for a session that lost the task.
StillOwned(k) ==
  /\ call[k].pc = "owned" /\ owner = call[k].fence
  /\ Goto(k, "spawn") /\ UNCHANGED <<world, lock, child, staged, disk>>

-----------------------------------------------------------------------------
(* The program: SpawnProcessRunner's side of it and its own.                 *)

\* A bug: the agent's policy is asked for and its context not projected.
CwdUnprojected(k) == "source"
\* projectExecutionContext: CODER is told of the staging workspace only.
Cwd(k) == IF call[k].agent = "coder" THEN "staging" ELSE "source"

Spawn(k) ==
  /\ call[k].pc = "spawn" /\ Dispatched(call[k].config, call[k].agent, call[k].policy)
  /\ Goto(k, "running")
  /\ \E r \in {s \in Results : SchemaAdmits(call[k].agent, s)} :
       child' = [child EXCEPT ![k] = [NoChild EXCEPT !.state = "running", !.cwd = Cwd(k), !.said = r]]
  /\ UNCHANGED <<world, lock, staged, disk>>

Alive(k) == child[k].state = "running" \/ child[k].descendant # "none"

\* It edits files where it runs, if its policy lets it.  What it does to the clone
\* after the audit is not followed: nothing reads the clone any more.
Edits(k) ==
  /\ Alive(k) /\ call[k].pc \notin Ended /\ ProgramOf(call[k].config, call[k].policy).writes
  /\ IF child[k].cwd = "source"
     THEN source' = [source EXCEPT !.dirty = TRUE] /\ UNCHANGED staged
     ELSE /\ call[k].pc \in {"running", "answer"} \cup Capturing
          /\ \/ /\ staged[k].work.edits < MaxEdits
                /\ \E what \in {"safe", "unsafe", "remote"} :
                     staged' = [staged EXCEPT ![k].work.edits = @ + 1,
                                  ![k].work.unsafe = what = "unsafe", ![k].remote = @ \/ what = "remote"]
             \/ staged' = [staged EXCEPT ![k].work = Tree(call[k].base)]  \* all undone
          /\ UNCHANGED source
  /\ UNCHANGED <<owner, issued, status, lock, call, child, disk>>

\* It may use git itself, which matters once the capture has staged all files.
Stages(k) ==
  /\ Alive(k) /\ child[k].cwd = "staging" /\ call[k].pc \in Capturing \ {"add"}
  /\ staged[k].index # staged[k].work
  /\ staged' = [staged EXCEPT ![k].index = staged[k].work]
  /\ call' = [call EXCEPT ![k].restaged = TRUE]
  /\ UNCHANGED <<world, lock, child, disk>>

\* Its answer: on stdout, captured up to a limit, or for Codex in a file.
Writes(k) ==
  /\ child[k].state = "running" /\ child[k].text = "none"
  /\ IF ProgramOf(call[k].config, call[k].policy).answers = "file"
     THEN \E text \in {"part", "whole"} : child' = [child EXCEPT ![k].text = text]
     ELSE \E size \in 1 .. StdoutLimit + 1, text \in {"part", "error", "whole"} :
            LET captured == Capture(text, size, StdoutLimit) IN
            child' = [child EXCEPT ![k].overflowed = captured.overflowed, ![k].text = captured.text]
  /\ UNCHANGED <<world, lock, call, staged, disk>>

\* Whatever it had started may live on, with or without its pipes.
Exits(k) ==
  /\ child[k].state = "running"
  /\ \E code \in {0, 1, 9}, d \in {"none", "holding", "detached"} :
       /\ code = 9 <=> child[k].signal = "kill"
       /\ child' = [child EXCEPT ![k].state = "exited", ![k].code = code, ![k].descendant = d]
  /\ UNCHANGED <<world, lock, call, staged, disk>>

DescendantWrites(k) ==
  /\ child[k].descendant = "holding" /\ child[k].text = "whole"
  /\ call[k].pc = "running" /\ ProgramOf(call[k].config, call[k].policy).answers = "stdout"
  /\ child' = [child EXCEPT ![k].text = "garbled"]
  /\ UNCHANGED <<world, lock, call, staged, disk>>

DescendantEnds(k) ==
  /\ child[k].descendant # "none" /\ child' = [child EXCEPT ![k].descendant = "none"]
  /\ UNCHANGED <<world, lock, call, staged, disk>>

Timeout(k) ==
  /\ call[k].pc = "running" /\ child[k].signal = "none"
  /\ child' = [child EXCEPT ![k].signal = "term"]
  /\ UNCHANGED <<world, lock, call, staged, disk>>

\* A bug: SIGTERM is sent once more.
KillPolitely(k) == child[k].signal = "term" /\ UNCHANGED vars
KillAfterGrace(k) ==
  /\ call[k].pc = "running" /\ child[k].signal = "term"
  /\ child' = [child EXCEPT ![k].signal = "kill"]
  /\ UNCHANGED <<world, lock, call, staged, disk>>

\* "close" comes when the program is gone and nobody holds its pipes.
Close(k) ==
  /\ call[k].pc = "running" /\ child[k].state = "exited" /\ child[k].descendant # "holding"
  /\ Goto(k, "answer") /\ UNCHANGED <<world, lock, child, staged, disk>>

\* The program's end as its executor sees it.
End(k) ==
  [text |-> child[k].text, overflowed |-> child[k].overflowed, code |-> child[k].code,
   timedOut |-> child[k].signal # "none",
   answer |-> IF call[k].config.provider = "openai" THEN ToWire(call[k].agent, child[k].said)
              ELSE child[k].said]

Answer(k) ==
  LET r == Accepted(call[k].config, call[k].agent, End(k)) IN
  /\ call[k].pc = "answer" /\ r # Nothing /\ ValidResult(call[k].agent, r)
  /\ call' = [call EXCEPT ![k].pc = IF call[k].agent = "coder" THEN "add" ELSE "lock",
                          ![k].answer = r]
  /\ UNCHANGED <<world, lock, child, staged, disk>>

-----------------------------------------------------------------------------
(* captureChanges and the audit, outside the lock.                           *)

GitAdd(k) ==
  /\ call[k].pc = "add" /\ Goto(k, "manifest")
  /\ staged' = [staged EXCEPT ![k].index = staged[k].work]
  /\ UNCHANGED <<world, lock, child, disk>>

\* Nothing changed: there is no candidate, and only the audit is left.
Changed(k) == staged[k].index # Tree(call[k].base)
Manifest(k) ==
  /\ call[k].pc = "manifest"
  /\ call' = IF Changed(k) THEN [call EXCEPT ![k].pc = "tree", ![k].manifest = staged[k].index]
             ELSE [call EXCEPT ![k].pc = "audit"]
  /\ UNCHANGED <<world, lock, child, staged, disk>>

WriteTree(k) ==
  /\ call[k].pc = "tree"
  /\ call' = [call EXCEPT ![k].pc = "patch", ![k].tree = staged[k].index]
  /\ UNCHANGED <<world, lock, child, staged, disk>>

\* A bug: the patch is taken from the files, not from the index.
MakePatchOfFiles(k) ==
  /\ call[k].pc = "patch"
  /\ call' = [call EXCEPT ![k].pc = "audit", ![k].patch = staged[k].work]
  /\ UNCHANGED <<world, lock, child, staged, disk>>
MakePatch(k) ==
  /\ call[k].pc = "patch"
  /\ call' = [call EXCEPT ![k].pc = "audit", ![k].patch = staged[k].index]
  /\ UNCHANGED <<world, lock, child, staged, disk>>

\* The index and the remotes are listed and then judged.
InspectStagedTree(k) == [unsafe |-> staged[k].index.unsafe, remotes |-> staged[k].remote]
AssertStagingStillSafe(k) ==
  /\ call[k].pc = "audit" /\ InspectStagedTree(k) = [unsafe |-> FALSE, remotes |-> FALSE]
  /\ Goto(k, "lock") /\ UNCHANGED <<world, lock, child, staged, disk>>

-----------------------------------------------------------------------------
(* The commit, under the authority of the owner.                             *)

AcquireAuthority(k) ==
  /\ call[k].pc = "lock" /\ lock = Nobody /\ lock' = k
  /\ Goto(k, "lifecycle") /\ UNCHANGED <<world, child, staged, disk>>

AssertEligible(k) ==
  /\ call[k].pc = "lifecycle" /\ owner = call[k].fence /\ MayRun(call[k].agent, TRUE, status)
  /\ Goto(k, IF call[k].manifest = NoTree THEN "record" ELSE "publish")
  /\ UNCHANGED <<world, lock, child, staged, disk>>

\* CoderChangeSetManager.publish: directory, patch, metadata; none for an empty patch.
EmptyPatch(k) == call[k].patch = Tree(call[k].base)
Publish(k) ==
  /\ call[k].pc = "publish"
  /\ \/ EmptyPatch(k) /\ Goto(k, "record") /\ UNCHANGED change
     \/ /\ ~EmptyPatch(k)
        /\ \E i \in 1 .. Len(ChangeParts) - 1 :
             /\ change[k] = ChangeParts[i]
             /\ change' = [change EXCEPT ![k] = ChangeParts[i + 1]]
             /\ Goto(k, IF i + 1 = Len(ChangeParts) THEN "record" ELSE "publish")
  /\ UNCHANGED <<world, lock, child, staged, temps, work>>

\* What ResultProcessor writes: the work record, with the change set that was
\* published, or the report of a reviewer, which may pass the task.
RecordOf(k) ==
  IF Passes(call[k].answer) THEN "pass" ELSE IF change[k] = "published" THEN "linked" ELSE "plain"

\* A bug: the work record is written first.
RecordFirst(k) ==
  /\ call[k].pc \in {"publish", "record"} /\ work[k] = "none"
  /\ work' = [work EXCEPT ![k] = IF call[k].pc = "publish" THEN "linked" ELSE RecordOf(k)]
  /\ call' = CASE call[k].pc = "publish" -> call
               [] Passes(call[k].answer) -> [call EXCEPT ![k].pc = "complete"]
               [] OTHER -> [call EXCEPT ![k].pc = "release", ![k].outcome = "returned"]
  /\ UNCHANGED <<world, lock, child, staged, temps, change>>

\* The record is written atomically; when the output fields of the agent were
\* replaced meanwhile, it throws.
Record(k) ==
  /\ call[k].pc = "record"
  /\ work' = [work EXCEPT ![k] = RecordOf(k)]
  /\ call' = IF Passes(call[k].answer) THEN [call EXCEPT ![k].pc = "complete"]
             ELSE [call EXCEPT ![k].pc = "release", ![k].outcome = "returned"]
  /\ UNCHANGED <<world, lock, child, staged, temps, change>>

\* The report of a passing review is on disk before the task is completed.
MarkCompleted(k) ==
  /\ call[k].pc = "complete" /\ status = "active" /\ status' = "completed"
  /\ call' = [call EXCEPT ![k].pc = "release", ![k].outcome = "returned"]
  /\ UNCHANGED <<source, owner, issued, lock, child, staged, disk>>

ReleaseAuthority(k) ==
  /\ call[k].pc = "release" /\ lock' = Nobody
  /\ Goto(k, "dispose") /\ UNCHANGED <<world, child, staged, disk>>

\* The release of a lock throws, of the task's or of the completion's own.
ReleaseFails(k) ==
  /\ call[k].pc = "release" /\ lock' \in {k, Nobody}
  /\ call' = [call EXCEPT ![k].pc = "dispose", ![k].outcome = "failed", ![k].unreleased = TRUE]
  /\ UNCHANGED <<world, child, staged, disk>>

\* Stages that are commands of git, which fail or are killed when their time is up.
GitStages == {"head", "index", "clean", "clone", "add", "manifest", "tree", "patch", "audit"}
Throwing == GitStages \cup (Locked \ {"release"})
              \cup {"config", "fence", "home", "container", "workspace", "owned", "spawn", "answer", "lock"}

\* What nobody can read any more.
Forget(k) ==
  child' = [child EXCEPT ![k] = [NoChild EXCEPT !.state = child[k].state, !.cwd = child[k].cwd,
                                   !.descendant = child[k].descendant]]

\* Any step may throw: its check fails, or git, the provider or the disk does.
Throw(k) ==
  /\ call[k].pc \in Throwing /\ Forget(k)
  /\ call' = [call EXCEPT ![k].pc = "dispose", ![k].outcome = "failed", ![k].answer = Nothing,
                          ![k].leaks = call[k].pc = "workspace"]
  /\ lock' \in IF lock = k THEN {k, Nobody} ELSE {lock}
  /\ UNCHANGED <<world, staged, disk>>

\* A bug: only the isolated home is removed.
DisposeHome(k) ==
  /\ call[k].pc = "dispose" /\ Goto(k, "ended")
  /\ temps' = [temps EXCEPT ![k] = @ \ {"home"}]
  /\ UNCHANGED <<world, lock, child, staged, change, work>>

\* The finally blocks.  A failed mkdir is outside the one that removes the container.
Dispose(k) ==
  /\ call[k].pc = "dispose" /\ Goto(k, "ended")
  /\ temps' = [temps EXCEPT ![k] = IF call[k].leaks THEN @ \ {"home"} ELSE {}]
  /\ staged' = [staged EXCEPT ![k] = NoStage]
  /\ UNCHANGED <<world, lock, child, change, work>>

\* A directory somebody still writes in, or the disk, stops the removal.
DisposeFails(k) ==
  /\ call[k].pc = "dispose" /\ temps[k] # {}
  /\ call' = [call EXCEPT ![k].pc = "ended", ![k].outcome = "failed", ![k].undisposed = TRUE]
  /\ staged' = [staged EXCEPT ![k] = NoStage] /\ UNCHANGED <<world, lock, child, disk>>

Crash(k) ==
  /\ call[k].pc \notin {"idle"} \cup Ended /\ Forget(k)
  /\ call' = [call EXCEPT ![k].pc = "crashed", ![k].answer = Nothing]
  /\ lock' = (IF lock = k THEN Nobody ELSE lock) /\ staged' = [staged EXCEPT ![k] = NoStage]
  /\ UNCHANGED <<world, disk>>

-----------------------------------------------------------------------------
(* The user and other sessions, watched until the last run is over.          *)

Watched == \E k \in Calls : call[k].pc \notin Ended

UserEdits ==
  /\ Watched /\ ~source.dirty /\ source' = [source EXCEPT !.dirty = TRUE]
  /\ UNCHANGED <<owner, issued, status, lock, call, child, staged, disk>>

UserCommits ==
  /\ Watched /\ \E c \in Commits : source' = [head |-> c, dirty |-> FALSE]
  /\ UNCHANGED <<owner, issued, status, lock, call, child, staged, disk>>

ForceRelease ==
  /\ Watched /\ lock = Nobody /\ owner # 0 /\ owner' = 0
  /\ UNCHANGED <<source, issued, status, lock, call, child, staged, disk>>

OpenTask ==
  /\ Watched /\ lock = Nobody /\ owner = 0 /\ status = "active" /\ issued < MaxTerms
  /\ owner' = issued + 1 /\ issued' = issued + 1
  /\ UNCHANGED <<source, status, lock, call, child, staged, disk>>

EndTask ==
  /\ Watched /\ lock = Nobody /\ status = "active" /\ status' = "completed" /\ owner' = 0
  /\ UNCHANGED <<source, issued, lock, call, child, staged, disk>>

Step(k) ==
  \/ Resolve(k) \/ CaptureFence(k)
  \/ MakeHome(k) \/ ReadHead(k) \/ AssertSupportedIndex(k) \/ AssertClean(k)
  \/ MakeContainer(k) \/ MakeWorkspace(k) \/ CreateStagingClone(k) \/ StillOwned(k)
  \/ Spawn(k) \/ Close(k) \/ Answer(k)
  \/ GitAdd(k) \/ Manifest(k) \/ WriteTree(k) \/ MakePatch(k) \/ AssertStagingStillSafe(k)
  \/ AcquireAuthority(k) \/ AssertEligible(k) \/ Publish(k) \/ Record(k) \/ MarkCompleted(k)
  \/ ReleaseAuthority(k) \/ ReleaseFails(k) \/ Throw(k) \/ Dispose(k) \/ DisposeFails(k)

Program(k) ==
  \/ Edits(k) \/ Stages(k) \/ Writes(k) \/ Exits(k) \/ DescendantWrites(k) \/ DescendantEnds(k)

Next ==
  \/ \E k \in Calls :
       Invoke(k) \/ Step(k) \/ Program(k) \/ Timeout(k) \/ KillAfterGrace(k) \/ Crash(k)
  \/ UserEdits \/ UserCommits \/ ForceRelease \/ OpenTask \/ EndTask

\* The process runs its steps and its timers, and nothing survives SIGKILL.
Fairness ==
  \A k \in Calls :
    /\ WF_vars(Step(k)) /\ WF_vars(Timeout(k)) /\ WF_vars(KillAfterGrace(k))
    /\ WF_vars(Exits(k) /\ child[k].signal = "kill")

Spec == Init /\ [][Next]_vars
FairSpec == Spec /\ Fairness

-----------------------------------------------------------------------------
(* Properties. *)

(* What is published is one tree: its file list, its tree and its patch are  *)
(* of the same index, on the commit the run started from, and the audit saw  *)
(* it, although the program's descendants may still edit; only git commands  *)
(* of theirs during the capture can break it.  A work record never names a   *)
(* change set that is not completely on disk, whatever dies when.            *)
PublishedAsOneTree ==
  \A k \in Calls :
    /\ change[k] = "published" /\ ~call[k].restaged =>
         /\ call[k].tree = call[k].manifest /\ call[k].patch = call[k].manifest
         /\ call[k].manifest.base = call[k].base /\ ~call[k].manifest.unsafe
    /\ work[k] = "linked" => change[k] = "published"

(* The caller is told what happened.  A run that returned has left its       *)
(* record, linked to its change set if what it captured was a change, and a  *)
(* passing review has completed the task as well; one that failed has left   *)
(* no record, unless what failed came after it: the completion of the task   *)
(* after the report of a passing review, the release of a lock, or the       *)
(* removal of the workspace.                                                 *)
RecordWanted(k) ==
  IF Passes(call[k].answer) THEN "pass"
  ELSE IF call[k].manifest = NoTree \/ EmptyPatch(k) THEN "plain" ELSE "linked"
ReportedAsLanded ==
  \A k \in Calls : call[k].pc = "ended" =>
    /\ call[k].outcome = "returned" =>
         work[k] = RecordWanted(k) /\ (work[k] = "pass" => status = "completed")
    /\ call[k].outcome = "failed" /\ ~call[k].undisposed /\ ~call[k].unreleased =>
         work[k] \in {"none", "pass"}

(* An answer counts only if the program ended well by itself, in time, with  *)
(* all of it captured, and it is the result the program expressed.           *)
AcceptedIsWhole ==
  \A k \in Calls : call[k].answer # Nothing =>
    /\ child[k].code = 0 /\ child[k].signal = "none" /\ child[k].text = "whole"
    /\ call[k].answer = child[k].said

(* A run that ended has removed its clone of the source and the home made    *)
(* for git, unless the removal itself or the creation of the workspace       *)
(* directory failed.                                                         *)
NothingLeftBehind ==
  \A k \in Calls :
    call[k].pc = "ended" /\ ~call[k].undisposed /\ ~call[k].leaks => temps[k] = {}

(* No provider's program ever changes the registered source.                 *)
SourceOnlyByUser == [][\A k \in Calls : Edits(k) => UNCHANGED source]_vars

(* Every run ends, even with a program that hangs and ignores SIGTERM: only  *)
(* a descendant that keeps its pipes open can keep it waiting.               *)
EveryCallEnds ==
  \A k \in Calls :
    call[k].pc # "idle" ~> (call[k].pc \in Ended \/ child[k].descendant = "holding")
=============================================================================
