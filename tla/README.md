# Synaphex: specifications, model checking and proofs

Synaphex (`src/`) is a local multi-agent framework. A user drives it from an AI
provider's CLI through an MCP server on stdio; agents of six roles (QUESTIONER,
RESEARCHER, EXAMINER, PLANNER, CODER, REVIEWER) run as child processes of
provider CLIs, and what they produce becomes durable only through explicit,
serialised steps. There is no daemon and no database: every MCP server, CLI call
and configure server is a process of its own, and all of them share one directory
of files, `~/.synaphex`, and the user's own Git repository, which the user edits
at the same time. That is where the difficulty of this program lies: each protocol
below is a sequence of file operations, any two of which can be separated by a
crash, by another process or by the user.

This directory holds TLA+ modules of its protocols, TLC configurations that
check them on small instances, and theorems about them that TLAPS checks for
every instance.

## The system

| Part | Code under `src/src/` | State it keeps | Operations | Hard behaviour | What makes it correct |
|---|---|---|---|---|---|
| Recoverable process lock | `infrastructure/recoverable-process-lock.ts` | a lock file per scope, a quarantine directory | withLock, recoverIfOwnerDead | read-probe-rename without any other lock, crashes, pid reuse, other machines | mutual exclusion; a recovery takes only the record of a dead local owner; a dead owner's lock comes back |
| State store | `infrastructure/state-store.ts` | files | atomic replace, exclusive create (plain and linked), link, rename, unlink | the plain exclusive create is not atomic | the atomicity its users rely on |
| Session manager | `core/session-manager.ts` | a claim per task, a binding per session | bindProject, bindTask, unbindTask, closeSession, force release, capture of a fence, commit under authority | two files per change, a crash between them; fences used minutes later; bindProject takes no lock | one owner per task; a commit only by the current grant; every task can be freed |
| Change-set decisions | `core/change-set-apply-manager.ts`, `operations/change-set-commands.ts` | receipt and intent per change set, the user's repository | apply, reject, reconcile | several git commands per decision, crashes, a user at work on the same files | decided once; applied only if the source holds exactly the result; by the owner of the task |
| Change-set publication | `core/coder-change-set-manager.ts`, `coder-staging-coordinator.ts`, `coder-workspace-stager.ts` | a clone of the source, immutable change sets | stage, run CODER, capture, audit, publish | ownership lost during the run, a source that moves, descendants that still write, a step that throws | a change set is one audited tree of what CODER did to its base; the caller is told what landed; nothing stays behind |
| Agent invocation | `core/agent-invocation-service.ts`, `result-processor.ts`, `context-builder.ts`, `artifact-manager.ts`, validators | artifacts, work records, memory, drafts, task status | invoke, executeHelper, resumeCaller, network continuation | minutes between context, fence and commit; several effects of one result | all effects under one authority, none without; a result rests on what its task held |
| Plans | `core/plan-manager.ts`, `operations/plan-decision-commands.ts` | draft, its revision, current plan, archive | save, accept, reject, archive | two files per draft, decisions on a reviewed revision | no decision on a draft that was not reviewed |
| Tasks | `core/task-manager.ts`, `operations/task-lifecycle-commands.ts`, `session-commands.ts` | status and directory of a task | create, open, complete, archive | status and directory change in two steps; completion by a REVIEWER | nothing pending is stranded; an archived task has no owner |
| Projects, memory | `core/project-manager.ts`, `memory-manager.ts` | records, a memory and its references per scope | create; load, unload, replace, clear | listings beside moves; replacement after minutes | the graph of references has no cycle; a replacement knows what it replaces |
| Rules, role contracts, agent configuration | `core/rule-*.ts`, `role-contract-registry.ts`, `agent-*-manager.ts` | three documents and a rule document per project and task | set, clear, configure, seed | whole documents rewritten without a lock | no rule ever allows what a role contract forbids |
| Continuations | `operations/invocation-continuation-*.ts` | a bounded table in memory | issue, run helper, approve, resume | check, await, mark | a handle is spent step by step; no result is lost but by a throw; no way round the user to CODER or the network |
| Configure server and web interface | `configure/`, `src/web` | none of its own | read models, versioned writes, rendering | the version check precedes the write | no overwrite of what was not seen |
| Installer | `installer/` | provider registrations, a manifest | inspect, plan, apply, uninstall | one provider of several fails; commands time out done or not | nothing of ours is left that an uninstall does not find |
| Providers, process runner | `providers/`, `infrastructure/process-runner.ts` | one child process | route, run, decode | timeout, late and cut output, descendants, exit and close | one outcome per run, and only a whole answer counts |
| MCP server | `mcp/` | none | validates, calls one command, maps errors | | |

How they interact: an MCP call reaches one command of `operations/`; a command
resolves the session's task through the session manager, takes a **fence** (the
ownership token of the grant), does its slow work without any lock (a provider
run may take many minutes), and commits under **authority**: it takes the
task-binding lock, checks that the fence still names the current grant and writes
while it holds the lock. Decisions on change sets take the project's
source-mutation lock first and authority inside it. Plans have a lock of their
own, inside authority; memory references have one that the lifecycle of a task
does not take. All these locks are the recoverable process lock. Rules, agent
configurations and the installer's manifest have none.

## What is modelled

### ProcessLock

One lock path and the processes that contend for it. `lock` is the file, with
the record of one acquisition, nothing, a legacy or a malformed artifact;
`quarantine[c]` is the file a recovery moved aside. Each file operation of
`acquire`, `inspect`, `recoverGeneration` and `release` is an action
(`CreateSucceeds`, `Read`, `ProbeDead`, `Capture`, `Discard`, `Restore`,
`ReleaseReads`, `ReleaseRemoves`, ...), so that every interleaving of two
recoveries, a release and a fresh acquisition is explored. `ProcessEnds` kills a
process with all its clients anywhere; `PidReused` gives its pid to another,
after which the probe no longer proves anything. The delays between attempts are
left out, and `RetryCount` bounds the attempts as in the code. The critical
section is the step between `CreateSucceeds` and `Leave`.

`misfired` is a history variable: it becomes true when a recovery captures a
record other than the one it proved dead. The code does not prevent that, and
then the lock does not exclude (see *Disagreements*); everything it does promise
is stated relative to it. A captured record is lost in two ways: `Discard` removes
it as proved dead, and `Restore` removes it when a newer owner has the path, or
its recovery dies before either.

### TaskLease and TaskOwnership

`TaskLease` is the promise: a task has at most one holder, each grant has a
larger term, and a commit is made only by the current holder under the current
term; it knows nothing of files, locks or crashes. `TaskOwnership` is
`SessionManager`: `claim[t]` and `binding[s]` are its files. A locked operation
enters (takes the lock, makes all its reads, and has chosen its writes: only
locked operations write claims, and unlocked ones can disturb nothing but
bindings), then makes its writes one at a time; `Abandon` may end it before any
of them, which stands both for a crash, whose lock is recovered, and for a write
that throws. `findTaskOwnerWhileLocked` heals a claim that its binding
contradicts, as part of the operation that runs into it (`HealThen`). Claims are
created by a plain exclusive write, so `Torn` is a state of a claim file;
bindings are replaced atomically. `StrayReads` and `StrayWrites` are bindProject
and unbindProject, which read and write without the lock. `Legacy` tasks start
with a claim from before tokens existed, which `CaptureTaskOwnership` upgrades.

That the lock excludes is an assumption here, namely what ProcessLock shows
when no capture misfires.

### PlanDraft

The plan files of one task: `draft`, its metadata `meta`, `current` and
`archive`. As in TaskOwnership an operation takes the plan mutation lock and
makes its reads, and then its writes one at a time (`step` is the next one,
`next` what follows it), before any of which it may end (`PlanAbandon`): save is
content then metadata, accept is archive, rename, removal of the metadata,
reject is metadata then draft. `getDraftWithRevision` shows the revision
(`ShowDraft`) or mints one first (`HydrateDraft`), also for a draft from before
revisions, with which the model may start. A reviewer decides only a revision
that was shown; `AcceptDraft(Unasked)` is the library's `acceptPlan`, which expects
none. A text stands for its hash. `made` numbers the drafts so that two
drafts of one text can be told apart; no guard looks at it. The names start with
`Plan` so that a module that composes it with the task can extend it. The
session's ownership and the task's status, which the commands check before they
call the plan manager, are not part of it.

### TaskWorkflow

The life of one task, composed of what the other modules show: ownership is the
lease (`holder` and `term` change at once, `fence` is the term a call captured),
a draft is its revision, the newest CODER record a number with the state of its
change set. `call[k]` is a command in flight. It begins with the first checks of
the command (`Open`, `Invoke`, `Complete`, `DecidePlan`, `DecideChange`), takes
its fence (`TakeFence`) and commits, any time later: results of invocations under
authority with the role's lifecycle contract checked again (`MayCommit`),
completion with its blockers read under the same lock (`MayComplete`), a decision
on a change set under authority, a decision on a plan under the plan lock alone.
`Release` closes, unbinds or force-releases; an archive holds the task-binding
lock while it releases, writes the status and moves the directory, and may die
between. A review that FAILs, a crash and a refused commit are all `Fail`.
QUESTIONER, RESEARCHER and EXAMINER are left out: they touch neither drafts nor
change sets nor the status. So is the drift check of an applied change set, which
only keeps a review from starting.

### ChangeSetDecision and ChangeSetApply

`ChangeSetDecision` is the state machine of ADR 0003: pending,
applying_interrupted, applied, rejected, with `applied` reached only after the
source held exactly the result since the apply began. `ChangeSetApply` is the
code: `Resolve` and `TakeFence` run before the locks, `Enter` takes both locks
and makes the checks of the chosen command, and then intent, `git apply --check`,
`git apply --index`, verification, `git reset --hard`, its observation, receipt
(created, then filled) and removal of the intent are steps of their own, before
any of which the process may die (`Abandon`), also while git is patching.
`src` is what the code observes of the repository: HEAD, the index tree, the
authors of unstaged edits, and whether untracked files exist. The user edits,
adds and removes files, stages, commits, checks out and finishes a change by
hand at any time. Trees are abstract: the tree of the n-th commit, the result of
a change set, or `Mixed`, which is none of them. `Publish`, `Grant` and `Revoke`
are what the rest of Synaphex does to the task meanwhile.

The four git reads of one observation are one step. Both locks and the reads of
receipt and intent under them are one step, because these files change under
these locks only. A git child that outlives its parent is not modelled.

### AgentContracts and ProviderExecution

Pure functions, as operators without state. `AgentContracts` has the immutable
role contracts (which agent needs an active task, which agent calls are forbidden
whatever a rule says), the classification of what an agent asks for, the
validation of an agent's result field by field, and what the managers that store
it accept. `ProviderExecution` goes from a configured agent to an accepted
answer: what can be authored and executed, when an installed program is
available, what a policy becomes at each provider (tools, sandbox, network), when
the end of a program counts as success, what its output decodes to, and the wire
form of a result for Codex with its way back. The text of a program is `none`,
`part`, `whole`, `error` or `garbled`; fields of a result are `text` or `blank`,
`json` or `other`.

### Continuations

The tool calls that begin and continue invocations, in one MCP server process.
`records` is the bounded table of continuation records, `call[c]` a tool call in
flight, `log` the history of committed invocations; a handle is the number of the
invocation it was issued for. A call looks up its record and checks the request
in one step (`InvokeAgent`, `ExecuteHelper`, `ApproveAndExecuteHelper`,
`ResumeCaller`, `ApproveNetworkAction`, `ContinueAllowedNetwork`), and then
awaits: `Authorise` against the rules, task and binding as they are by then,
`Prepare` with the execution policy, `Execute`, `Commit`, and only then the mark
or the consumption of the handle (`DeliverHelper`, `DeliverResume`,
`DeliverInvoke`). A call may throw before it commits (`Fail`), and after it
(`FailAfterCommit`, a workspace that cannot be removed; `Commit` itself for a
passing review whose task cannot be completed): the handle is then as it was.
Calls overlap at every one of these points. `LoseTask`,
`EndTask`, `DecidePlan` and `SetRules` change the world meanwhile, and `Restart`
forgets every record and every call. `overlapped` is a history variable, the
handles that two calls were made with at a time.

### CoderStaging

One run of an agent on a provider. Its steps are those of `invokePrepared`,
`CoderWorkspaceStager`, `CoderStagingCoordinator`, `SpawnProcessRunner` and
`CoderChangeSetManager`, each git process and each file a step of its own:
preparing the clone (`MakeHome` to `StillOwned`), the program (`Spawn`, `Edits`,
`Stages`, `Writes`, `Exits`, what its descendants do, `Timeout`,
`KillAfterGrace`, `Close`, `Answer`), the capture (`GitAdd`, `Manifest`,
`WriteTree`, `MakePatch`), the audit, and the commit under authority
(`AcquireAuthority` to `ReleaseAuthority`: the change set in five writes, none if
the patch is empty, the record of the run, and for a passing review the
completion of the task, `MarkCompleted`). The release of the lock may fail, every
step may `Throw`, the process may `Crash` anywhere, and disposing may fail. The
user edits and commits in the source, other sessions take the task over or end
it. A tree is its base commit, how often it was edited and whether it has a nested
repository or a link that leaves it. `restaged` remembers that a descendant used
git inside the clone during the capture, `leaks` that the workspace directory
could not be made, `undisposed` that a removal failed. REVIEWER runs take the
same way without the clone.

### StateDirectory

All that shares `~/.synaphex`, as four layers each of which extends the one
before it with its variables and the steps of its calls, so that a call of any
kind can meet a call of any other between any two steps:

- `Configuration`: the documents for agents, their output fields and rules,
  globally and of a project. A page is loaded for its user document by document
  (`Digest` beside `ShowAgents` and `ShowRules`), a save compares digests and
  then reads, changes and writes (`CheckFresh`, `ReadDocument`,
  `WriteDocument`) and renders every document (`ReadToRender`, `Rewrite`); rule
  operations do the middle part alone. Documents may be absent, torn or invalid,
  and `HandEdit` is the user with an editor. What the managers parse and what the
  renderer accepts differ, as in the code: an agent whose provider was removed is
  an entry of the one and an error of the other. `slipped` remembers that a
  document changed while a call was at work on it, `byHand` that the user
  allowed a forbidden call in the file.
- `Registry`: projects (an unlocked check of the path, then the seeding, the
  record last), tasks (`CreateTask`, and an archive that marks and moves under
  the task-binding lock) and memory references, which are loaded after open and
  archived tasks were listed side by side (`ListTasks`, `CheckLoad`,
  `WriteReference`).
- `Registration`: installs and uninstalls over the hosts `entry[p]` and the
  manifest. A command of a host that times out is reported as failed, done or
  not; the outcome of the removal before a replacement is not looked at; the
  configuration is prepared by the steps of `Configuration`; other programs change the
  hosts too. An installer may die with a command under way, which then takes effect
  or not (at once: a child that outlives its installer for longer is left out).
  `loose` are the hosts whose registration nothing vouches for.
- `AgentRun`: a run reads its context section by section (rules call by call
  from two documents, memory, artifacts kind by kind, each looked up while the
  task may be moved: its memory does not move with it, its artifacts do), captures its fence, and commits under the
  task-binding lock if its session still owns the task: memory of an EXAMINER,
  the working context of a QUESTIONER, research, work and review records, and the
  completion by a REVIEWER in a step of its own. Sessions are lost and tasks
  reopened meanwhile.

## What is checked

| Run | Configuration | What it shows |
|---|---|---|
| `lock` | four clients, two of them in one process, one on another machine, one attempt per call, one acquisition each, fair | `LockInv` (inductive), `ExclusionUnlessMisfired`, `RecoveryLosesOnlyTheDead`, `ArtifactsUntouched`, `DeadOwnerReclaimed` |
| `lock_stolen` | four clients on one machine | `MutualExclusion` fails |
| `ownership` | two sessions, two tasks, one of them legacy, three tokens, fair | `OwnInv` (inductive), `ImplementsLease`, `ClaimReleasable` |
| `ownership_races` | two sessions, one task, one unlocked call in flight | `RaceInv` (inductive), `LandsInOrder` |
| `decision` | two sessions hold one task in turn, two change sets, two commits, two grants, two moves of the user | `ApplyInv` (inductive), `WritesAccountedFor`, `DecidesAsOwner`, `ImplementsDecision` |
| `decision_stale` | the same | `DecidesCurrentTarget` fails |
| `decision_rollback` | the same | `UnownedWorkSurvives` fails |
| `plan` | two texts, a draft from before revisions or none, two saves, four revisions | `PlanInv` (inductive), `DecidedAsReviewed`, `AcceptedPlansKept`, `RejectedForGood` |
| `workflow` | two sessions, three overlapping calls, two grants, one draft, two work records | `WorkflowInv` (inductive), `UserCompletionStrandsNothing`, `PassedAsReviewed`, `ArchivedUnownedUnlessLate`, `NothingNewAfterTheEnd` |
| `continuations` | two overlapping tool calls, three invocations, a table of one record, chains of depth two, two rule sets, six answers of four agents | `HandleUsedOnce`, `NetworkGrantTraceable`, `CoderOnlyByUser`, `ValidatedIsStorable` |
| `staging` | one run of CODER or REVIEWER on Claude or Codex, a safe and an unsafe commit, an edit of the clone that may be undone, reviews that pass and that fail, two owners in turn, fair | `PublishedAsOneTree`, `ReportedAsLanded`, `AcceptedIsWhole`, `NothingLeftBehind`, `SourceOnlyByUser`, `EveryCallEnds` |
| `state` | any two calls, fresh or installed; two projects, three tasks, two hosts, six agents, one configured agent, one agent call | `TypeOK`, `WithinContract`, `MemoryAcyclic`, `RegistrationAccountedFor`, `ContextWhole`, `SavesOverWhatWasShown`, `MemoryReplacedAsRead` |

What the properties of the lock and of the last three parts say, and what they
leave out because the code does:

- *ProcessLock.* `RecoveryLosesOnlyTheDead` is about every way a captured record
  is lost. It excepts the live one that a misfired capture took, if a newer owner
  has the path when it would be restored or its recovery dies before.
- *Continuations.* `HandleUsedOnce`: as long as the calls for one handle follow one
  another, a step is taken again only when its call threw, and only such a throw
  loses a result, even with a full table. A call can throw after it committed
  (see *Disagreements*), and its step can then be repeated; two calls for one
  handle at a time do both run; a *first* invocation at capacity
  commits and loses its handle. `NetworkGrantTraceable` and
  `CoderOnlyByUser` are about every call, overlapping or not: a policy with
  network comes from a rule or from the answer to this agent's request in this scope,
  and going back from a run of CODER one always comes to one the user started.
- *CoderStaging.* `PublishedAsOneTree`: file list, tree, patch and audit are of
  one index on the commit the run started from, unless a descendant used git in the
  clone during the capture; and no record names a change set that is not whole on
  disk. `ReportedAsLanded`: a run that returned has left its record, and a passing
  review has completed its task. A run that failed has left none, with these
  exceptions: a removal or a release of the lock that fails makes a run that
  published report failure, and a review that could not complete its task has left
  its report. `NothingLeftBehind` excepts a removal that fails. `AcceptedIsWhole` is about
  the composition of capture, exit, timeout, decoder and wire codec.
  `EveryCallEnds` excepts a descendant that keeps the pipes of the program open:
  `close` then never comes and the caller waits for good.
- *StateDirectory.* `SavesOverWhatWasShown` excepts a change that lands while the
  page is fetched or after the version was compared, and the rules of a project,
  which are not in the version. `MemoryAcyclic` is about the references between
  scopes that are not archived: while a task is moved, a load may miss its
  references. `ContextWhole` compares a result that commits with what its task
  held when the run began. `MemoryReplacedAsRead` is about the memory of a task:
  that of a project is replaced without any lock, and two runs of one session
  can lose an update. `RegistrationAccountedFor` excepts the hosts in `loose`.

**Bounds.** Four clients are what the stolen lock needs (a dead owner, the late
recoverer, the owner whose lock it takes, and the one who acquires meanwhile),
and what a captured live record that cannot be restored needs; both runs of the
lock have them. `lock` checks liveness too and gives each call one attempt: a call
that failed may be followed by another, as a retry would be. `lock_stolen` has the
retry of a call after its recovery; the theorems cover any numbers. Three tokens let a task be
granted, released, granted again and upgraded; two sessions give every
competition and the ABA of one session that comes back. Two moves of the user
fall on both sides of any git command; two change sets and two commits are what a
stale target and a moved HEAD need. Two saves beside an old draft give a draft
reviewed, replaced and replaced back; four revisions let each be given one and
one more after a crash. Three calls let an invocation, a decision and a
completion overlap; two records let CODER publish while a review runs. Three
invocations and a table of one record give a caller, its helper and its
resumption with the table full at every issue. One run is enough for staging,
because runs share only the source, the task and its lock, which the user and the
other sessions of the model change at any time. Two calls on the state directory are
every overlap of two operations, each of which is one call, and in a fresh or an
installed directory what one leaves for the other; the initial reference and
records stand for calls that are over. Every bound stands in the guard of the action
that spends it (`MaxGen`, `MaxTokens`, `MaxStrays`, `MaxCommits`, `MaxTerms`,
`MaxMoves`, `MaxSaves`, `MaxRevisions`, `MaxDrafts`, `MaxRecords`,
`MaxInvocations`, `MaxEdits`; each call of StateDirectory is made once), and none
of the theorems depends on its value. Symmetry is used in runs
without liveness only, over sessions, calls or plan texts.

**Deadlock** is checked for task ownership. It is not for the lock, where every
process may have ended, nor for plans, whose saves can be spent, nor for the task,
which ends archived, nor for decisions, where the user's moves, the commits
and the grants of the instance can be spent and everything decided, nor for the
last three, whose calls are each made a bounded number of times and then over.

**Fairness.** In `lock` a client whose process runs takes its next step:
each step is one file operation and the critical sections are short; nothing
makes a process call, end or lose its pid. In `ownership` the operation that has
the lock makes its writes (weak fairness of `Perform`); a user who repeats a
force release is served again and again among contenders (strong fairness of
`ForceRelease`, the retry loop with its 500 attempts); and operations are not cut
short forever. In `staging` the process runs its steps and its two timers, each of
which is an awaited call or a callback of the event loop, and a program that got
SIGKILL exits; nothing makes a program answer, exit on SIGTERM, or end its
descendants, and nothing makes a process crash.

**Mutants.** Beside each guard a property depends on stands a broken variant of
it, marked *A bug*: a verdict not looked at, a token not compared, an untracked
file not counted. Substituted for the original each one violates its property.

## Disagreements between the code and its documents

Shown by a run:

1. **A live lock can be stolen** (`lock_stolen`). Two clients prove the same
   owner dead. One discards its record and a third acquires; the late one's
   rename then captures the live record. Until it has linked the record back the
   path is free and a fourth client acquires: two clients are inside. ADR 0004
   says "Never a stolen live lock".
2. **A stale target is decided** (`decision_stale`): the newest work record is
   read before the locks and not again, against ADR 0003.
3. **Rollback can destroy the user's edit or move HEAD away from the user's
   commit** (`decision_rollback`), made between the baseline check and
   `git reset --hard`, against ADR 0003 and the security documentation.

Behaviour of the models that the properties above leave room for, and that a
reader of the documents would not expect:

4. **A torn claim wedges its task.** The claim is created by a plain exclusive
   write (`core/session-manager.ts:167`); after a crash inside it every operation
   on the task, force release included, throws on reading it, while
   `docs/troubleshooting/sessions-and-locks.md:102` offers the force release for
   an owner that is gone.
5. **A replaced draft inherits an approval** when it has the same text and its
   save ends before its metadata is written (`core/plan-manager.ts:139`): the old
   revision still matches its bytes. `docs/workflows/planning-and-coding.md:60`
   says that a replacement is a new revision "even when its text is identical".
6. **A save can overwrite a change nobody saw**: one that arrives between the
   version check and the write, or while the page is put together, or in the
   rules of a project. `docs/configuration/configure-gui.md:173` says that it is
   refused.
7. **Two EXAMINERs can overwrite each other** in one session, and for the memory
   of a project in any two. `docs/concepts/memory.md:39` says that conflicting
   information does not silently replace memory.
8. **A continuation can be used twice.** A call checks the record, waits for its
   provider and moves the record on only when it returns
   (`operations/invocation-continuation-commands.ts:254`), so a second call made
   meanwhile passes the same check and both commit. The store says that approving
   or resuming twice fails (`operations/invocation-continuation-store.ts:36`).
9. **A step can fail after its work is done.** `invokePrepared` removes the
   workspace after the commit (`core/agent-invocation-service.ts:640`); if that
   throws, the change set is published, the caller sees an error, and a
   continuation keeps its state and can be taken again. A REVIEWER's report is
   saved before the task is marked completed (`core/result-processor.ts:303`); if
   that throws, the run has failed and its report stays.

## What is proved

TLAPS checks these for all values of the constants, under the assumptions on
constants that the modules name.

*ProcessLockProofs.* `LockInvariant`: `LockInv` is inductive. The claim that a
holder's record is at the lock path needs that a recovery past its probe names a
generation whose process is gone for good (`RecoversTheDead`; a pid may be
reused, but a dead process does not come back), and that without a misfire a
quarantined file is such a record (`CapturesTheDead`), hence never a holder's.
From it `LockExcludes`, `ArtifactsFailClosed` and `RecoveryLosesTheDead`, over
`Discard`, `Restore` and the death of a recovery.

*TaskOwnershipProofs.* `OwnershipInvariant` and `OwnershipIsALease`, for a system
without unlocked calls (`Unlocked = {}`: the MCP server binds projects for fresh
session ids only). The invariant says, write by write, what the operation in the
lock still knows of the two files, and that an owned task's claim carries the
token of its latest grant. Under the refinement mapping a grant happens when the
binding is written, a revocation when the first of the two files goes, an upgrade
and a commit when they are written; all other writes stutter. `RaceInvariant` and
`CommitsInOrder` need no such assumption: whatever unlocked calls do, work of an
earlier grant never lands after work of a later one.

*ChangeSetApplyProofs.* `ApplyInvariant`: `ApplyInv` is inductive. It ties the
stage of the one decision that runs to receipt, intent and source; the crucial
conjuncts are that an exact result observed under an intent is remembered in
`proven`, and that before the patch and when giving up nothing of the change set
is left in the source. From it `DecisionsImplemented` (the refinement),
`WritesAccounted`, and `OwnersDecide`, which assumes that each session can hold
one task only (`OneTaskEach`); the code compares the fence with the session's
task when the fence is taken and not with the target's.

*PlanDraftProofs.* `PlanInvariant`: `PlanInv` is inductive. A revision that was
shown, decided or stands in the metadata was minted for one text
(`OneContentPerRevision`), and the operation in the lock still finds the draft
and metadata it checked (`PlanStageInv`). From it `DecisionsAreReviewed`,
`AcceptedPlansSurvive` and `RejectionsAreFinal`.

*TaskWorkflowProofs.* `WorkflowInvariant`: `WorkflowInv` is inductive. A review
in flight was started for a record whose change set was applied or empty, and
that state is final (`ReviewInv`); an archive in the lock knows how far it has
come (`ArchiveInv`). From it `NothingStranded`, `EndIsFinal`, `PassesAsReviewed`
and `ArchivesUnowned`. Three things a reader may expect do not hold in the code
and are not stated: a decision on a plan can land after its session lost the
task, an open that read the status early can own an ended task, and a REVIEWER
PASS completes a task whose draft is then never decided.

*CoderStagingProofs*, for any number of runs, configurations, programs and
sessions. `StagingInv` says of each run what its stage promises of the clone, of
what was captured so far and of the disk: while the capture goes on, manifest,
tree and patch are of the index as it is (`CapturedSoFar`), unless a descendant
restaged, and a published part implies an audited whole (`Written`); `CompletedInv`
adds that the task of a passing review that returned is completed. From it
`OneTreePublished`, `ReportsAreTrue` and `RunsCleanUp`. `SandboxInv` says that a
living program runs where its agent's role puts it, under the policy of that
role; with it, `OnlyTheUserEdits` resolves the policy at each provider and
shows that a program in the source cannot write.
`AnswerInv`: there is an answer only once the program has exited with code 0, by no
signal and with all it wrote captured, and the answer is the result the program
meant; the round trip through the wire form of Codex is a lemma of its own
(`WireRoundTrip`). `AnswersAreWhole` follows.

*ContinuationsProofs*, for any callers, capacity, depth and replies. `GrantInv`:
what is about to be committed was validated for its agent, an approval in
flight answers a request that is in the log, and from its authorisation on it is
of the scope of the call, because a session that lost its task never comes by it
again. From it `GrantsAreTraced` and `ValidatedResultsAreStored`. `LineageInv`:
every continuation continues an earlier invocation, of the same agent unless it
is a helper, and a helper is never CODER; `CoderIsTheUsers` then takes the least
run of CODER in a chain. `HandleInv`: a handle that only one call serves is in
the state that call waits for, whatever helped or closed it is delivered, has
thrown, or is still with that call, and the table holds no more records than its capacity,
so that who consumes a record finds room for the next (`HandlesAreSpentOnce`).

*StateDirectoryProofs*, for any calls, documents, projects, tasks and hosts.
`ContractInv`: the contract is kept on disk only together with all copies in
flight, since a call writes what it read before others wrote (`ContractsKept`).
`RegistrationInv`: an installer at work alone has recorded, or will record, whatever
neither the manifest nor history accounts for, and an uninstall removes from the
manifest only what is gone (`RegistrationsRecorded`).

Two invariants carry the rest. `OnceInv`: a call does one thing and never begins
again, so a step of one kind leaves the calls of every other kind as they were.
`LockInv`: a run that may still write to its task holds the lock of the task binding
while its session owns the task, and an archive from the check of the status to
the move; so no task is taken or moved away under a commit. On them rest:

- `MemoryIsAcyclic`, by `GraphInv`: a load past the graph lock holds the mutex, its
  reading of the references covers those of all live tasks, and what it is about to
  write closes no cycle (`ReferenceClosesNoCycle`: a reference whose target does not
  lead back keeps an acyclic graph acyclic). Archiving takes no lock of the graph,
  but only removes references.
- `MemoryIsReplacedAsRead`, by `SessionInv`: what a task holds is what the session of
  the run was shown, or a finished run of that session put it there.
- `ContextIsWhole`, by `RecordsInv` and `WholeInv`: a section that was read contains
  every record known when its run began. It needs that a newest record exists
  where there is any (by the well-founded order of the naturals, as times are
  bounded), that runs do not share ids, and that nothing removes a record.
- `TypesHold`, by one invariant per kind of call (`ConfTyped`, `RegTyped`,
  `InsTyped`, `HeldTyped`): a copy in flight is of the document it was read from,
  and a save was asked for an entry that its document has.
- `SavesKeepWhatWasShown`, by `SavesInv`: as long as no other call changed the
  document while the save was at work, its digest, the version it was given and the
  value it was shown agree with the disk.

Assumptions on constants that the proofs use, besides bounds and markers that
are no values: ids are finitely many texts of one length, numbered in their
order (`IdsAssumption`), the reports on disk at the start are filed under their
own ids (`ReportsAssumption`), the references at the start lie between scopes
that exist and form no cycle (`ScopesAssumption`, `FirstAssumption`,
`ReferencesAssumption`), and what a program answers has the fields of a result
(`ResultsAssumption`; the code parses against that schema).

Left to TLC: the liveness properties (`DeadOwnerReclaimed`, `ClaimReleasable`,
`EveryCallEnds`), whose proof needs ENABLED, and the violations, which are single
behaviours. Every other property that a passing run checks
is a theorem, for ownership and the deciding owner under the conditions named
above.

## What is not modelled

- *Locks inside the larger modules.* TaskOwnership, ChangeSetApply, PlanDraft,
  CoderStaging and StateDirectory take the lock as a mutex that a crash frees.
  That is what ProcessLock shows unless a capture misfires; the misfire
  is not carried into them.
- *A git child that outlives its parent.* The patch ends with its process.
- *Parts of the context and of a session*: the plan section of a context,
  explicit references to artifacts and the contents of loaded references; which
  project a task belongs to; rules of a task, which have the form of those
  of a project.
- *Code that nothing in the repository calls*: `removeProvider`,
  `replaceOutputFields`, `deleteResearchArtifact`, `clearQuestionerContext`,
  `authorizeHostAction`. Where such a call would leave a document in another
  state, the user's hand leaves it in that state in the model.
- *Reading of host files*: two of the registrars take a file they cannot read for
  one without an entry. The model has an inspection that fails instead.
- *The Codex executor's temporary directory* beside the ones of the stager, and
  the temporary files of an atomic replacement.
- *The clock* is assumed never to go back.
- *Text*: prompts, schemas beyond what they admit, reports, messages, command
  lines, templates; the command line of the installer; the HTTP and session
  layer of the configure server; the rendering of the web interface; build
  scripts. They keep no state, or none that outlives a call, and what they
  promise is not about the order of steps. The MCP server is a front for the
  commands with no state but the table of continuations.

## Files

`X.tla` is the specification of a part, `MCX.tla` its instances for TLC,
`X*.cfg` their configurations, `XProofs.tla` its theorems. `PROJECT.json` lists
components, runs, mutants, the source lines of every definition, the findings,
the hazards of the code with the properties that watch them, and the theorems.
