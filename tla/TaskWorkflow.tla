---------------------------- MODULE TaskWorkflow ----------------------------
(***************************************************************************)
(* The life of one task: sessions open it, invocations of PLANNER, CODER   *)
(* and REVIEWER work on it for minutes, their user decides on drafts and   *)
(* change sets, completes the task and archives it, and calls overlap.     *)
(*                                                                         *)
(* Ownership is the lease of TaskLease: "holder" and "term" change at once *)
(* and whatever runs under task-ownership authority is one step.  A draft  *)
(* is its revision and the newest CODER work record is its number with the *)
(* state of its change set; PlanDraft and ChangeSetApply say how a         *)
(* decision on them is made.                                               *)
(***************************************************************************)
EXTENDS Naturals

CONSTANTS
  Sessions,
  Calls,       \* calls of commands that can be in flight
  NoSession, NoCall,
  MaxTerms,    \* bound: grants of the task
  MaxDrafts,   \* bound: drafts saved
  MaxRecords   \* bound: CODER work records

Roles == {"planner", "coder", "reviewer"}
Kinds == Roles \cup {"open", "complete", "plan", "change"}
ChangeStates == {"none", "pending", "applying_interrupted", "applied", "rejected"}

\* A call in flight: its session, the revision or record it was made for, and
\* the term it captured.
Call == [kind : Kinds, stage : {"fence", "commit"}, by : Sessions, target : Nat,
         fence : Nat]

ASSUME SessionAssumption == NoSession \notin Sessions
ASSUME CallAssumption == NoCall \notin Call
ASSUME WorkflowBounds == {MaxTerms, MaxDrafts, MaxRecords} \subseteq Nat

VARIABLES
  status,     \* status of the task
  place,      \* the collection its directory is in
  holder,     \* the session that owns it, or NoSession
  term,       \* the ownership token of the latest grant
  draft,      \* revision of the plan draft, 0 when there is none
  drafts,     \* drafts saved so far
  record,     \* number of the newest CODER work record, 0 when there is none
  change,     \* state of that record's change set
  archiving,  \* where an archive is that has the task-binding lock
  call,       \* call[k]: the call in flight, or NoCall
  ended,      \* history: who completed the task
  reviewed,   \* history: the record REVIEWER passed
  late        \* history: the task was opened after it had been completed

taskVars == <<status, place, holder, term, draft, drafts, record, change, archiving>>
vars == <<taskVars, call, ended, reviewed, late>>

TypeOK ==
  /\ status \in {"active", "completed", "archived"} /\ place \in {"open", "archive"}
  /\ holder \in Sessions \cup {NoSession} /\ term \in Nat
  /\ draft \in Nat /\ drafts \in Nat /\ record \in Nat /\ change \in ChangeStates
  /\ archiving \in {"no", "release", "status", "move"}
  /\ call \in [Calls -> Call \cup {NoCall}]
  /\ ended \in {"no", "user", "reviewer"} /\ reviewed \in Nat /\ late \in BOOLEAN

Init ==
  /\ status = "active" /\ place = "open" /\ holder = NoSession /\ term = 0
  /\ draft = 0 /\ drafts = 0 /\ record = 0 /\ change = "none" /\ archiving = "no"
  /\ call = [k \in Calls |-> NoCall]
  /\ ended = "no" /\ reviewed = 0 /\ late = FALSE

-----------------------------------------------------------------------------
(* A call begins: it resolves the session's task and makes its first checks. *)

Undecided == change \in {"pending", "applying_interrupted"}

Begin(k, s, what, next, for) ==
  /\ call[k] = NoCall
  /\ call' = [call EXCEPT ![k] = [kind |-> what, stage |-> next, by |-> s,
                                 target |-> for, fence |-> 0]]
  /\ UNCHANGED <<taskVars, ended, reviewed, late>>

\* openTaskSession and resumeTask look at the status before bindTask.
Open(k, s) == status = "active" /\ holder # s /\ Begin(k, s, "open", "commit", 0)

\* A bug: a review starts whatever became of the change set.
InvokeUnapplied(k, s, role) ==
  /\ holder = s /\ status = "active"
  /\ role = "coder" => draft = 0
  /\ role = "reviewer" => record > 0
  /\ Begin(k, s, role, "fence", record)

(* resolveAndValidatePreflight.  The source of an applied change set may     *)
(* have drifted, and then REVIEWER does not start.                           *)
Invoke(k, s, role) ==
  /\ holder = s /\ status = "active"
  /\ role = "coder" => draft = 0
  /\ role = "reviewer" => record > 0 /\ change \in {"none", "applied"}
  /\ Begin(k, s, role, "fence", record)

Complete(k, s) == holder = s /\ Begin(k, s, "complete", "fence", 0)

\* A reviewer decides a revision seen in the plan review state.
DecidePlan(k, s) ==
  /\ holder = s /\ status = "active"
  /\ \E r \in 1 .. drafts : Begin(k, s, "plan", "fence", r)

\* The status of the task is not looked at.
DecideChange(k, s) ==
  /\ holder = s /\ change # "none" /\ Begin(k, s, "change", "fence", record)

-----------------------------------------------------------------------------
(* A call goes on: the fence, and what is committed under it. *)

LockFree == archiving = "no"

\* captureTaskOwnership; without it the call throws.
TakeFence(k) ==
  /\ call[k] # NoCall /\ call[k].stage = "fence" /\ LockFree /\ holder = call[k].by
  /\ call' = [call EXCEPT ![k].fence = term, ![k].stage = "commit"]
  /\ UNCHANGED <<taskVars, ended, reviewed, late>>

\* The call throws, or its process dies, before it has committed.
Fail(k) ==
  /\ call[k] # NoCall /\ call' = [call EXCEPT ![k] = NoCall]
  /\ UNCHANGED <<taskVars, ended, reviewed, late>>

Committing(k, what) ==
  /\ call[k] # NoCall /\ call[k].stage = "commit" /\ call[k].kind = what
  /\ call' = [call EXCEPT ![k] = NoCall]

\* bindTask, which fails for a task that is owned.
BindTask(k) ==
  /\ Committing(k, "open") /\ LockFree /\ holder = NoSession /\ term < MaxTerms
  /\ holder' = call[k].by /\ term' = term + 1
  /\ late' = (late \/ status # "active")
  /\ UNCHANGED <<status, place, draft, drafts, record, change, archiving, ended, reviewed>>

\* withTaskOwnershipAuthority.
Authority(k) == LockFree /\ holder = call[k].by /\ call[k].fence = term

\* A bug: only ownership is checked again when a result is committed.
MayCommitOwned(k) == Authority(k)
\* The task is read again and the role's lifecycle contract asserted.
MayCommit(k) == Authority(k) /\ status = "active"

CommitPlan(k) ==
  /\ Committing(k, "planner") /\ MayCommit(k) /\ drafts < MaxDrafts
  /\ draft' = drafts + 1 /\ drafts' = drafts + 1
  /\ UNCHANGED <<status, place, holder, term, record, change, archiving, ended, reviewed, late>>

\* A change set is published when CODER changed something.
CommitWork(k) ==
  /\ Committing(k, "coder") /\ MayCommit(k) /\ record < MaxRecords
  /\ record' = record + 1 /\ change' \in {"none", "pending"}
  /\ UNCHANGED <<status, place, holder, term, draft, drafts, archiving, ended, reviewed, late>>

(* A FAIL, or a crash after the report, leaves the task as it is: that is    *)
(* Fail.  PASS and PASS_WITH_WARNINGS complete it.                           *)
CommitReview(k) ==
  /\ Committing(k, "reviewer") /\ MayCommit(k)
  /\ status' = "completed" /\ ended' = "reviewer" /\ reviewed' = call[k].target
  /\ UNCHANGED <<place, holder, term, draft, drafts, record, change, archiving, late>>

\* A bug: the blockers are not looked at under the lock.
CompletionUnblocked(k) == Authority(k) /\ status = "active"
\* assertNoUnresolvedDecisions and markCompleted's own rule.
MayComplete(k) == Authority(k) /\ status = "active" /\ draft = 0 /\ ~Undecided

CommitCompletion(k) ==
  /\ Committing(k, "complete") /\ MayComplete(k)
  /\ status' = "completed" /\ ended' = "user"
  /\ UNCHANGED <<place, holder, term, draft, drafts, record, change, archiving, reviewed, late>>

(* acceptDraft or rejectDraft, under the plan mutation lock alone: neither   *)
(* the owner nor the status is looked at again.                              *)
CommitPlanDecision(k) ==
  /\ Committing(k, "plan") /\ draft = call[k].target /\ draft' = 0
  /\ UNCHANGED <<status, place, holder, term, drafts, record, change, archiving, ended,
                 reviewed, late>>

\* The decision of ChangeSetDecision; on an older record it changes no blocker.
Decides(from, to) ==
  \/ from = "pending" /\ to \in {"applying_interrupted", "applied", "rejected"}
  \/ from = "applying_interrupted" /\ to \in {"pending", "applied"}

CommitChangeDecision(k) ==
  /\ Committing(k, "change") /\ Authority(k) /\ record = call[k].target
  /\ \E to \in ChangeStates : Decides(change, to) /\ change' = to
  /\ UNCHANGED <<status, place, holder, term, draft, drafts, record, archiving, ended,
                 reviewed, late>>

Commit(k) ==
  \/ BindTask(k) \/ CommitPlan(k) \/ CommitWork(k) \/ CommitReview(k)
  \/ CommitCompletion(k) \/ CommitPlanDecision(k) \/ CommitChangeDecision(k)

-----------------------------------------------------------------------------
(* Release, and archiving, which keeps the task-binding lock all through.    *)

\* closeSession, unbindTask and forceReleaseTaskClaim.
Release ==
  /\ LockFree /\ holder # NoSession /\ holder' = NoSession
  /\ UNCHANGED <<status, place, term, draft, drafts, record, change, archiving, call,
                 ended, reviewed, late>>

Archive(at, then) ==
  /\ archiving = at /\ archiving' = then
  /\ UNCHANGED <<term, draft, drafts, record, change, call, ended, reviewed, late>>

ArchiveTask ==
  /\ status = "completed" /\ Archive("no", "release")
  /\ UNCHANGED <<status, place, holder>>

\* A bug: the claim is left for later.
ArchiveReleasesLate ==
  /\ Archive("release", "status") /\ UNCHANGED <<status, place, holder>>

ArchiveReleases ==
  /\ Archive("release", "status") /\ holder' = NoSession /\ UNCHANGED <<status, place>>

ArchiveMarks ==
  /\ Archive("status", "move") /\ status' = "archived" /\ UNCHANGED <<place, holder>>

ArchiveMoves ==
  /\ Archive("move", "no") /\ place' = "archive" /\ UNCHANGED <<status, holder>>

ArchiveDies ==
  /\ ~LockFree /\ Archive(archiving, "no") /\ UNCHANGED <<status, place, holder>>

Next ==
  \/ \E k \in Calls, s \in Sessions :
       \/ Open(k, s) \/ Complete(k, s) \/ DecidePlan(k, s) \/ DecideChange(k, s)
       \/ \E role \in Roles : Invoke(k, s, role)
  \/ \E k \in Calls : TakeFence(k) \/ Fail(k) \/ Commit(k)
  \/ Release \/ ArchiveTask
  \/ ArchiveReleases \/ ArchiveMarks \/ ArchiveMoves \/ ArchiveDies

Spec == Init /\ [][Next]_vars

-----------------------------------------------------------------------------
(* "completing over them would strand authoritative state that nothing would *)
(* ever resolve" (task-lifecycle-commands.ts:127-133): on a task its user    *)
(* completed nothing waits for a decision, then and ever after, whatever     *)
(* invocations and decisions were in flight.                                 *)
UserCompletionStrandsNothing == ended = "user" => draft = 0 /\ ~Undecided

(* An invocation that outlives the task leaves no draft and no record on it, *)
(* and nothing makes it active again (ADR 0005, the commit-boundary race).   *)
NothingNewAfterTheEnd ==
  [][status # "active" =>
       /\ status' # "active" /\ record' = record
       /\ draft' \in {draft, 0}]_vars

(* REVIEWER passes applied work, or work that changed nothing, unless CODER  *)
(* committed more while the review ran (agent-invocation-service.ts:866-890).*)
PassedAsReviewed ==
  ended = "reviewer" => /\ reviewed \in 1 .. record
                        /\ reviewed = record => change \in {"none", "applied"}

(* Release comes before archive (ADR 0005): a crash between the steps leaves *)
(* no owner of an archived task; the one way to get one is an open that read *)
(* the status while the task was active.                                     *)
ArchivedUnownedUnlessLate == status = "archived" /\ ~late => holder = NoSession

-----------------------------------------------------------------------------
(* The inductive invariant behind them.                                      *)

EndedInv ==
  /\ status = "active" <=> ended = "no"
  /\ draft \in 0 .. drafts
  /\ record = 0 => change = "none"

\* A review in flight passed its preflight on the record it was started for.
ReviewInv ==
  \A k \in Calls : call[k] # NoCall /\ call[k].kind = "reviewer" =>
    /\ call[k].target \in 1 .. record
    /\ call[k].target = record => change \in {"none", "applied"}

ArchiveInv ==
  /\ archiving \in {"release", "status"} => status = "completed"
  /\ archiving = "status" => holder = NoSession
  /\ archiving = "move" => status = "archived"
  /\ place = "archive" => status = "archived"

WorkflowInv ==
  /\ TypeOK /\ EndedInv /\ ReviewInv /\ ArchiveInv
  /\ UserCompletionStrandsNothing /\ PassedAsReviewed /\ ArchivedUnownedUnlessLate
=============================================================================
