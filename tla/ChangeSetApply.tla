--------------------------- MODULE ChangeSetApply ---------------------------
(***************************************************************************)
(* ChangeSetApplyManager and ChangeSetCommands: applying, rejecting and     *)
(* reconciling CODER change sets on the registered source of one project.   *)
(* A decision runs under the source-mutation lock and, inside it, under     *)
(* task-ownership authority; what precedes these locks (the current target, *)
(* the fence) is read without them.  Every file write and every git command *)
(* that writes is a step of its own, at any of which the process may die,   *)
(* and the user works on the same source at any time.                       *)
(*                                                                         *)
(* The four git commands of one observation of the source are one step, and *)
(* so are the two locks of a decision and its reads of receipt and intent,  *)
(* which only change under these locks.                                     *)
(***************************************************************************)
EXTENDS Naturals, Sequences

CONSTANTS
  Sessions, Tasks, ChangeSets,
  TaskOf,      \* TaskOf[x]: the task whose CODER produced change set x
  Result,      \* Result[x]: the tree x turns its base into (resultTree)
  Results,     \* the trees change sets result in
  MayHold,     \* <<s, t>>: session s may be bound to task t
  MaxCommits,  \* bound: commits of the source
  MaxTerms,    \* bound: grants of one task
  MaxMoves,    \* bound: what the user does to the source
  Mixed,       \* a tree that is neither a commit's nor a result
  NoTarget, NoSession, NoCommit, NoWant

Commits == 1 .. MaxCommits
\* The tree of the n-th commit is n, unless a result was committed.
Trees == Results \cup Commits \cup {Mixed}

Want == [change : ChangeSets, task : Tasks, term : Nat]

ASSUME TaskOfAssumption  == TaskOf \in [ChangeSets -> Tasks]
ASSUME ResultAssumption  == Result \in [ChangeSets -> Results]
ASSUME HoldAssumption    == MayHold \subseteq Sessions \X Tasks
ASSUME BoundAssumption   == MaxCommits \in Nat \ {0} /\ MaxTerms \in Nat /\ MaxMoves \in Nat
ASSUME ValueAssumption   ==
  /\ Mixed \notin Results \cup Commits /\ Results \cap Commits = {}
  /\ NoTarget \notin ChangeSets /\ NoSession \notin Sessions
  /\ NoCommit \notin Commits /\ NoWant \notin Want

VARIABLES
  decision,  \* decision[x]: the receipt; "torn" while it is incomplete
  intent,    \* intent[x]: the apply intent of x exists
  latest,    \* latest[t]: the change set of the task's newest work record
  base,      \* base[x]: the commit x applies to, NoCommit before publication
  commits,   \* the trees of the source's commits
  src,       \* the source: HEAD, index, unstaged edits, untracked files
  holder,    \* holder[t]: the session that owns task t
  term,      \* term[t]: the ownership token of the latest grant of t
  pc,        \* pc[s]: what session s does next
  want,      \* want[s]: the decision session s works on
  proven,    \* history: change sets seen exact since their apply began
  wrote,     \* history: whose uncommitted writes the source may still hold
  moves      \* what the user did to the source so far

records == <<decision, intent>>
source  == <<commits, src, proven, wrote>>
work    == <<latest, base>>
lease   == <<holder, term>>
vars == <<records, source, work, lease, pc, want, moves>>

Free   == {"idle", "resolved", "fenced"}
Locked == {"intent", "check", "patch", "verify", "reset", "settle",
           "observe", "accept", "accepted", "refuse", "refused", "drop"}

Source == [head : Commits, index : Trees, edits : SUBSET {"user", "apply"},
           untracked : BOOLEAN]

TypeOK ==
  /\ decision \in [ChangeSets -> {"none", "torn", "applied", "rejected"}]
  /\ intent \in [ChangeSets -> BOOLEAN]
  /\ latest \in [Tasks -> ChangeSets \cup {NoTarget}]
  /\ base \in [ChangeSets -> Commits \cup {NoCommit}]
  /\ commits \in Seq(Results \cup Commits)
  /\ src \in Source
  /\ holder \in [Tasks -> Sessions \cup {NoSession}]
  /\ term \in [Tasks -> Nat]
  /\ pc \in [Sessions -> Free \cup Locked]
  /\ want \in [Sessions -> Want \cup {NoWant}]
  /\ proven \subseteq ChangeSets
  /\ wrote \in ChangeSets \cup {NoTarget}
  /\ moves \in Nat

Init ==
  /\ decision = [x \in ChangeSets |-> "none"]
  /\ intent = [x \in ChangeSets |-> FALSE]
  /\ latest = [t \in Tasks |-> NoTarget]
  /\ base = [x \in ChangeSets |-> NoCommit]
  /\ commits = <<1>>
  /\ src = [head |-> 1, index |-> 1, edits |-> {}, untracked |-> FALSE]
  /\ holder = [t \in Tasks |-> NoSession]
  /\ term = [t \in Tasks |-> 0]
  /\ pc = [s \in Sessions |-> "idle"]
  /\ want = [s \in Sessions |-> NoWant]
  /\ proven = {} /\ wrote = NoTarget /\ moves = 0

-----------------------------------------------------------------------------
(* Observations of the source, and what a change set's state is. *)

Tidy(o) == o.edits = {} /\ ~o.untracked
BaseTree(x) == commits[base[x]]

BaseClean(o, x)    == o.head = base[x] /\ o.index = BaseTree(x) /\ Tidy(o)
ExactApplied(o, x) == o.head = base[x] /\ o.index = Result[x] /\ Tidy(o)

\* status(): the receipt outranks the intent.
Undecided(x)   == decision[x] = "none" /\ ~intent[x]
Interrupted(x) == decision[x] = "none" /\ intent[x]

LockFree == \A s \in Sessions : pc[s] \in Free
Goto(s, stage) ==
  /\ pc' = [pc EXCEPT ![s] = stage]
  /\ want' = IF stage = "idle" THEN [want EXCEPT ![s] = NoWant] ELSE want
\* Session s has the locks and works on change set x.
Holds(s, stage, x) == pc[s] = stage /\ want[s].change = x

\* The source becomes o, with uncommitted writes of change set w, if any are
\* left; what it then holds exactly is remembered.
Becomes(o, w) ==
  /\ src' = o
  /\ proven' = proven \cup {x \in ChangeSets : ExactApplied(o, x)}
  /\ wrote' = IF Tidy(o) /\ o.index = commits'[o.head] THEN NoTarget ELSE w

-----------------------------------------------------------------------------
(* Before the locks. *)

(* resolveCurrentTarget: the session's task, its newest CODER work record.   *)
(* All three commands begin so; which one it is matters under the locks only.*)
Resolve(s, x) ==
  /\ pc[s] = "idle" /\ holder[TaskOf[x]] = s /\ latest[TaskOf[x]] = x
  /\ want' = [want EXCEPT ![s] = [change |-> x, task |-> TaskOf[x], term |-> 0]]
  /\ pc' = [pc EXCEPT ![s] = "resolved"]
  /\ UNCHANGED <<records, source, work, lease, moves>>

(* requireOwnership: a fence for the task the session is bound to now.       *)
TakeFence(s) ==
  /\ pc[s] = "resolved"
  /\ \/ \E t \in Tasks :
          /\ holder[t] = s
          /\ want' = [want EXCEPT ![s].task = t, ![s].term = term[t]]
          /\ pc' = [pc EXCEPT ![s] = "fenced"]
     \/ (\A t \in Tasks : holder[t] # s) /\ Goto(s, "idle")
  /\ UNCHANGED <<records, source, work, lease, moves>>

\* A bug: the token is not compared.
CurrentIgnoringTerm(s) == holder[want[s].task] = s
\* withTaskOwnershipAuthority, when the task lock is held.
Current(s) == holder[want[s].task] = s /\ term[want[s].task] = want[s].term

\* A bug: an interrupted apply may be rejected.
MayRejectInterrupted(x) == decision[x] = "none"

\* What each command checks once it has the locks, and what it does first.
MayApply(x)     == Undecided(x) /\ BaseClean(src, x)
MayReject(x)    == Undecided(x)
MayReconcile(x) == Interrupted(x)

MayStart(x, stage) ==
  \/ stage = "intent" /\ MayApply(x)
  \/ stage = "refuse" /\ MayReject(x)
  \/ stage = "observe" /\ MayReconcile(x)

Enter(s) ==
  /\ pc[s] = "fenced" /\ LockFree
  /\ \/ \E stage \in {"intent", "refuse", "observe"} :
          Current(s) /\ MayStart(want[s].change, stage) /\ Goto(s, stage)
     \/ Goto(s, "idle")
  /\ UNCHANGED <<records, source, work, lease, moves>>

-----------------------------------------------------------------------------
(* apply(), under the locks. *)

WriteIntent(s, x) ==
  /\ Holds(s, "intent", x)
  /\ intent' = [intent EXCEPT ![x] = TRUE]
  /\ proven' = IF ExactApplied(src, x) THEN proven \cup {x} ELSE proven \ {x}
  /\ Goto(s, "check")
  /\ UNCHANGED <<decision, commits, src, wrote, work, lease, moves>>

\* git apply --check writes nothing; it fails on an I/O error or when the user
\* changed the source since the baseline was checked.
Check(s, x) ==
  /\ Holds(s, "check", x)
  /\ \E next \in {"patch", "drop"} : Goto(s, next)
  /\ UNCHANGED <<records, source, work, lease, moves>>

PatchedTree(x) == IF src.index = BaseTree(x) THEN Result[x] ELSE Mixed

\* git apply --index succeeds.  The process may die while it runs.
Patch(s, x) ==
  /\ Holds(s, "patch", x)
  /\ UNCHANGED <<records, commits, work, lease, moves>>
  /\ Becomes([src EXCEPT !.index = PatchedTree(x)], x)
  /\ \E next \in {"verify", "idle"} : Goto(s, next)

\* It fails, having changed or created some files of the worktree, or none.
PatchBreaks(s, x) ==
  /\ Holds(s, "patch", x)
  /\ UNCHANGED <<records, commits, work, lease, moves>>
  /\ \/ Becomes([src EXCEPT !.edits = @ \cup {"apply"}], x)
     \/ Becomes([src EXCEPT !.untracked = TRUE], x)
     \/ UNCHANGED <<src, proven, wrote>>
  /\ \E next \in {"reset", "idle"} : Goto(s, next)

\* A bug: untracked files do not count.
VerifyIgnoringFiles(s, x) ==
  /\ Holds(s, "verify", x)
  /\ Goto(s, IF ExactApplied([src EXCEPT !.untracked = FALSE], x) THEN "accept" ELSE "reset")
  /\ UNCHANGED <<records, source, work, lease, moves>>

(* verifyApplied: HEAD, index, worktree and untracked files must all match.  *)
Verify(s, x) ==
  /\ Holds(s, "verify", x)
  /\ Goto(s, IF ExactApplied(src, x) THEN "accept" ELSE "reset")
  /\ UNCHANGED <<records, source, work, lease, moves>>

(* rollback: git reset --hard, which may fail, and a look at the outcome.    *)
Reset(s, x) ==
  /\ Holds(s, "reset", x)
  /\ UNCHANGED <<records, commits, work, lease, moves>>
  /\ \/ Becomes([head |-> base[x], index |-> BaseTree(x), edits |-> {},
                 untracked |-> src.untracked], wrote)
     \/ UNCHANGED <<src, proven, wrote>>
  /\ Goto(s, "settle")

\* A bug: git reset is taken to have worked.
SettleUnobserved(s, x) ==
  /\ Holds(s, "settle", x) /\ Goto(s, "drop")
  /\ UNCHANGED <<records, source, work, lease, moves>>

Settle(s, x) ==
  /\ Holds(s, "settle", x)
  /\ Goto(s, IF BaseClean(src, x) THEN "drop" ELSE "idle")
  /\ UNCHANGED <<records, source, work, lease, moves>>

(* reconcileInterruptedApply: the observation decides, nothing is changed in *)
(* the source.                                                               *)
Observe(s, x) ==
  /\ Holds(s, "observe", x)
  /\ Goto(s, IF BaseClean(src, x) THEN "drop"
             ELSE IF ExactApplied(src, x) THEN "accept" ELSE "idle")
  /\ UNCHANGED <<records, source, work, lease, moves>>

-----------------------------------------------------------------------------
(* Receipts and intents. *)

\* writeDecision creates the receipt exclusively and then fills it.
CreateReceipt(s, x) ==
  /\ decision[x] = "none"
  /\ \/ Holds(s, "accept", x) /\ Goto(s, "accepted")
     \/ Holds(s, "refuse", x) /\ Goto(s, "refused")
  /\ decision' = [decision EXCEPT ![x] = "torn"]
  /\ UNCHANGED <<intent, source, work, lease, moves>>

FillReceipt(s, x) ==
  /\ \/ /\ Holds(s, "accepted", x) /\ Goto(s, "drop")
        /\ decision' = [decision EXCEPT ![x] = "applied"]
     \/ /\ Holds(s, "refused", x) /\ Goto(s, "idle")
        /\ decision' = [decision EXCEPT ![x] = "rejected"]
  /\ UNCHANGED <<intent, source, work, lease, moves>>

RemoveIntent(s, x) ==
  /\ Holds(s, "drop", x)
  /\ intent' = [intent EXCEPT ![x] = FALSE]
  /\ Goto(s, "idle")
  /\ UNCHANGED <<decision, source, work, lease, moves>>

(* The process dies, or an I/O error ends the decision where it is.          *)
Abandon(s) ==
  /\ pc[s] \in Locked /\ Goto(s, "idle")
  /\ UNCHANGED <<records, source, work, lease, moves>>

-----------------------------------------------------------------------------
(* The rest of Synaphex: CODER results and ownership, under the task lock. *)

Publish(x, b) ==
  /\ LockFree /\ base[x] = NoCommit /\ holder[TaskOf[x]] # NoSession
  /\ b \in 1 .. Len(commits) /\ commits[b] # Result[x]
  /\ base' = [base EXCEPT ![x] = b]
  /\ latest' = [latest EXCEPT ![TaskOf[x]] = x]
  /\ UNCHANGED <<records, source, lease, pc, want, moves>>

\* A CODER run that changed nothing still leaves the newest work record.
PublishNothing(t) ==
  /\ LockFree /\ holder[t] # NoSession /\ latest[t] # NoTarget
  /\ latest' = [latest EXCEPT ![t] = NoTarget]
  /\ UNCHANGED <<records, source, base, lease, pc, want, moves>>

Grant(s, t) ==
  /\ LockFree /\ <<s, t>> \in MayHold /\ term[t] < MaxTerms
  /\ holder[t] = NoSession /\ \A u \in Tasks : holder[u] # s
  /\ holder' = [holder EXCEPT ![t] = s]
  /\ term' = [term EXCEPT ![t] = @ + 1]
  /\ UNCHANGED <<records, source, work, pc, want, moves>>

Revoke(t) ==
  /\ LockFree /\ holder[t] # NoSession
  /\ holder' = [holder EXCEPT ![t] = NoSession]
  /\ UNCHANGED <<records, source, work, term, pc, want, moves>>

-----------------------------------------------------------------------------
(* The user and other programs, on the source, at any time. *)

Rest ==
  /\ moves < MaxMoves /\ moves' = moves + 1
  /\ UNCHANGED <<records, work, lease, pc, want>>

UserEdits ==
  /\ UNCHANGED commits /\ Rest
  /\ Becomes([src EXCEPT !.edits = @ \cup {"user"}], wrote)

\* The user adds untracked files, or removes them all.
UserMovesFiles ==
  /\ UNCHANGED commits /\ Rest
  /\ Becomes([src EXCEPT !.untracked = ~@], wrote)

UserStages ==
  /\ src.edits # {} /\ UNCHANGED commits /\ Rest
  /\ Becomes([src EXCEPT !.edits = {}, !.index = Mixed], wrote)

UserCommits ==
  /\ Len(commits) < MaxCommits /\ src.index # commits[src.head] /\ Rest
  /\ LET n == Len(commits) + 1
         tree == IF src.index = Mixed THEN n ELSE src.index
     IN  /\ commits' = Append(commits, tree)
         /\ Becomes([src EXCEPT !.head = n, !.index = tree], wrote)

UserChecksOut(n) ==
  /\ n \in 1 .. Len(commits) /\ UNCHANGED commits /\ Rest
  /\ Becomes([src EXCEPT !.head = n, !.index = commits[n], !.edits = {}], wrote)

\* The user makes the source exactly what x makes of its base.
UserFinishes(x) ==
  /\ base[x] = src.head /\ UNCHANGED commits /\ Rest
  /\ Becomes([src EXCEPT !.index = Result[x], !.edits = {}], wrote)

User ==
  \/ UserEdits \/ UserMovesFiles \/ UserStages \/ UserCommits
  \/ \E n \in Commits : UserChecksOut(n)
  \/ \E x \in ChangeSets : UserFinishes(x)

Proceed(s) ==
  \/ TakeFence(s) \/ Enter(s)
  \/ \E x \in ChangeSets :
       \/ WriteIntent(s, x) \/ Check(s, x) \/ Patch(s, x) \/ PatchBreaks(s, x)
       \/ Verify(s, x) \/ Reset(s, x) \/ Settle(s, x) \/ Observe(s, x)
       \/ CreateReceipt(s, x) \/ FillReceipt(s, x) \/ RemoveIntent(s, x)

Next ==
  \/ \E s \in Sessions, x \in ChangeSets : Resolve(s, x)
  \/ \E s \in Sessions : Proceed(s) \/ Abandon(s)
  \/ \E x \in ChangeSets, b \in Commits : Publish(x, b)
  \/ \E t \in Tasks : PublishNothing(t) \/ Revoke(t)
  \/ \E s \in Sessions, t \in Tasks : Grant(s, t)
  \/ User

Spec == Init /\ [][Next]_vars

-----------------------------------------------------------------------------
(* What the locks, the stages of a decision and the writes to the source     *)
(* keep true of receipts, intents and the source in every reachable state;   *)
(* inductive.                                                                *)
AtMostOneDecides ==
  \A s, r \in Sessions : pc[s] \in Locked /\ pc[r] \in Locked => s = r

WorksOn(s) ==
  /\ want[s] \in Want
  /\ base[want[s].change] # NoCommit

StageInv(s) ==
  LET x == want[s].change
  IN
  /\ pc[s] # "idle" => WorksOn(s)
  /\ pc[s] \in {"intent", "refuse"} => Undecided(x)
  /\ pc[s] = "refused" => decision[x] = "torn" /\ ~intent[x]
  /\ pc[s] \in {"check", "patch", "verify", "reset", "settle", "observe", "accept"}
       => Interrupted(x)
  /\ pc[s] = "accepted" => decision[x] = "torn" /\ intent[x]
  /\ pc[s] = "drop" => decision[x] \in {"none", "applied"} /\ intent[x]
  /\ pc[s] \in {"accept", "accepted"} => x \in proven
  \* Before it patches, and when it gives up, nothing of x is in the source.
  /\ pc[s] \in {"intent", "check", "patch"} => wrote # x
  /\ pc[s] = "drop" /\ decision[x] = "none" => wrote # x

PublicationInv ==
  /\ \A t \in Tasks : latest[t] # NoTarget => base[latest[t]] # NoCommit
  /\ \A x \in ChangeSets :
       /\ base[x] # NoCommit => base[x] \in 1 .. Len(commits)
       /\ intent[x] \/ decision[x] # "none" \/ wrote = x => base[x] # NoCommit

SourceInv ==
  /\ src.head \in 1 .. Len(commits)
  /\ wrote # NoTarget => ~(Tidy(src) /\ src.index = commits[src.head])
  /\ \A x \in ChangeSets : intent[x] /\ ExactApplied(src, x) => x \in proven

ApplyInv ==
  /\ TypeOK /\ AtMostOneDecides
  /\ \A s \in Sessions : StageInv(s)
  /\ PublicationInv /\ SourceInv

-----------------------------------------------------------------------------
(* The change set's state machine, as ADR 0003 has it, is what receipts,     *)
(* intents and the source make of it: decided once and for good, applied     *)
(* only after the source held exactly the result, whatever crashes.          *)
State(x) == IF decision[x] \in {"applied", "rejected"} THEN decision[x]
            ELSE IF intent[x] THEN "applying_interrupted" ELSE "pending"

Machine == INSTANCE ChangeSetDecision WITH state <- [x \in ChangeSets |-> State(x)]
ImplementsDecision == Machine!DecisionSpec

(* Whatever of a change set is in the source is accounted for: an apply that *)
(* died half way cannot be mistaken for the user's own work                  *)
(* (change-set-apply-manager.ts:60-66).                                      *)
WritesAccountedFor ==
  wrote # NoTarget => intent[wrote] \/ decision[wrote] = "applied"

(* Whoever is past the locks still owns the task of the change set, under    *)
(* the token of its fence: a force release never lands between the ownership *)
(* check and the writes.                                                     *)
DecidesAsOwner ==
  \A s \in Sessions : pc[s] \in Locked =>
    /\ holder[TaskOf[want[s].change]] = s
    /\ term[TaskOf[want[s].change]] = want[s].term

(* ADR 0003: every input, the work record included, is re-read under the     *)
(* locks, "so no decision rests on a stale observation": what is decided is  *)
(* the task's current target.                                                *)
DecidesCurrentTarget ==
  \A s \in Sessions : pc[s] \in Locked => latest[TaskOf[want[s].change]] = want[s].change

(* ADR 0003, "Rollback never destroys unowned work": git reset --hard meets  *)
(* no edit of the user's and moves HEAD away from no commit of theirs.       *)
UnownedWorkSurvives ==
  [][\A s \in Sessions, x \in ChangeSets :
       Reset(s, x) /\ src' # src => "user" \notin src.edits /\ src.head = base[x]]_vars
=============================================================================
