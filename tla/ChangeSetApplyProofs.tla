------------------------ MODULE ChangeSetApplyProofs ------------------------
(***************************************************************************)
(* What deciding change sets guarantees for any number of sessions, tasks,  *)
(* change sets and commits, whatever crashes and whatever the user does to  *)
(* the source: the state machine of ADR 0003, that no apply's writes are    *)
(* ever unaccounted for, and that whoever decides owns the task.            *)
(***************************************************************************)
EXTENDS ChangeSetApply, TLAPS

(* The types of the two variables a step along the stages changes. *)
LEMMA GotoTyping ==
  ASSUME TypeOK, NEW s \in Sessions, NEW stage \in Free \cup Locked, Goto(s, stage)
  PROVE  /\ pc' \in [Sessions -> Free \cup Locked]
         /\ want' \in [Sessions -> Want \cup {NoWant}]
BY DEF TypeOK, Goto

(* The types of the three variables a change of the source changes. *)
LEMMA BecomesTyping ==
  ASSUME TypeOK, NEW o \in Source, NEW w \in ChangeSets \cup {NoTarget}, Becomes(o, w)
  PROVE  src' \in Source /\ proven' \subseteq ChangeSets /\ wrote' \in ChangeSets \cup {NoTarget}
BY DEF TypeOK, Becomes

(* A tree of a commit, and what a change set makes of one. *)
LEMMA TreeTyping ==
  ASSUME TypeOK
  PROVE  /\ \A n \in 1 .. Len(commits) : commits[n] \in Trees
         /\ \A x \in ChangeSets : Result[x] \in Trees /\ PatchedTree(x) \in Trees
         /\ Mixed \in Trees /\ Commits \subseteq Trees
BY ResultAssumption DEF TypeOK, Trees, PatchedTree

LEMMA ApplyTypingInit == Init => TypeOK
<1> SUFFICES ASSUME Init PROVE TypeOK
  OBVIOUS
<1>1. 1 \in Commits /\ 1 \in Trees
  BY BoundAssumption DEF Commits, Trees
<1>2. commits \in Seq(Results \cup Commits)
  BY <1>1 DEF Init
<1>3. src \in Source
  BY <1>1 DEF Init, Source
<1>4. QED
  BY <1>2, <1>3 DEF Init, TypeOK, Free

(* Every step keeps the types. *)
LEMMA ApplyTypingStep == ApplyInv /\ [Next]_vars => TypeOK'
<1> SUFFICES ASSUME ApplyInv, [Next]_vars PROVE TypeOK'
  OBVIOUS
<1>t. TypeOK
  BY DEF ApplyInv
<1>f. \A stage \in {"idle", "resolved", "fenced", "intent", "check", "patch", "verify",
                    "reset", "settle", "observe", "accept", "accepted", "refuse",
                    "refused", "drop"} : stage \in Free \cup Locked
  BY DEF Free, Locked
<1> USE DEF records, source, work, lease
<1>1. ASSUME NEW s \in Sessions, NEW x \in ChangeSets, Resolve(s, x) PROVE TypeOK'
  <2>1. [change |-> x, task |-> TaskOf[x], term |-> 0] \in Want
    BY TaskOfAssumption DEF Want
  <2>2. QED
    BY <1>t, <1>1, <2>1 DEF Resolve, TypeOK, Free
<1>2. ASSUME NEW s \in Sessions, TakeFence(s) PROVE TypeOK'
  <2>1. CASE \E t \in Tasks : /\ want' = [want EXCEPT ![s].task = t, ![s].term = term[t]]
                              /\ pc' = [pc EXCEPT ![s] = "fenced"]
    <3>1. PICK t \in Tasks : /\ want' = [want EXCEPT ![s].task = t, ![s].term = term[t]]
                             /\ pc' = [pc EXCEPT ![s] = "fenced"]
      BY <2>1
    <3>2. want[s] \in Want
      BY <1>2, <1>t DEF TakeFence, ApplyInv, StageInv, WorksOn
    <3>3. want' \in [Sessions -> Want \cup {NoWant}]
      BY <3>1, <3>2, <1>t DEF TypeOK, Want
    <3>4. QED
      BY <1>t, <1>2, <3>1, <3>3 DEF TakeFence, TypeOK, Free
  <2>2. CASE Goto(s, "idle")
    BY <1>t, <1>f, <1>2, <2>2, GotoTyping DEF TakeFence, TypeOK
  <2>3. QED
    BY <1>2, <2>1, <2>2 DEF TakeFence
<1>3. ASSUME NEW s \in Sessions, Enter(s) PROVE TypeOK'
  BY <1>t, <1>f, <1>3, GotoTyping DEF Enter, TypeOK
<1>4. ASSUME NEW s \in Sessions, NEW x \in ChangeSets, WriteIntent(s, x) PROVE TypeOK'
  BY <1>t, <1>f, <1>4, GotoTyping DEF WriteIntent, TypeOK
<1>5. ASSUME NEW s \in Sessions, NEW x \in ChangeSets, Check(s, x) PROVE TypeOK'
  BY <1>t, <1>f, <1>5, GotoTyping DEF Check, TypeOK
<1>6. ASSUME NEW s \in Sessions, NEW x \in ChangeSets, Patch(s, x) PROVE TypeOK'
  <2>1. [src EXCEPT !.index = PatchedTree(x)] \in Source
    BY <1>t, TreeTyping DEF TypeOK, Source
  <2>2. QED
    BY <1>t, <1>f, <1>6, <2>1, GotoTyping, BecomesTyping DEF Patch, TypeOK
<1>7. ASSUME NEW s \in Sessions, NEW x \in ChangeSets, PatchBreaks(s, x) PROVE TypeOK'
  <2>1. /\ [src EXCEPT !.edits = @ \cup {"apply"}] \in Source
        /\ [src EXCEPT !.untracked = TRUE] \in Source
    BY <1>t DEF TypeOK, Source
  <2>2. src' \in Source /\ proven' \subseteq ChangeSets /\ wrote' \in ChangeSets \cup {NoTarget}
    BY <1>t, <1>7, <2>1, BecomesTyping DEF PatchBreaks, TypeOK
  <2>3. QED
    BY <1>t, <1>f, <1>7, <2>2, GotoTyping DEF PatchBreaks, TypeOK
<1>8. ASSUME NEW s \in Sessions, NEW x \in ChangeSets, Verify(s, x) PROVE TypeOK'
  BY <1>t, <1>f, <1>8, GotoTyping DEF Verify, TypeOK
<1>9. ASSUME NEW s \in Sessions, NEW x \in ChangeSets, Reset(s, x) PROVE TypeOK'
  <2>1. base[x] \in Commits /\ BaseTree(x) \in Trees
    <3>1. base[x] # NoCommit
      BY <1>9 DEF Reset, Holds, ApplyInv, StageInv, WorksOn
    <3>2. base[x] \in 1 .. Len(commits)
      BY <3>1 DEF ApplyInv, PublicationInv
    <3>3. QED
      BY <3>1, <3>2, <1>t, TreeTyping DEF TypeOK, BaseTree
  <2>2. [head |-> base[x], index |-> BaseTree(x), edits |-> {},
         untracked |-> src.untracked] \in Source
    BY <2>1, <1>t DEF TypeOK, Source
  <2>3. src' \in Source /\ proven' \subseteq ChangeSets /\ wrote' \in ChangeSets \cup {NoTarget}
    BY <1>t, <1>9, <2>2, BecomesTyping DEF Reset, TypeOK
  <2>4. QED
    BY <1>t, <1>f, <1>9, <2>3, GotoTyping DEF Reset, TypeOK
<1>10. ASSUME NEW s \in Sessions, NEW x \in ChangeSets, Settle(s, x) PROVE TypeOK'
  BY <1>t, <1>f, <1>10, GotoTyping DEF Settle, TypeOK
<1>11. ASSUME NEW s \in Sessions, NEW x \in ChangeSets, Observe(s, x) PROVE TypeOK'
  BY <1>t, <1>f, <1>11, GotoTyping DEF Observe, TypeOK
<1>12. ASSUME NEW s \in Sessions, NEW x \in ChangeSets, CreateReceipt(s, x) PROVE TypeOK'
  BY <1>t, <1>f, <1>12, GotoTyping DEF CreateReceipt, TypeOK
<1>13. ASSUME NEW s \in Sessions, NEW x \in ChangeSets, FillReceipt(s, x) PROVE TypeOK'
  BY <1>t, <1>f, <1>13, GotoTyping DEF FillReceipt, TypeOK
<1>14. ASSUME NEW s \in Sessions, NEW x \in ChangeSets, RemoveIntent(s, x) PROVE TypeOK'
  BY <1>t, <1>f, <1>14, GotoTyping DEF RemoveIntent, TypeOK
<1>15. ASSUME NEW s \in Sessions, Abandon(s) PROVE TypeOK'
  BY <1>t, <1>f, <1>15, GotoTyping DEF Abandon, TypeOK
<1>16. ASSUME NEW x \in ChangeSets, NEW b \in Commits, Publish(x, b) PROVE TypeOK'
  BY <1>t, <1>16, TaskOfAssumption DEF Publish, TypeOK
<1>17. ASSUME NEW t \in Tasks, PublishNothing(t) PROVE TypeOK'
  BY <1>t, <1>17 DEF PublishNothing, TypeOK
<1>18. ASSUME NEW t \in Tasks, Revoke(t) PROVE TypeOK'
  BY <1>t, <1>18 DEF Revoke, TypeOK
<1>19. ASSUME NEW s \in Sessions, NEW t \in Tasks, Grant(s, t) PROVE TypeOK'
  BY <1>t, <1>19 DEF Grant, TypeOK
<1>20. ASSUME User PROVE TypeOK'
  <2> USE DEF Rest
  <2>1. ASSUME UserEdits PROVE TypeOK'
    <3>1. [src EXCEPT !.edits = @ \cup {"user"}] \in Source
      BY <1>t DEF TypeOK, Source
    <3>2. QED
      BY <1>t, <2>1, <3>1, BecomesTyping DEF UserEdits, TypeOK
  <2>2. ASSUME UserMovesFiles PROVE TypeOK'
    <3>1. [src EXCEPT !.untracked = ~@] \in Source
      BY <1>t DEF TypeOK, Source
    <3>2. QED
      BY <1>t, <2>2, <3>1, BecomesTyping DEF UserMovesFiles, TypeOK
  <2>3. ASSUME UserStages PROVE TypeOK'
    <3>1. [src EXCEPT !.edits = {}, !.index = Mixed] \in Source
      BY <1>t, TreeTyping DEF TypeOK, Source
    <3>2. QED
      BY <1>t, <2>3, <3>1, BecomesTyping DEF UserStages, TypeOK
  <2>4. ASSUME UserCommits PROVE TypeOK'
    <3> DEFINE n == Len(commits) + 1
               tree == IF src.index = Mixed THEN n ELSE src.index
    <3>1. n \in Commits /\ tree \in Results \cup Commits
      <4>1. Len(commits) \in Nat /\ Len(commits) < MaxCommits
        BY <1>t, <2>4 DEF TypeOK, UserCommits
      <4>2. n \in Commits
        BY <4>1, BoundAssumption DEF Commits
      <4>3. src.index \in Trees
        BY <1>t DEF TypeOK, Source
      <4>4. QED
        BY <4>2, <4>3 DEF Trees
    <3>2. [src EXCEPT !.head = n, !.index = tree] \in Source
      BY <1>t, <3>1 DEF TypeOK, Source, Trees
    <3>3. commits' = Append(commits, tree) /\ Becomes([src EXCEPT !.head = n, !.index = tree], wrote)
      BY <2>4 DEF UserCommits
    <3>4. commits' \in Seq(Results \cup Commits)
      BY <1>t, <3>1, <3>3 DEF TypeOK
    <3> HIDE DEF n, tree
    <3>5. QED
      BY <1>t, <2>4, <3>2, <3>3, <3>4, BecomesTyping DEF UserCommits, TypeOK
  <2>5. ASSUME NEW n \in Commits, UserChecksOut(n) PROVE TypeOK'
    <3>1. [src EXCEPT !.head = n, !.index = commits[n], !.edits = {}] \in Source
      BY <1>t, <2>5, TreeTyping DEF TypeOK, Source, UserChecksOut
    <3>2. QED
      BY <1>t, <2>5, <3>1, BecomesTyping DEF UserChecksOut, TypeOK
  <2>6. ASSUME NEW x \in ChangeSets, UserFinishes(x) PROVE TypeOK'
    <3>1. [src EXCEPT !.index = Result[x], !.edits = {}] \in Source
      BY <1>t, TreeTyping DEF TypeOK, Source
    <3>2. QED
      BY <1>t, <2>6, <3>1, BecomesTyping DEF UserFinishes, TypeOK
  <2>7. QED
    BY <1>20, <2>1, <2>2, <2>3, <2>4, <2>5, <2>6 DEF User
<1>21. ASSUME UNCHANGED vars PROVE TypeOK'
  BY <1>t, <1>21 DEF vars, TypeOK
<1>22. QED
  BY <1>1, <1>2, <1>3, <1>4, <1>5, <1>6, <1>7, <1>8, <1>9, <1>10, <1>11, <1>12, <1>13,
     <1>14, <1>15, <1>16, <1>17, <1>18, <1>19, <1>20, <1>21 DEF Next, Proceed

-----------------------------------------------------------------------------
(* A session that does not move keeps its stage's facts, unless it decides    *)
(* while another one's records or writes change.                              *)
LEMMA StageKept ==
  ASSUME NEW r \in Sessions, StageInv(r), pc'[r] = pc[r], want'[r] = want[r],
         base' = base,
         \/ pc[r] \in Free
         \/ /\ UNCHANGED records
            /\ proven \subseteq proven' /\ wrote' \in {wrote, NoTarget}
            /\ want[r].change \in ChangeSets
  PROVE  StageInv(r)'
<1>1. CASE pc[r] \in Free
  BY <1>1 DEF StageInv, WorksOn, Free
<1>2. CASE pc[r] \notin Free
  BY <1>2, ValueAssumption DEF StageInv, WorksOn, Free, records, Undecided, Interrupted
<1>3. QED
  BY <1>1, <1>2

(* A step along the stages leaves at most one session deciding. *)
LEMMA OneMoves ==
  ASSUME TypeOK, AtMostOneDecides, NEW s \in Sessions, NEW stage,
         pc' = [pc EXCEPT ![s] = stage],
         pc[s] \in Locked \/ stage \in Free \/ LockFree
  PROVE  AtMostOneDecides'
BY DEF TypeOK, AtMostOneDecides, LockFree, Free, Locked

(* The session that decides is the only one, and works on its change set.   *)
LEMMA Deciding ==
  ASSUME ApplyInv, NEW s \in Sessions, NEW x \in ChangeSets, NEW stage \in Locked,
         Holds(s, stage, x)
  PROVE  /\ pc[s] = stage /\ pc[s] \in Locked /\ want[s].change = x /\ base[x] # NoCommit
         /\ \A r \in Sessions \ {s} : pc[r] \in Free
<1>1. pc[s] = stage /\ want[s].change = x
  BY DEF Holds
<1>2. base[x] # NoCommit
  BY <1>1 DEF ApplyInv, StageInv, WorksOn, Locked
<1>3. \A r \in Sessions \ {s} : pc[r] \in Free
  BY <1>1 DEF ApplyInv, AtMostOneDecides, TypeOK
<1>4. QED
  BY <1>1, <1>2, <1>3

(* When the session that decides moves, the others' stages stand. *)
LEMMA OthersKept ==
  ASSUME ApplyInv, NEW s \in Sessions, NEW x \in ChangeSets, NEW old \in Locked,
         Holds(s, old, x), NEW stage \in Free \cup Locked, Goto(s, stage), base' = base
  PROVE  /\ AtMostOneDecides'
         /\ \A r \in Sessions \ {s} : StageInv(r)'
         /\ pc'[s] = stage
         /\ want'[s] = IF stage = "idle" THEN NoWant ELSE want[s]
<1>1. /\ pc' = [pc EXCEPT ![s] = stage] /\ pc'[s] = stage
      /\ want'[s] = IF stage = "idle" THEN NoWant ELSE want[s]
      /\ \A r \in Sessions \ {s} : pc'[r] = pc[r] /\ want'[r] = want[r]
  BY DEF Goto, ApplyInv, TypeOK
<1>2. \A r \in Sessions \ {s} : StageInv(r)'
  <2> TAKE r \in Sessions \ {s}
  <2>1. pc[r] \in Free /\ StageInv(r)
    BY Deciding DEF ApplyInv
  <2>2. QED
    BY <1>1, <2>1, StageKept
<1>3. AtMostOneDecides'
  BY <1>1, Deciding, OneMoves DEF ApplyInv
<1>4. QED
  BY <1>1, <1>2, <1>3

(* A change of the source leaves its history right. *)
LEMMA BecomesRight ==
  ASSUME NEW o, NEW w, Becomes(o, w), base' = base
  PROVE  /\ proven \subseteq proven' /\ wrote' \in {w, NoTarget}
         /\ wrote' # NoTarget => ~(Tidy(src') /\ src'.index = commits'[src'.head])
         /\ \A x \in ChangeSets : ExactApplied(src, x)' => x \in proven'
BY DEF Becomes, ExactApplied, Tidy

-----------------------------------------------------------------------------
LEMMA ApplyInvInit == Init => ApplyInv
<1> SUFFICES ASSUME Init PROVE ApplyInv
  OBVIOUS
<1>1. TypeOK
  BY ApplyTypingInit
<1>2. AtMostOneDecides /\ \A s \in Sessions : StageInv(s)
  BY DEF Init, AtMostOneDecides, StageInv, Locked
<1>3. PublicationInv
  BY ValueAssumption DEF Init, PublicationInv
<1>4. SourceInv
  BY DEF Init, SourceInv
<1>5. QED
  BY <1>1, <1>2, <1>3, <1>4 DEF ApplyInv

(* The reads before the locks, and taking them. *)
LEMMA UnlockedSteps ==
  ASSUME ApplyInv, NEW s \in Sessions,
         TakeFence(s) \/ Enter(s) \/ \E x \in ChangeSets : Resolve(s, x)
  PROVE  /\ AtMostOneDecides' /\ \A r \in Sessions : StageInv(r)'
         /\ PublicationInv' /\ SourceInv'
<1> DEFINE Inv == /\ AtMostOneDecides /\ \A r \in Sessions : StageInv(r)
                  /\ PublicationInv /\ SourceInv
<1> USE DEF ApplyInv
<1>n. NoWant \notin Want
  BY ValueAssumption
<1>q. ASSUME UNCHANGED <<records, source, work>> PROVE PublicationInv' /\ SourceInv'
  BY <1>q DEF PublicationInv, SourceInv, records, source, work, BaseTree, ExactApplied, Tidy
<1>1. ASSUME NEW x \in ChangeSets, Resolve(s, x) PROVE Inv'
  <2>1. AtMostOneDecides'
    BY <1>1, OneMoves DEF Resolve, Free
  <2>2. \A r \in Sessions \ {s} : StageInv(r)'
    <3> TAKE r \in Sessions \ {s}
    <3>1. pc'[r] = pc[r] /\ want'[r] = want[r] /\ base' = base
      BY <1>1 DEF Resolve, TypeOK, work
    <3>2. pc[r] \in Free \/ want[r].change \in ChangeSets
      BY DEF StageInv, WorksOn, Want, TypeOK, Locked, Free
    <3>3. QED
      BY <1>1, <3>1, <3>2, StageKept DEF Resolve, source
  <2>3. StageInv(s)'
    <3>1. base[x] # NoCommit
      BY <1>1, TaskOfAssumption, ValueAssumption DEF Resolve, PublicationInv
    <3>2. [change |-> x, task |-> TaskOf[x], term |-> 0] \in Want
      BY TaskOfAssumption DEF Want
    <3>3. /\ pc'[s] = "resolved" /\ base' = base
          /\ want'[s] = [change |-> x, task |-> TaskOf[x], term |-> 0]
      BY <1>1 DEF Resolve, TypeOK, work
    <3>4. QED
      BY <3>1, <3>2, <3>3 DEF StageInv, WorksOn
  <2>4. PublicationInv' /\ SourceInv'
    BY <1>1, <1>q DEF Resolve
  <2>5. QED
    BY <2>1, <2>2, <2>3, <2>4
<1>2. ASSUME TakeFence(s) PROVE Inv'
  <2>1. AtMostOneDecides'
    BY <1>2, OneMoves DEF TakeFence, Goto, Free
  <2>2. \A r \in Sessions \ {s} : StageInv(r)'
    <3> TAKE r \in Sessions \ {s}
    <3>1. pc'[r] = pc[r] /\ want'[r] = want[r] /\ base' = base
      BY <1>2 DEF TakeFence, Goto, TypeOK, work
    <3>2. pc[r] \in Free \/ want[r].change \in ChangeSets
      BY DEF StageInv, WorksOn, Want, TypeOK, Locked, Free
    <3>3. QED
      BY <1>2, <3>1, <3>2, StageKept DEF TakeFence, source
  <2>3. StageInv(s)'
    <3>1. want[s] \in Want /\ base[want[s].change] # NoCommit /\ base' = base
      BY <1>2 DEF TakeFence, StageInv, WorksOn, work
    <3>2. CASE Goto(s, "idle")
      BY <3>2 DEF Goto, TypeOK, StageInv
    <3>3. ASSUME NEW t \in Tasks, pc' = [pc EXCEPT ![s] = "fenced"],
                 want' = [want EXCEPT ![s].task = t, ![s].term = term[t]]
          PROVE  StageInv(s)'
      <4>1. want'[s] \in Want /\ want'[s].change = want[s].change
        BY <3>1, <3>3 DEF Want, TypeOK
      <4>2. QED
        BY <3>1, <3>3, <4>1 DEF StageInv, WorksOn, TypeOK
    <3>4. QED
      BY <1>2, <3>2, <3>3 DEF TakeFence
  <2>4. PublicationInv' /\ SourceInv'
    BY <1>2, <1>q DEF TakeFence
  <2>5. QED
    BY <2>1, <2>2, <2>3, <2>4
<1>3. ASSUME Enter(s) PROVE Inv'
  <2>1. PICK stage \in {"intent", "refuse", "observe", "idle"} :
          Goto(s, stage) /\ (stage # "idle" => MayStart(want[s].change, stage))
    BY <1>3 DEF Enter
  <2>2. AtMostOneDecides'
    BY <1>3, <2>1, OneMoves DEF Enter, Goto
  <2>3. \A r \in Sessions \ {s} : StageInv(r)'
    <3> TAKE r \in Sessions \ {s}
    <3>1. pc'[r] = pc[r] /\ want'[r] = want[r] /\ base' = base /\ pc[r] \in Free
      BY <1>3, <2>1 DEF Enter, Goto, TypeOK, work, LockFree
    <3>2. QED
      BY <3>1, StageKept
  <2>4. StageInv(s)'
    <3>1. /\ want[s] \in Want /\ base[want[s].change] # NoCommit
          /\ UNCHANGED <<records, source, work>>
      BY <1>3 DEF Enter, StageInv, WorksOn
    <3>2. /\ pc'[s] = stage
          /\ want'[s] = IF stage = "idle" THEN NoWant ELSE want[s]
      BY <2>1 DEF Goto, TypeOK
    <3>3. stage = "intent" => wrote # want[s].change
      <4> SUFFICES ASSUME stage = "intent" PROVE wrote # want[s].change
        OBVIOUS
      <4>1. BaseClean(src, want[s].change)
        BY <2>1 DEF MayStart, MayApply
      <4>2. Tidy(src) /\ src.index = commits[src.head]
        BY <4>1 DEF BaseClean, BaseTree
      <4>3. wrote = NoTarget
        BY <4>2 DEF SourceInv
      <4>4. QED
        BY <3>1, <4>3, ValueAssumption DEF Want
    <3>4. QED
      BY <2>1, <3>1, <3>2, <3>3 DEF StageInv, WorksOn, MayStart, MayApply, MayReject,
         MayReconcile, Undecided, Interrupted, records, source, work
  <2>5. PublicationInv' /\ SourceInv'
    BY <1>3, <1>q DEF Enter
  <2>6. QED
    BY <2>2, <2>3, <2>4, <2>5
<1>4. QED
  BY <1>1, <1>2, <1>3

(* The steps of a decision.  Each step names the session's next stage and     *)
(* what the step makes of the records and of the source.                      *)
LEMMA DecidingSteps ==
  ASSUME ApplyInv, NEW s \in Sessions, NEW x \in ChangeSets,
         NEW old \in Locked, Holds(s, old, x),
         NEW stage \in Free \cup Locked, Goto(s, stage),
         UNCHANGED <<work, commits>>,
         stage = "idle" \/ StageInv(s)',
         \A y \in ChangeSets \ {x} : intent'[y] = intent[y] /\ decision'[y] = decision[y],
         SourceInv', wrote' \in {wrote, x, NoTarget}
  PROVE  /\ AtMostOneDecides' /\ \A r \in Sessions : StageInv(r)'
         /\ PublicationInv' /\ SourceInv'
<1>1. base' = base /\ latest' = latest /\ commits' = commits
  BY DEF work
<1>2. /\ AtMostOneDecides' /\ \A r \in Sessions \ {s} : StageInv(r)'
      /\ pc'[s] = stage /\ want'[s] = IF stage = "idle" THEN NoWant ELSE want[s]
  BY <1>1, OthersKept
<1>3. StageInv(s)'
  BY <1>2 DEF StageInv
<1>4. PublicationInv'
  <2>1. base[x] # NoCommit /\ PublicationInv
    BY Deciding DEF ApplyInv
  <2>2. \A t \in Tasks : latest'[t] # NoTarget => base'[latest'[t]] # NoCommit
    BY <1>1, <2>1 DEF PublicationInv
  <2>3. \A y \in ChangeSets : base'[y] # NoCommit => base'[y] \in 1 .. Len(commits')
    BY <1>1, <2>1 DEF PublicationInv
  <2>4. \A y \in ChangeSets :
          intent'[y] \/ decision'[y] # "none" \/ wrote' = y => base'[y] # NoCommit
    BY <1>1, <2>1, ValueAssumption DEF PublicationInv
  <2>5. QED
    BY <2>2, <2>3, <2>4 DEF PublicationInv
<1>5. QED
  BY <1>2, <1>3, <1>4

(* The steps of a decision that write nothing. *)
LEMMA ReadingSteps ==
  ASSUME ApplyInv, NEW s \in Sessions, NEW x \in ChangeSets,
         Check(s, x) \/ Verify(s, x) \/ Settle(s, x) \/ Observe(s, x)
  PROVE  /\ AtMostOneDecides' /\ \A r \in Sessions : StageInv(r)'
         /\ PublicationInv' /\ SourceInv'
<1>1. /\ UNCHANGED <<records, source, work>>
      /\ UNCHANGED <<decision, intent, commits, src, proven, wrote, latest, base>>
  BY DEF Check, Verify, Settle, Observe, records, source, work
<1>2. SourceInv'
  BY <1>1 DEF ApplyInv, SourceInv, ExactApplied, Tidy
<1>3. ASSUME NEW old \in {"check", "verify", "settle", "observe"}, Holds(s, old, x),
             NEW stage \in {"patch", "drop", "accept", "reset", "idle"}, Goto(s, stage),
             stage \in {"patch", "drop", "accept", "reset"} => Interrupted(x),
             stage = "accept" => x \in proven,
             stage \in {"patch", "drop"} => wrote # x
      PROVE  /\ AtMostOneDecides' /\ \A r \in Sessions : StageInv(r)'
             /\ PublicationInv' /\ SourceInv'
  <2>1. old \in Locked /\ stage \in Free \cup Locked
    BY DEF Locked, Free
  <2>2. /\ pc'[s] = stage /\ want'[s] = IF stage = "idle" THEN NoWant ELSE want[s]
        /\ want[s].change = x /\ base[x] # NoCommit /\ pc[s] = old
    BY <1>1, <1>3, <2>1, OthersKept, Deciding
  <2>3. want[s] \in Want
    BY <2>2 DEF ApplyInv, StageInv, WorksOn
  <2>4. stage = "idle" \/ StageInv(s)'
    BY <1>1, <1>3, <2>2, <2>3 DEF StageInv, WorksOn, Interrupted, Undecided
  <2>5. QED
    BY <1>1, <1>2, <1>3, <2>1, <2>4, ValueAssumption, DecidingSteps
<1>4. ASSUME Tidy(src), src.index = commits[src.head] PROVE wrote # x
  BY <1>4, ValueAssumption DEF ApplyInv, SourceInv
<1>5. ASSUME BaseClean(src, x) PROVE wrote # x
  BY <1>4, <1>5 DEF BaseClean, BaseTree
<1>6. ASSUME Interrupted(x), ExactApplied(src, x) PROVE x \in proven
  BY <1>6 DEF ApplyInv, SourceInv, Interrupted
<1>7. CASE Check(s, x)
  <2>1. Interrupted(x) /\ wrote # x
    BY <1>7 DEF Check, Holds, ApplyInv, StageInv
  <2>2. QED
    BY <1>3, <1>7, <2>1 DEF Check
<1>8. CASE Verify(s, x)
  <2>1. Interrupted(x)
    BY <1>8 DEF Verify, Holds, ApplyInv, StageInv
  <2>2. QED
    BY <1>3, <1>6, <1>8, <2>1 DEF Verify
<1>9. CASE Settle(s, x)
  <2>1. Interrupted(x)
    BY <1>9 DEF Settle, Holds, ApplyInv, StageInv
  <2>2. QED
    BY <1>3, <1>5, <1>9, <2>1 DEF Settle
<1>10. CASE Observe(s, x)
  <2>1. Interrupted(x)
    BY <1>10 DEF Observe, Holds, ApplyInv, StageInv
  <2>2. QED
    BY <1>3, <1>5, <1>6, <1>10, <2>1 DEF Observe
<1>11. QED
  BY <1>7, <1>8, <1>9, <1>10

(* The steps of a decision that write its intent or its receipt. *)
LEMMA RecordingSteps ==
  ASSUME ApplyInv, NEW s \in Sessions, NEW x \in ChangeSets,
         \/ WriteIntent(s, x) \/ CreateReceipt(s, x) \/ FillReceipt(s, x)
         \/ RemoveIntent(s, x) \/ (Abandon(s) /\ x = want[s].change)
  PROVE  /\ AtMostOneDecides' /\ \A r \in Sessions : StageInv(r)'
         /\ PublicationInv' /\ SourceInv'
<1>1. ASSUME NEW old \in Locked, Holds(s, old, x), NEW stage \in Free \cup Locked, Goto(s, stage)
      PROVE  /\ pc'[s] = stage /\ want'[s] = IF stage = "idle" THEN NoWant ELSE want[s]
             /\ want[s].change = x /\ base[x] # NoCommit /\ pc[s] = old /\ want[s] \in Want
  BY <1>1, Deciding DEF Goto, ApplyInv, TypeOK, StageInv, WorksOn, Locked
<1>w. wrote \in {wrote, x, NoTarget}
  OBVIOUS
<1>2. CASE WriteIntent(s, x)
  <2>1. /\ Holds(s, "intent", x) /\ Goto(s, "check") /\ UNCHANGED <<work, commits, src, wrote, decision>>
        /\ "intent" \in Locked /\ "check" \in Free \cup Locked
        /\ intent' = [intent EXCEPT ![x] = TRUE] /\ base' = base
        /\ proven' = IF ExactApplied(src, x) THEN proven \cup {x} ELSE proven \ {x}
    BY <1>2 DEF WriteIntent, Locked, work
  <2>2. Undecided(x) /\ wrote # x /\ intent'[x] = TRUE
    BY <1>1, <2>1 DEF ApplyInv, StageInv, TypeOK
  <2>3. StageInv(s)'
    BY <1>1, <2>1, <2>2 DEF StageInv, WorksOn, Interrupted, Undecided
  <2>4. SourceInv'
    BY <2>1 DEF ApplyInv, SourceInv, ExactApplied, Tidy, TypeOK
  <2>5. \A y \in ChangeSets \ {x} : intent'[y] = intent[y] /\ decision'[y] = decision[y]
    BY <2>1 DEF ApplyInv, TypeOK
  <2>6. QED
    BY <1>w, <2>1, <2>3, <2>4, <2>5, DecidingSteps
<1>3. ASSUME NEW old \in {"accept", "refuse"}, Holds(s, old, x),
             NEW stage \in {"accepted", "refused"}, Goto(s, stage),
             old = "accept" <=> stage = "accepted", CreateReceipt(s, x)
      PROVE  /\ AtMostOneDecides' /\ \A r \in Sessions : StageInv(r)'
             /\ PublicationInv' /\ SourceInv'
  <2>1. /\ old \in Locked /\ stage \in Free \cup Locked
        /\ UNCHANGED <<work, commits, src, wrote, proven, base, intent>>
        /\ decision' = [decision EXCEPT ![x] = "torn"]
    BY <1>3 DEF CreateReceipt, Locked, work, source
  <2>2. decision'[x] = "torn"
    BY <2>1 DEF ApplyInv, TypeOK
  <2>3. StageInv(s)'
    BY <1>1, <1>3, <2>1, <2>2 DEF ApplyInv, StageInv, WorksOn, Interrupted, Undecided
  <2>4. SourceInv'
    BY <2>1 DEF ApplyInv, SourceInv, ExactApplied, Tidy
  <2>5. \A y \in ChangeSets \ {x} : intent'[y] = intent[y] /\ decision'[y] = decision[y]
    BY <2>1 DEF ApplyInv, TypeOK
  <2>6. QED
    BY <1>w, <1>3, <2>1, <2>3, <2>4, <2>5, DecidingSteps
<1>4. ASSUME NEW old \in {"accepted", "refused"}, Holds(s, old, x),
             NEW stage \in {"drop", "idle"}, Goto(s, stage),
             old = "accepted" <=> stage = "drop", NEW receipt \in {"applied", "rejected"},
             old = "accepted" <=> receipt = "applied",
             decision' = [decision EXCEPT ![x] = receipt], FillReceipt(s, x)
      PROVE  /\ AtMostOneDecides' /\ \A r \in Sessions : StageInv(r)'
             /\ PublicationInv' /\ SourceInv'
  <2>1. /\ old \in Locked /\ stage \in Free \cup Locked
        /\ UNCHANGED <<work, commits, src, wrote, proven, base, intent>>
    BY <1>4 DEF FillReceipt, Locked, Free, work, source
  <2>2. decision'[x] = receipt
    BY <1>4 DEF ApplyInv, TypeOK
  <2>3. stage = "idle" \/ StageInv(s)'
    BY <1>1, <1>4, <2>1, <2>2 DEF ApplyInv, StageInv, WorksOn
  <2>4. SourceInv'
    BY <2>1 DEF ApplyInv, SourceInv, ExactApplied, Tidy
  <2>5. \A y \in ChangeSets \ {x} : intent'[y] = intent[y] /\ decision'[y] = decision[y]
    BY <1>4, <2>1 DEF ApplyInv, TypeOK
  <2>6. QED
    BY <1>w, <1>4, <2>1, <2>3, <2>4, <2>5, DecidingSteps
<1>5. CASE RemoveIntent(s, x)
  <2>1. /\ Holds(s, "drop", x) /\ Goto(s, "idle") /\ "drop" \in Locked
        /\ "idle" \in Free \cup Locked
        /\ UNCHANGED <<work, commits, src, wrote, proven, base, decision>>
        /\ intent' = [intent EXCEPT ![x] = FALSE]
    BY <1>5 DEF RemoveIntent, Locked, Free, work, source
  <2>2. SourceInv'
    BY <2>1 DEF ApplyInv, SourceInv, ExactApplied, Tidy, TypeOK
  <2>3. \A y \in ChangeSets \ {x} : intent'[y] = intent[y] /\ decision'[y] = decision[y]
    BY <2>1 DEF ApplyInv, TypeOK
  <2>4. QED
    BY <1>w, <2>1, <2>2, <2>3, DecidingSteps
<1>6. CASE Abandon(s) /\ x = want[s].change
  <2>1. /\ Holds(s, pc[s], x) /\ Goto(s, "idle") /\ pc[s] \in Locked
        /\ "idle" \in Free \cup Locked
        /\ UNCHANGED <<work, commits, src, wrote, proven, base, decision, intent>>
    BY <1>6 DEF Abandon, Holds, Free, work, source, records
  <2>2. SourceInv'
    BY <2>1 DEF ApplyInv, SourceInv, ExactApplied, Tidy
  <2>3. QED
    BY <1>w, <2>1, <2>2, DecidingSteps
<1>7. CASE CreateReceipt(s, x)
  BY <1>3, <1>7 DEF CreateReceipt
<1>8. CASE FillReceipt(s, x)
  BY <1>4, <1>8 DEF FillReceipt
<1>9. QED
  BY <1>2, <1>5, <1>6, <1>7, <1>8

(* The steps of a decision that write to the source. *)
LEMMA PatchingSteps ==
  ASSUME ApplyInv, NEW s \in Sessions, NEW x \in ChangeSets,
         Patch(s, x) \/ PatchBreaks(s, x) \/ Reset(s, x)
  PROVE  /\ AtMostOneDecides' /\ \A r \in Sessions : StageInv(r)'
         /\ PublicationInv' /\ SourceInv'
<1>1. ASSUME NEW old \in {"patch", "reset"}, Holds(s, old, x), UNCHANGED <<records, commits, work>>,
             NEW stage \in {"verify", "reset", "settle", "idle"}, Goto(s, stage),
             \/ \E o : o.head \in 1 .. Len(commits) /\ (Becomes(o, x) \/ Becomes(o, wrote))
             \/ UNCHANGED <<src, proven, wrote>>
      PROVE  /\ AtMostOneDecides' /\ \A r \in Sessions : StageInv(r)'
             /\ PublicationInv' /\ SourceInv'
  <2>1. /\ old \in Locked /\ stage \in Free \cup Locked /\ base' = base
        /\ UNCHANGED <<work, commits, decision, intent>>
    BY <1>1 DEF Locked, Free, work, records
  <2>2. /\ pc'[s] = stage /\ want'[s] = IF stage = "idle" THEN NoWant ELSE want[s]
        /\ want[s].change = x /\ base[x] # NoCommit /\ pc[s] = old /\ want[s] \in Want
    BY <1>1, <2>1, Deciding DEF Goto, ApplyInv, TypeOK, StageInv, WorksOn, Locked
  <2>3. stage = "idle" \/ StageInv(s)'
    BY <1>1, <2>1, <2>2 DEF ApplyInv, StageInv, WorksOn, Interrupted
  <2>4. SourceInv' /\ wrote' \in {wrote, x, NoTarget}
    <3>1. ASSUME NEW o, NEW w \in {x, wrote}, o.head \in 1 .. Len(commits), Becomes(o, w)
          PROVE  SourceInv' /\ wrote' \in {wrote, x, NoTarget}
      <4>1. src' = o /\ SourceInv
        BY <3>1 DEF Becomes, ApplyInv
      <4>2. QED
        BY <2>1, <3>1, <4>1, BecomesRight DEF SourceInv
    <3>2. CASE UNCHANGED <<src, proven, wrote>>
      BY <2>1, <3>2 DEF ApplyInv, SourceInv, ExactApplied, Tidy
    <3>3. QED
      BY <1>1, <3>1, <3>2
  <2>5. QED
    BY <1>1, <2>1, <2>3, <2>4, DecidingSteps
<1>2. src.head \in 1 .. Len(commits) /\ src \in Source
  BY DEF ApplyInv, SourceInv, TypeOK
<1>3. CASE Patch(s, x)
  <2>1. [src EXCEPT !.index = PatchedTree(x)].head \in 1 .. Len(commits)
    BY <1>2 DEF Source
  <2>2. QED
    BY <1>1, <1>3, <2>1 DEF Patch
<1>4. CASE PatchBreaks(s, x)
  <2>1. /\ [src EXCEPT !.edits = @ \cup {"apply"}].head \in 1 .. Len(commits)
        /\ [src EXCEPT !.untracked = TRUE].head \in 1 .. Len(commits)
    BY <1>2 DEF Source
  <2>2. QED
    BY <1>1, <1>4, <2>1 DEF PatchBreaks
<1>5. CASE Reset(s, x)
  <2>1. base[x] \in 1 .. Len(commits)
    BY <1>5, Deciding DEF Reset, Locked, ApplyInv, PublicationInv
  <2>2. QED
    BY <1>1, <1>5, <2>1 DEF Reset
<1>6. QED
  BY <1>3, <1>4, <1>5

(* CODER results and grants come when no session decides. *)
LEMMA TaskSteps ==
  ASSUME ApplyInv,
         \/ \E x \in ChangeSets, b \in Commits : Publish(x, b)
         \/ \E t \in Tasks : PublishNothing(t) \/ Revoke(t)
         \/ \E s \in Sessions, t \in Tasks : Grant(s, t)
  PROVE  /\ AtMostOneDecides' /\ \A r \in Sessions : StageInv(r)'
         /\ PublicationInv' /\ SourceInv'
<1>1. LockFree /\ UNCHANGED <<decision, intent, commits, src, proven, wrote, pc, want>>
  BY DEF Publish, PublishNothing, Revoke, Grant, records, source
<1>2. AtMostOneDecides'
  BY <1>1 DEF ApplyInv, AtMostOneDecides
<1>3. ASSUME NEW x \in ChangeSets, NEW b \in Commits, Publish(x, b)
      PROVE  (\A r \in Sessions : StageInv(r)') /\ PublicationInv' /\ SourceInv'
  <2>1. /\ base[x] = NoCommit /\ base' = [base EXCEPT ![x] = b] /\ b # NoCommit
        /\ b \in 1 .. Len(commits) /\ latest' = [latest EXCEPT ![TaskOf[x]] = x]
        /\ base'[x] = b /\ \A y \in ChangeSets \ {x} : base'[y] = base[y]
    BY <1>3, ValueAssumption DEF Publish, ApplyInv, TypeOK
  <2>2. \A y \in ChangeSets : base[y] # NoCommit => base'[y] = base[y]
    BY <2>1
  <2>3. \A r \in Sessions : StageInv(r)'
    BY <1>1, <2>2 DEF ApplyInv, StageInv, WorksOn, LockFree, Free, Want
  <2>4. PublicationInv'
    <3>1. \A t \in Tasks : latest'[t] # NoTarget => base'[latest'[t]] # NoCommit
      BY <2>1, <2>2, TaskOfAssumption DEF ApplyInv, PublicationInv, TypeOK
    <3>2. \A y \in ChangeSets : base'[y] # NoCommit => base'[y] \in 1 .. Len(commits')
      BY <1>1, <2>1 DEF ApplyInv, PublicationInv
    <3>3. \A y \in ChangeSets :
            intent'[y] \/ decision'[y] # "none" \/ wrote' = y => base'[y] # NoCommit
      BY <1>1, <2>2 DEF ApplyInv, PublicationInv
    <3>4. QED
      BY <3>1, <3>2, <3>3 DEF PublicationInv
  <2>5. SourceInv'
    <3>1. \A y \in ChangeSets : intent[y] => base'[y] = base[y]
      BY <2>2 DEF ApplyInv, PublicationInv
    <3>2. QED
      BY <1>1, <3>1 DEF ApplyInv, SourceInv, ExactApplied, Tidy
  <2>6. QED
    BY <2>3, <2>4, <2>5
<1>4. ASSUME base' = base, \A t \in Tasks : latest'[t] \in {latest[t], NoTarget}
      PROVE  (\A r \in Sessions : StageInv(r)') /\ PublicationInv' /\ SourceInv'
  <2>1. \A r \in Sessions : StageInv(r)'
    BY <1>1, <1>4 DEF ApplyInv, StageInv, WorksOn, LockFree, Free
  <2>2. PublicationInv' /\ SourceInv'
    BY <1>1, <1>4 DEF ApplyInv, PublicationInv, SourceInv, ExactApplied, Tidy
  <2>3. QED
    BY <2>1, <2>2
<1>5. ASSUME NEW t \in Tasks, PublishNothing(t)
      PROVE  base' = base /\ \A u \in Tasks : latest'[u] \in {latest[u], NoTarget}
  BY <1>5 DEF PublishNothing, ApplyInv, TypeOK
<1>6. ASSUME \/ \E t \in Tasks : Revoke(t)
             \/ \E s \in Sessions, t \in Tasks : Grant(s, t)
      PROVE  base' = base /\ \A u \in Tasks : latest'[u] \in {latest[u], NoTarget}
  BY <1>6 DEF Revoke, Grant, work
<1>7. QED
  BY <1>2, <1>3, <1>4, <1>5, <1>6

(* The user changes the source whatever session decides, and no record. *)
LEMMA UserSteps ==
  ASSUME ApplyInv, User
  PROVE  /\ AtMostOneDecides' /\ \A r \in Sessions : StageInv(r)'
         /\ PublicationInv' /\ SourceInv'
<1>1. src \in Source /\ src.head \in 1 .. Len(commits) /\ commits \in Seq(Results \cup Commits)
  BY DEF ApplyInv, SourceInv, TypeOK
<1>2. Rest
  BY DEF User, UserEdits, UserMovesFiles, UserStages, UserCommits, UserChecksOut, UserFinishes
<1>3. UNCHANGED <<decision, intent, latest, base, pc, want>>
  BY <1>2 DEF Rest, records, work
<1>4. ASSUME NEW o, Becomes(o, wrote), o.head \in 1 .. Len(commits'),
             Len(commits) <= Len(commits'), Len(commits') \in Nat
      PROVE  /\ AtMostOneDecides' /\ \A r \in Sessions : StageInv(r)'
             /\ PublicationInv' /\ SourceInv'
  <2>1. /\ proven \subseteq proven' /\ wrote' \in {wrote, NoTarget} /\ src' = o
        /\ wrote' # NoTarget => ~(Tidy(src') /\ src'.index = commits'[src'.head])
        /\ \A x \in ChangeSets : ExactApplied(src, x)' => x \in proven'
    BY <1>3, <1>4, BecomesRight DEF Becomes
  <2>2. AtMostOneDecides'
    BY <1>3 DEF ApplyInv, AtMostOneDecides
  <2>3. \A r \in Sessions : StageInv(r)'
    <3> TAKE r \in Sessions
    <3>1. pc[r] \in Free \/ want[r].change \in ChangeSets
      BY DEF ApplyInv, TypeOK, StageInv, WorksOn, Want, Free, Locked
    <3>2. QED
      BY <1>3, <2>1, <3>1, StageKept DEF ApplyInv, records
  <2>4. PublicationInv'
    <3>1. Len(commits) \in Nat
      BY <1>1
    <3>2. \A n \in 1 .. Len(commits) : n \in 1 .. Len(commits')
      BY <1>4, <3>1
    <3>3. \A t \in Tasks : latest'[t] # NoTarget => base'[latest'[t]] # NoCommit
      BY <1>3 DEF ApplyInv, PublicationInv
    <3>4. \A y \in ChangeSets : base'[y] # NoCommit => base'[y] \in 1 .. Len(commits')
      BY <1>3, <3>2 DEF ApplyInv, PublicationInv
    <3>5. \A y \in ChangeSets :
            intent'[y] \/ decision'[y] # "none" \/ wrote' = y => base'[y] # NoCommit
      BY <1>3, <2>1, ValueAssumption DEF ApplyInv, PublicationInv
    <3>6. QED
      BY <3>3, <3>4, <3>5 DEF PublicationInv
  <2>5. SourceInv'
    BY <1>4, <2>1 DEF SourceInv
  <2>6. QED
    BY <2>2, <2>3, <2>4, <2>5
<1>5. ASSUME NEW o, o.head \in 1 .. Len(commits), Becomes(o, wrote), UNCHANGED commits
      PROVE  /\ AtMostOneDecides' /\ \A r \in Sessions : StageInv(r)'
             /\ PublicationInv' /\ SourceInv'
  BY <1>1, <1>4, <1>5
<1>6. CASE UserEdits
  <2>1. [src EXCEPT !.edits = @ \cup {"user"}].head \in 1 .. Len(commits)
    BY <1>1 DEF Source
  <2>2. QED
    BY <1>5, <1>6, <2>1 DEF UserEdits
<1>7. CASE UserMovesFiles
  <2>1. [src EXCEPT !.untracked = ~@].head \in 1 .. Len(commits)
    BY <1>1 DEF Source
  <2>2. QED
    BY <1>5, <1>7, <2>1 DEF UserMovesFiles
<1>8. CASE UserStages
  <2>1. [src EXCEPT !.edits = {}, !.index = Mixed].head \in 1 .. Len(commits)
    BY <1>1 DEF Source
  <2>2. QED
    BY <1>5, <1>8, <2>1 DEF UserStages
<1>9. CASE UserCommits
  <2> DEFINE n == Len(commits) + 1
             tree == IF src.index = Mixed THEN n ELSE src.index
             o == [src EXCEPT !.head = n, !.index = tree]
  <2>1. commits' = Append(commits, tree) /\ Becomes(o, wrote)
    BY <1>9 DEF UserCommits
  <2>2. Len(commits') = n /\ n \in Nat /\ n \in 1 .. Len(commits') /\ Len(commits) <= n
    BY <1>1, <2>1
  <2>3. o.head = n
    BY <1>1 DEF Source
  <2> HIDE DEF n, o, tree
  <2>4. QED
    BY <1>4, <2>1, <2>2, <2>3
<1>10. ASSUME NEW n \in Commits, UserChecksOut(n)
       PROVE  /\ AtMostOneDecides' /\ \A r \in Sessions : StageInv(r)'
              /\ PublicationInv' /\ SourceInv'
  <2>1. [src EXCEPT !.head = n, !.index = commits[n], !.edits = {}].head \in 1 .. Len(commits)
    BY <1>1, <1>10 DEF Source, UserChecksOut
  <2>2. QED
    BY <1>5, <1>10, <2>1 DEF UserChecksOut
<1>11. ASSUME NEW x \in ChangeSets, UserFinishes(x)
       PROVE  /\ AtMostOneDecides' /\ \A r \in Sessions : StageInv(r)'
              /\ PublicationInv' /\ SourceInv'
  <2>1. [src EXCEPT !.index = Result[x], !.edits = {}].head \in 1 .. Len(commits)
    BY <1>1 DEF Source
  <2>2. QED
    BY <1>5, <1>11, <2>1 DEF UserFinishes
<1>12. QED
  BY <1>6, <1>7, <1>8, <1>9, <1>10, <1>11 DEF User

(* Every step keeps the invariant. *)
LEMMA ApplyInvStep == ApplyInv /\ [Next]_vars => ApplyInv'
<1> SUFFICES ASSUME ApplyInv, [Next]_vars PROVE ApplyInv'
  OBVIOUS
<1>1. TypeOK'
  BY ApplyTypingStep
<1>2. /\ AtMostOneDecides' /\ \A r \in Sessions : StageInv(r)'
      /\ PublicationInv' /\ SourceInv'
  <2>1. ASSUME NEW s \in Sessions, NEW x \in ChangeSets,
               \/ Resolve(s, x) \/ TakeFence(s) \/ Enter(s)
               \/ Check(s, x) \/ Verify(s, x) \/ Settle(s, x) \/ Observe(s, x)
               \/ WriteIntent(s, x) \/ CreateReceipt(s, x) \/ FillReceipt(s, x) \/ RemoveIntent(s, x)
               \/ Patch(s, x) \/ PatchBreaks(s, x) \/ Reset(s, x)
        PROVE  /\ AtMostOneDecides' /\ \A r \in Sessions : StageInv(r)'
               /\ PublicationInv' /\ SourceInv'
    <3>1. CASE Resolve(s, x) \/ TakeFence(s) \/ Enter(s)
      BY <3>1, UnlockedSteps
    <3>2. CASE Check(s, x) \/ Verify(s, x) \/ Settle(s, x) \/ Observe(s, x)
      BY <3>2, ReadingSteps
    <3>3. CASE WriteIntent(s, x) \/ CreateReceipt(s, x) \/ FillReceipt(s, x) \/ RemoveIntent(s, x)
      BY <3>3, RecordingSteps
    <3>4. CASE Patch(s, x) \/ PatchBreaks(s, x) \/ Reset(s, x)
      BY <3>4, PatchingSteps
    <3>5. QED
      BY <2>1, <3>1, <3>2, <3>3, <3>4
  <2>2. ASSUME NEW s \in Sessions, TakeFence(s) \/ Enter(s) \/ Abandon(s)
        PROVE  /\ AtMostOneDecides' /\ \A r \in Sessions : StageInv(r)'
               /\ PublicationInv' /\ SourceInv'
    <3>1. CASE TakeFence(s) \/ Enter(s)
      BY <3>1, UnlockedSteps
    <3>2. CASE Abandon(s)
      <4>1. want[s].change \in ChangeSets
        BY <3>2 DEF Abandon, ApplyInv, StageInv, WorksOn, Want, Locked
      <4>2. QED
        BY <3>2, <4>1, RecordingSteps
    <3>3. QED
      BY <2>2, <3>1, <3>2
  <2>3. CASE UNCHANGED vars
    <3>1. UNCHANGED <<decision, intent, latest, base, commits, src, proven, wrote, pc, want>>
      BY <2>3 DEF vars, records, source, work
    <3>2. AtMostOneDecides'
      BY <3>1 DEF ApplyInv, AtMostOneDecides
    <3>3. \A r \in Sessions : StageInv(r)'
      BY <3>1 DEF ApplyInv, StageInv, WorksOn, Undecided, Interrupted
    <3>4. PublicationInv' /\ SourceInv'
      BY <3>1 DEF ApplyInv, PublicationInv, SourceInv, ExactApplied, Tidy
    <3>5. QED
      BY <3>2, <3>3, <3>4
  <2>4. QED
    BY <2>1, <2>2, <2>3, TaskSteps, UserSteps DEF Next, Proceed
<1>3. QED
  BY <1>1, <1>2 DEF ApplyInv

(* Stages, records, publication and source agree in every reachable state.   *)
THEOREM ApplyInvariant == Spec => []ApplyInv
BY ApplyInvInit, ApplyInvStep, PTL DEF Spec

-----------------------------------------------------------------------------
(* What a step of a decision makes of the records and of the writes. *)
LEMMA RecordChanges ==
  ASSUME ApplyInv, [Next]_vars
  PROVE  \/ /\ UNCHANGED records /\ proven \subseteq proven'
            /\ wrote' \in {wrote, NoTarget} \/ wrote' \in {x \in ChangeSets : Interrupted(x)}
         \/ \E s \in Sessions, x \in ChangeSets :
              \/ WriteIntent(s, x) \/ CreateReceipt(s, x)
              \/ FillReceipt(s, x) \/ RemoveIntent(s, x)
<1>1. ASSUME NEW s \in Sessions, NEW x \in ChangeSets,
             Patch(s, x) \/ PatchBreaks(s, x) \/ Reset(s, x)
      PROVE  /\ UNCHANGED records /\ proven \subseteq proven'
             /\ wrote' \in {wrote, NoTarget} \/ wrote' \in {y \in ChangeSets : Interrupted(y)}
  <2>1. Interrupted(x)
    BY <1>1 DEF Patch, PatchBreaks, Reset, Holds, ApplyInv, StageInv
  <2>2. QED
    BY <1>1, <2>1 DEF Patch, PatchBreaks, Reset, Becomes
<1>2. ASSUME User
      PROVE  UNCHANGED records /\ proven \subseteq proven' /\ wrote' \in {wrote, NoTarget}
  BY <1>2 DEF User, UserEdits, UserMovesFiles, UserStages, UserCommits, UserChecksOut,
     UserFinishes, Rest, Becomes
<1>3. ASSUME \/ \E s \in Sessions : TakeFence(s) \/ Enter(s) \/ Abandon(s)
             \/ \E s \in Sessions, x \in ChangeSets :
                  \/ Resolve(s, x) \/ Check(s, x) \/ Verify(s, x) \/ Settle(s, x) \/ Observe(s, x)
             \/ \E x \in ChangeSets, b \in Commits : Publish(x, b)
             \/ \E t \in Tasks : PublishNothing(t) \/ Revoke(t)
             \/ \E s \in Sessions, t \in Tasks : Grant(s, t)
             \/ UNCHANGED vars
      PROVE  UNCHANGED records /\ UNCHANGED source
  BY <1>3 DEF TakeFence, Enter, Abandon, Resolve, Check, Verify, Settle, Observe, Publish,
     PublishNothing, Revoke, Grant, vars
<1>4. UNCHANGED source => proven \subseteq proven' /\ wrote' = wrote
  BY DEF source
<1>5. QED
  BY <1>1, <1>2, <1>3, <1>4 DEF Next, Proceed

(* Whatever of a change set is in the source is accounted for. *)
THEOREM WritesAccounted == Spec => []WritesAccountedFor
<1>1. Init => WritesAccountedFor
  BY DEF Init, WritesAccountedFor
<1>2. ApplyInv /\ WritesAccountedFor /\ [Next]_vars => WritesAccountedFor'
  <2> SUFFICES ASSUME ApplyInv, WritesAccountedFor, [Next]_vars PROVE WritesAccountedFor'
    OBVIOUS
  <2>1. CASE /\ UNCHANGED records
             /\ wrote' \in {wrote, NoTarget} \/ wrote' \in {x \in ChangeSets : Interrupted(x)}
    BY <2>1 DEF records, WritesAccountedFor, Interrupted
  <2>2. ASSUME NEW s \in Sessions, NEW x \in ChangeSets, WriteIntent(s, x)
        PROVE  WritesAccountedFor'
    BY <2>2 DEF WriteIntent, WritesAccountedFor, ApplyInv, TypeOK
  <2>3. ASSUME NEW s \in Sessions, NEW x \in ChangeSets, CreateReceipt(s, x)
        PROVE  WritesAccountedFor'
    BY <2>3 DEF CreateReceipt, source, WritesAccountedFor, ApplyInv, TypeOK
  <2>4. ASSUME NEW s \in Sessions, NEW x \in ChangeSets, FillReceipt(s, x)
        PROVE  WritesAccountedFor'
    <3>1. decision[x] = "torn"
      BY <2>4 DEF FillReceipt, Holds, ApplyInv, StageInv
    <3>2. QED
      BY <2>4, <3>1 DEF FillReceipt, source, WritesAccountedFor, ApplyInv, TypeOK
  <2>5. ASSUME NEW s \in Sessions, NEW x \in ChangeSets, RemoveIntent(s, x)
        PROVE  WritesAccountedFor'
    <3>1. decision[x] = "applied" \/ wrote # x
      BY <2>5 DEF RemoveIntent, Holds, ApplyInv, StageInv
    <3>2. QED
      BY <2>5, <3>1 DEF RemoveIntent, source, WritesAccountedFor, ApplyInv, TypeOK
  <2>6. QED
    BY <2>1, <2>2, <2>3, <2>4, <2>5, RecordChanges
<1>3. QED
  BY <1>1, <1>2, ApplyInvariant, PTL DEF Spec

-----------------------------------------------------------------------------
(* Receipts, intents and the source implement the state machine of a change  *)
(* set: decided once, applied only if the source held exactly the result.    *)
THEOREM DecisionsImplemented == Spec => ImplementsDecision
<1> DEFINE st == [x \in ChangeSets |-> State(x)]
<1>1. Init => Machine!DecisionInit
  BY DEF Init, Machine!DecisionInit, State
<1>2. ApplyInv /\ [Next]_vars => [Machine!DecisionNext]_(Machine!decisionVars)
  <2> SUFFICES ASSUME ApplyInv, [Next]_vars
               PROVE  Machine!DecisionNext \/ UNCHANGED Machine!decisionVars
    OBVIOUS
  <2>t. decision \in [ChangeSets -> {"none", "torn", "applied", "rejected"}]
        /\ intent \in [ChangeSets -> BOOLEAN] /\ proven \subseteq ChangeSets
        /\ proven' \subseteq ChangeSets
    BY ApplyTypingStep DEF ApplyInv, TypeOK
  <2>1. CASE UNCHANGED records /\ proven \subseteq proven'
    <3>1. st' = st
      BY <2>1 DEF State, records
    <3>2. Machine!Witness
      BY <2>t, <2>1, <3>1 DEF Machine!Witness
    <3>3. QED
      BY <3>2 DEF Machine!DecisionNext
  <2>2. ASSUME NEW x \in ChangeSets, NEW to, State(x)' = to,
               \A y \in ChangeSets \ {x} : State(y)' = State(y)
        PROVE  st' = [st EXCEPT ![x] = to]
    BY <2>2
  <2>3. ASSUME NEW s \in Sessions, NEW x \in ChangeSets, WriteIntent(s, x)
        PROVE  Machine!DecisionNext
    <3>1. Undecided(x)
      BY <2>3 DEF WriteIntent, Holds, ApplyInv, StageInv
    <3>2. /\ State(x) = "pending" /\ State(x)' = "applying_interrupted"
          /\ \A y \in ChangeSets \ {x} : State(y)' = State(y)
      BY <2>t, <2>3, <3>1 DEF WriteIntent, State, Undecided
    <3>3. proven' \in {proven \cup {x}, proven \ {x}}
      BY <2>3 DEF WriteIntent
    <3>4. Machine!Begin(x)
      BY <2>2, <3>2, <3>3 DEF Machine!Begin, Machine!Becomes
    <3>5. QED
      BY <3>4 DEF Machine!DecisionNext
  <2>4. ASSUME NEW s \in Sessions, NEW x \in ChangeSets, CreateReceipt(s, x)
        PROVE  UNCHANGED Machine!decisionVars
    <3>1. st' = st
      BY <2>t, <2>4 DEF CreateReceipt, State
    <3>2. QED
      BY <2>4, <3>1 DEF CreateReceipt, source, Machine!decisionVars
  <2>5. ASSUME NEW s \in Sessions, NEW x \in ChangeSets, FillReceipt(s, x)
        PROVE  Machine!DecisionNext
    <3>1. UNCHANGED <<intent, proven>>
      BY <2>5 DEF FillReceipt, source
    <3>2. CASE Holds(s, "accepted", x) /\ decision' = [decision EXCEPT ![x] = "applied"]
      <4>1. decision[x] = "torn" /\ intent[x] /\ x \in proven
        BY <3>2 DEF Holds, ApplyInv, StageInv
      <4>2. /\ State(x) = "applying_interrupted" /\ State(x)' = "applied"
            /\ \A y \in ChangeSets \ {x} : State(y)' = State(y)
        BY <2>t, <3>1, <3>2, <4>1 DEF State
      <4>3. Machine!Apply(x)
        BY <2>2, <3>1, <4>1, <4>2 DEF Machine!Apply, Machine!Becomes
      <4>4. QED
        BY <4>3 DEF Machine!DecisionNext
    <3>3. CASE Holds(s, "refused", x) /\ decision' = [decision EXCEPT ![x] = "rejected"]
      <4>1. decision[x] = "torn" /\ ~intent[x]
        BY <3>3 DEF Holds, ApplyInv, StageInv
      <4>2. /\ State(x) = "pending" /\ State(x)' = "rejected"
            /\ \A y \in ChangeSets \ {x} : State(y)' = State(y)
        BY <2>t, <3>1, <3>3, <4>1 DEF State
      <4>3. Machine!Reject(x)
        BY <2>2, <3>1, <4>2 DEF Machine!Reject, Machine!Becomes
      <4>4. QED
        BY <4>3 DEF Machine!DecisionNext
    <3>4. QED
      BY <2>5, <3>2, <3>3 DEF FillReceipt
  <2>6. ASSUME NEW s \in Sessions, NEW x \in ChangeSets, RemoveIntent(s, x)
        PROVE  Machine!DecisionNext \/ UNCHANGED Machine!decisionVars
    <3>1. /\ decision[x] \in {"none", "applied"} /\ intent[x]
          /\ intent' = [intent EXCEPT ![x] = FALSE] /\ UNCHANGED <<decision, proven>>
      BY <2>6 DEF RemoveIntent, Holds, ApplyInv, StageInv, source
    <3>2. CASE decision[x] = "none"
      <4>1. /\ State(x) = "applying_interrupted" /\ State(x)' = "pending"
            /\ \A y \in ChangeSets \ {x} : State(y)' = State(y)
        BY <2>t, <3>1, <3>2 DEF State
      <4>2. Machine!Undo(x)
        BY <2>2, <3>1, <4>1 DEF Machine!Undo, Machine!Becomes
      <4>3. QED
        BY <4>2 DEF Machine!DecisionNext
    <3>3. CASE decision[x] = "applied"
      <4>1. st' = st
        BY <2>t, <3>1, <3>3 DEF State
      <4>2. QED
        BY <3>1, <4>1 DEF Machine!decisionVars
    <3>4. QED
      BY <3>1, <3>2, <3>3
  <2>7. QED
    BY <2>1, <2>3, <2>4, <2>5, <2>6, RecordChanges
<1>3. QED
  BY <1>1, <1>2, ApplyInvariant, PTL DEF Spec, ImplementsDecision, Machine!DecisionSpec

-----------------------------------------------------------------------------
(* A session may be bound to one task in its life (the tools only open fresh  *)
(* session identifiers).                                                      *)
OneTaskEach == \A s \in Sessions, t, u \in Tasks :
                 <<s, t>> \in MayHold /\ <<s, u>> \in MayHold => t = u

(* Grants go where they may, and a session works on and has its fence for the *)
(* task it may hold; past the locks the fence is current.                     *)
OwnerInv ==
  /\ \A t \in Tasks : holder[t] # NoSession => <<holder[t], t>> \in MayHold
  /\ \A s \in Sessions :
       /\ pc[s] # "idle" => <<s, TaskOf[want[s].change]>> \in MayHold
       /\ pc[s] \in Locked \cup {"fenced"} => <<s, want[s].task>> \in MayHold
       /\ pc[s] \in Locked => Current(s)

(* A session that does not move keeps its facts while the lease stands. *)
LEMMA OwnerKept ==
  ASSUME OwnerInv, NEW s \in Sessions, pc'[s] = pc[s], want'[s] = want[s],
         pc[s] \in Free \/ UNCHANGED lease
  PROVE  /\ pc'[s] # "idle" => <<s, TaskOf[want'[s].change]>> \in MayHold
         /\ pc'[s] \in Locked \cup {"fenced"} => <<s, want'[s].task>> \in MayHold
         /\ pc'[s] \in Locked => Current(s)'
BY DEF OwnerInv, Current, lease, Free, Locked

LEMMA OwnerStep == ApplyInv /\ OwnerInv /\ [Next]_vars => OwnerInv'
<1> SUFFICES ASSUME ApplyInv, OwnerInv, [Next]_vars PROVE OwnerInv'
  OBVIOUS
<1> DEFINE Moved(s) == /\ pc'[s] # "idle" => <<s, TaskOf[want'[s].change]>> \in MayHold
                       /\ pc'[s] \in Locked \cup {"fenced"} => <<s, want'[s].task>> \in MayHold
                       /\ pc'[s] \in Locked => Current(s)'
<1>t. /\ pc \in [Sessions -> Free \cup Locked] /\ want \in [Sessions -> Want \cup {NoWant}]
      /\ holder \in [Tasks -> Sessions \cup {NoSession}]
  BY DEF ApplyInv, TypeOK
\* One session moves, the lease stands.
<1>1. ASSUME NEW s \in Sessions, UNCHANGED lease, Moved(s),
             \A r \in Sessions \ {s} : pc'[r] = pc[r] /\ want'[r] = want[r]
      PROVE  OwnerInv'
  <2>1. \A r \in Sessions : Moved(r)
    BY <1>1, OwnerKept
  <2>2. QED
    BY <1>1, <2>1 DEF OwnerInv, lease
<1>2. ASSUME NEW s \in Sessions, UNCHANGED lease, NEW stage, Goto(s, stage),
             pc[s] # "idle", stage \in {"idle", "fenced"} \/ pc[s] \in Locked \cup {"fenced"},
             stage \in Locked => pc[s] \in Locked \/ Current(s),
             stage # "fenced"
      PROVE  OwnerInv'
  <2>1. /\ pc'[s] = stage /\ (stage # "idle" => want'[s] = want[s])
        /\ \A r \in Sessions \ {s} : pc'[r] = pc[r] /\ want'[r] = want[r]
    BY <1>t, <1>2 DEF Goto
  <2>2. stage # "idle" => <<s, TaskOf[want[s].change]>> \in MayHold
    BY <1>2 DEF OwnerInv
  <2>3. stage \in Locked => <<s, want[s].task>> \in MayHold /\ Current(s)
    BY <1>2 DEF OwnerInv, Locked
  <2>4. stage \in Locked => Current(s)'
    BY <1>2, <2>1, <2>3 DEF Current, lease, Locked
  <2>5. Moved(s)
    BY <1>2, <2>1, <2>2, <2>3, <2>4 DEF Locked
  <2>6. QED
    BY <1>1, <1>2, <2>1, <2>5
<1>3. ASSUME NEW s \in Sessions, NEW x \in ChangeSets, Resolve(s, x) PROVE OwnerInv'
  <2>1. /\ UNCHANGED lease /\ pc'[s] = "resolved" /\ want'[s].change = x
        /\ \A r \in Sessions \ {s} : pc'[r] = pc[r] /\ want'[r] = want[r]
    BY <1>t, <1>3 DEF Resolve, lease
  <2>2. <<s, TaskOf[x]>> \in MayHold
    BY <1>3, TaskOfAssumption, ValueAssumption DEF Resolve, OwnerInv
  <2>3. QED
    BY <1>1, <2>1, <2>2 DEF Locked
<1>4. ASSUME NEW s \in Sessions, TakeFence(s) PROVE OwnerInv'
  <2>1. CASE Goto(s, "idle")
    BY <1>2, <1>4, <2>1 DEF TakeFence, Locked
  <2>2. ASSUME NEW t \in Tasks, holder[t] = s, pc' = [pc EXCEPT ![s] = "fenced"],
               want' = [want EXCEPT ![s].task = t, ![s].term = term[t]]
        PROVE  OwnerInv'
    <3>1. want[s] \in Want
      BY <1>4 DEF TakeFence, ApplyInv, StageInv, WorksOn
    <3>2. /\ UNCHANGED lease /\ pc'[s] = "fenced"
          /\ want'[s].change = want[s].change /\ want'[s].task = t
          /\ \A r \in Sessions \ {s} : pc'[r] = pc[r] /\ want'[r] = want[r]
      BY <1>t, <1>4, <2>2, <3>1 DEF TakeFence, Want
    <3>3. <<s, t>> \in MayHold /\ <<s, TaskOf[want[s].change]>> \in MayHold
      BY <1>4, <2>2, ValueAssumption DEF TakeFence, OwnerInv
    <3>4. QED
      BY <1>1, <3>2, <3>3 DEF Locked
  <2>3. QED
    BY <1>4, <2>1, <2>2 DEF TakeFence
<1>5. ASSUME NEW s \in Sessions, Enter(s) PROVE OwnerInv'
  <2>1. PICK stage \in {"intent", "refuse", "observe", "idle"} :
          Goto(s, stage) /\ (stage # "idle" => Current(s))
    BY <1>5 DEF Enter
  <2>2. QED
    BY <1>2, <1>5, <2>1 DEF Enter, Locked
\* Past the locks every move is along the stages.
<1>6. ASSUME NEW s \in Sessions, NEW stage, Goto(s, stage), pc[s] \in Locked, stage # "fenced",
             UNCHANGED lease
      PROVE  OwnerInv'
  BY <1>2, <1>6 DEF Locked
<1>7. ASSUME NEW s \in Sessions, NEW x \in ChangeSets,
             \/ WriteIntent(s, x) \/ Check(s, x) \/ Patch(s, x) \/ PatchBreaks(s, x)
             \/ Verify(s, x) \/ Reset(s, x) \/ Settle(s, x) \/ Observe(s, x)
             \/ CreateReceipt(s, x) \/ FillReceipt(s, x) \/ RemoveIntent(s, x)
      PROVE  OwnerInv'
  <2>1. \E stage \in Locked \cup {"idle"} : Goto(s, stage)
    BY <1>7 DEF WriteIntent, Check, Patch, PatchBreaks, Verify, Reset, Settle, Observe,
       CreateReceipt, FillReceipt, RemoveIntent, Locked
  <2>2. pc[s] \in Locked /\ UNCHANGED lease
    BY <1>7 DEF WriteIntent, Check, Patch, PatchBreaks, Verify, Reset, Settle, Observe,
       CreateReceipt, FillReceipt, RemoveIntent, Holds, Locked, lease
  <2>3. QED
    BY <1>6, <2>1, <2>2 DEF Locked
<1>8. ASSUME NEW s \in Sessions, Abandon(s) PROVE OwnerInv'
  BY <1>6, <1>8 DEF Abandon
\* The lease changes only when no session decides.
<1>9. ASSUME LockFree, UNCHANGED <<pc, want>>, NEW t \in Tasks,
             holder'[t] = NoSession \/ <<holder'[t], t>> \in MayHold,
             \A u \in Tasks \ {t} : holder'[u] = holder[u]
      PROVE  OwnerInv'
  <2>1. \A r \in Sessions : Moved(r)
    BY <1>9, OwnerKept DEF LockFree
  <2>2. QED
    BY <1>9, <2>1 DEF OwnerInv
<1>10. ASSUME NEW t \in Tasks, Revoke(t) PROVE OwnerInv'
  BY <1>t, <1>9, <1>10 DEF Revoke
<1>11. ASSUME NEW s \in Sessions, NEW t \in Tasks, Grant(s, t) PROVE OwnerInv'
  BY <1>t, <1>9, <1>11 DEF Grant
<1>12. ASSUME UNCHANGED <<lease, pc, want>> PROVE OwnerInv'
  BY <1>12 DEF OwnerInv, Current, lease
<1>13. ASSUME \/ \E x \in ChangeSets, b \in Commits : Publish(x, b)
              \/ \E t \in Tasks : PublishNothing(t)
              \/ User
              \/ UNCHANGED vars
       PROVE  UNCHANGED <<lease, pc, want>>
  BY <1>13 DEF Publish, PublishNothing, User, UserEdits, UserMovesFiles, UserStages,
     UserCommits, UserChecksOut, UserFinishes, Rest, vars
<1>14. QED
  BY <1>3, <1>4, <1>5, <1>7, <1>8, <1>10, <1>11, <1>12, <1>13 DEF Next, Proceed

(* If a session may hold one task, whoever is past the locks owns the task of *)
(* the change set it decides, under the token of its fence.                   *)
THEOREM OwnersDecide == ASSUME OneTaskEach PROVE Spec => []DecidesAsOwner
<1>1. Init => OwnerInv
  BY DEF Init, OwnerInv, Locked
<1>2. ApplyInv /\ OwnerInv => DecidesAsOwner
  <2> SUFFICES ASSUME ApplyInv, OwnerInv, NEW s \in Sessions, pc[s] \in Locked
               PROVE  /\ holder[TaskOf[want[s].change]] = s
                      /\ term[TaskOf[want[s].change]] = want[s].term
    BY DEF DecidesAsOwner
  <2>1. want[s] \in Want
    BY DEF ApplyInv, StageInv, WorksOn, Locked
  <2>2. TaskOf[want[s].change] = want[s].task
    <3>1. pc[s] # "idle" /\ pc[s] \in Locked \cup {"fenced"}
      BY DEF Locked
    <3>2. <<s, TaskOf[want[s].change]>> \in MayHold /\ <<s, want[s].task>> \in MayHold
      BY <3>1 DEF OwnerInv
    <3>3. TaskOf[want[s].change] \in Tasks /\ want[s].task \in Tasks
      BY <2>1, TaskOfAssumption DEF Want
    <3>4. QED
      BY <3>2, <3>3 DEF OneTaskEach
  <2>3. QED
    BY <2>2 DEF OwnerInv, Current
<1>3. QED
  BY <1>1, <1>2, OwnerStep, ApplyInvariant, PTL DEF Spec
=============================================================================
