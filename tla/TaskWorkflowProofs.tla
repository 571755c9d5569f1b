------------------------- MODULE TaskWorkflowProofs -------------------------
(* The life of a task, for any sessions and any number of overlapping calls. *)
(* WorkflowInv is inductive: a review in flight remembers a record that was  *)
(* decided (ReviewInv), and an archive in the task-binding lock knows how    *)
(* far it has come (ArchiveInv).                                             *)
EXTENDS TaskWorkflow, TLAPS

LEMMA WorkflowInitially == Init => WorkflowInv
<1> SUFFICES ASSUME Init  PROVE WorkflowInv
  OBVIOUS
<1>1. TypeOK
  BY DEF Init, TypeOK, ChangeStates
<1>2. EndedInv /\ ArchiveInv
  BY DEF Init, EndedInv, ArchiveInv
<1>3. ReviewInv
  BY DEF Init, ReviewInv
<1> QED
  BY <1>1, <1>2, <1>3 DEF Init, WorkflowInv, UserCompletionStrandsNothing,
     PassedAsReviewed, ArchivedUnownedUnlessLate

(* A call that goes away leaves the others as they were.                     *)
LEMMA CallEnds ==
  ASSUME TypeOK, NEW k \in Calls, call' = [call EXCEPT ![k] = NoCall]
  PROVE  /\ call' \in [Calls -> Call \cup {NoCall}]
         /\ \A j \in Calls : call'[j] # NoCall => call'[j] = call[j]
BY DEF TypeOK

LEMMA BeginKeepsInv ==
  ASSUME WorkflowInv, NEW k \in Calls, NEW s \in Sessions,
         NEW what \in Kinds, NEW next \in {"fence", "commit"}, NEW for \in Nat,
         Begin(k, s, what, next, for),
         what = "reviewer" => for \in 1 .. record /\ (for = record => change \in {"none", "applied"})
  PROVE  WorkflowInv'
<1> DEFINE new == [kind |-> what, stage |-> next, by |-> s, target |-> for, fence |-> 0]
<1>1. new \in Call
  BY DEF Call
<1>2. /\ call' = [call EXCEPT ![k] = new]
      /\ UNCHANGED <<taskVars, ended, reviewed, late>>
  BY DEF Begin
<1> HIDE DEF new
<1>3. call \in [Calls -> Call \cup {NoCall}]
  BY DEF WorkflowInv, TypeOK
<1>4. TypeOK'
  BY <1>1, <1>2, <1>3 DEF WorkflowInv, TypeOK, taskVars
<1>5. \A j \in Calls : call'[j] = call[j] \/ call'[j] = new
  BY <1>2, <1>3
<1>6. new.kind = what /\ new.target = for
  BY DEF new
<1>7. ReviewInv'
  BY <1>2, <1>5, <1>6 DEF WorkflowInv, ReviewInv, taskVars
<1> QED
  BY <1>2, <1>4, <1>7 DEF WorkflowInv, EndedInv, ArchiveInv, UserCompletionStrandsNothing,
     PassedAsReviewed, ArchivedUnownedUnlessLate, Undecided, taskVars

LEMMA CallsBegin ==
  ASSUME WorkflowInv, NEW k \in Calls, NEW s \in Sessions,
         \/ Open(k, s) \/ Complete(k, s) \/ DecidePlan(k, s) \/ DecideChange(k, s)
         \/ \E role \in Roles : Invoke(k, s, role)
  PROVE  WorkflowInv'
<1>1. record \in Nat /\ drafts \in Nat
  BY DEF WorkflowInv, TypeOK
<1>2. CASE Open(k, s)
  BY <1>2, BeginKeepsInv DEF Open, Kinds
<1>3. CASE Complete(k, s)
  BY <1>3, BeginKeepsInv DEF Complete, Kinds
<1>4. CASE DecidePlan(k, s)
  <2>1. PICK r \in 1 .. drafts : Begin(k, s, "plan", "fence", r)
    BY <1>4 DEF DecidePlan
  <2>2. r \in Nat /\ "plan" \in Kinds
    BY <1>1 DEF Kinds
  <2> QED
    BY <2>1, <2>2, BeginKeepsInv
<1>5. CASE DecideChange(k, s)
  BY <1>1, <1>5, BeginKeepsInv DEF DecideChange, Kinds
<1>6. CASE \E role \in Roles : Invoke(k, s, role)
  <2>1. PICK role \in Roles : Invoke(k, s, role)
    BY <1>6
  <2>2. role \in Kinds
    BY DEF Kinds
  <2>3. Begin(k, s, role, "fence", record)
    BY <2>1 DEF Invoke
  <2>4. role = "reviewer" => record \in 1 .. record /\ change \in {"none", "applied"}
    BY <1>1, <2>1 DEF Invoke
  <2> QED
    BY <1>1, <2>2, <2>3, <2>4, BeginKeepsInv
<1> QED
  BY <1>2, <1>3, <1>4, <1>5, <1>6

LEMMA FenceKeepsInv ==
  ASSUME WorkflowInv, NEW k \in Calls, TakeFence(k)  PROVE WorkflowInv'
<1> DEFINE new == [call[k] EXCEPT !.fence = term, !.stage = "commit"]
<1>1. call[k] \in Call /\ term \in Nat /\ call \in [Calls -> Call \cup {NoCall}]
  BY DEF TakeFence, WorkflowInv, TypeOK
<1>2. new \in Call /\ new.kind = call[k].kind /\ new.target = call[k].target
  BY <1>1 DEF Call
<1>3. /\ call' = [call EXCEPT ![k] = new]
      /\ UNCHANGED <<taskVars, ended, reviewed, late>>
  BY <1>1 DEF TakeFence
<1>4. call[k] # NoCall
  BY DEF TakeFence
<1> HIDE DEF new
<1>5. TypeOK'
  BY <1>1, <1>2, <1>3 DEF WorkflowInv, TypeOK, taskVars
<1>6. \A j \in Calls : call'[j] = call[j] \/ (j = k /\ call'[j] = new)
  BY <1>1, <1>3
<1>7. ReviewInv'
  BY <1>2, <1>3, <1>4, <1>6 DEF WorkflowInv, ReviewInv, taskVars
<1> QED
  BY <1>3, <1>5, <1>7 DEF WorkflowInv, EndedInv, ArchiveInv, UserCompletionStrandsNothing,
     PassedAsReviewed, ArchivedUnownedUnlessLate, Undecided, taskVars

(* Failing and committing: the call is over.                                 *)
LEMMA CallsFinish ==
  ASSUME WorkflowInv, NEW k \in Calls, Fail(k) \/ Commit(k)
  PROVE  WorkflowInv'
<1> USE DEF WorkflowInv
<1>1. TypeOK /\ call[k] \in Call /\ call' = [call EXCEPT ![k] = NoCall]
  BY DEF TypeOK, Fail, Commit, BindTask, CommitPlan, CommitWork, CommitReview,
     CommitCompletion, CommitPlanDecision, CommitChangeDecision, Committing
<1>2. /\ call' \in [Calls -> Call \cup {NoCall}]
      /\ \A j \in Calls : call'[j] # NoCall => call'[j] = call[j]
  BY <1>1, CallEnds
<1>3. call[k].by \in Sessions /\ call[k].target \in Nat /\ call[k].fence \in Nat
  BY <1>1 DEF Call
<1>4. \A j \in Calls : call[j] # NoCall => call[j].target \in Nat
  BY <1>1 DEF TypeOK, Call
<1>5. CASE Fail(k)
  BY <1>2, <1>5 DEF Fail, TypeOK, EndedInv, ReviewInv, ArchiveInv,
     UserCompletionStrandsNothing, PassedAsReviewed, ArchivedUnownedUnlessLate, Undecided,
     taskVars
<1>6. CASE BindTask(k)
  <2>1. TypeOK'
    BY <1>2, <1>3, <1>6 DEF BindTask, TypeOK
  <2>2. ReviewInv'
    BY <1>2, <1>6 DEF BindTask, ReviewInv
  <2>3. ArchiveInv' /\ ArchivedUnownedUnlessLate'
    BY <1>6 DEF BindTask, LockFree, ArchiveInv, ArchivedUnownedUnlessLate
  <2> QED
    BY <1>6, <2>1, <2>2, <2>3 DEF BindTask, EndedInv, UserCompletionStrandsNothing,
       PassedAsReviewed, Undecided
<1>7. CASE CommitPlan(k)
  <2>1. status = "active" /\ ended = "no"
    BY <1>7 DEF CommitPlan, MayCommit, EndedInv
  <2>2. TypeOK' /\ EndedInv'
    BY <1>2, <1>7 DEF CommitPlan, TypeOK, EndedInv
  <2>3. ReviewInv'
    BY <1>2, <1>7 DEF CommitPlan, ReviewInv
  <2> QED
    BY <1>7, <2>1, <2>2, <2>3 DEF CommitPlan, ArchiveInv, UserCompletionStrandsNothing,
       PassedAsReviewed, ArchivedUnownedUnlessLate
<1>8. CASE CommitWork(k)
  <2>1. status = "active" /\ ended = "no"
    BY <1>8 DEF CommitWork, MayCommit, EndedInv
  <2>2. TypeOK' /\ EndedInv'
    BY <1>2, <1>8 DEF CommitWork, TypeOK, EndedInv, ChangeStates
  <2>3. ReviewInv'
    BY <1>2, <1>4, <1>8 DEF CommitWork, ReviewInv, TypeOK
  <2> QED
    BY <1>8, <2>1, <2>2, <2>3 DEF CommitWork, ArchiveInv, UserCompletionStrandsNothing,
       PassedAsReviewed, ArchivedUnownedUnlessLate
<1>9. CASE CommitReview(k)
  <2>1. status = "active" /\ LockFree /\ call[k] # NoCall /\ call[k].kind = "reviewer"
    BY <1>9 DEF CommitReview, Committing, MayCommit, Authority
  <2>2. PassedAsReviewed'
    BY <1>9, <2>1 DEF CommitReview, ReviewInv, PassedAsReviewed
  <2>3. TypeOK' /\ EndedInv'
    BY <1>2, <1>3, <1>9 DEF CommitReview, TypeOK, EndedInv
  <2>4. ReviewInv'
    BY <1>2, <1>9 DEF CommitReview, ReviewInv
  <2>5. ArchiveInv'
    BY <1>9, <2>1 DEF CommitReview, ArchiveInv, LockFree
  <2> QED
    BY <1>9, <2>2, <2>3, <2>4, <2>5 DEF CommitReview, UserCompletionStrandsNothing,
       ArchivedUnownedUnlessLate
<1>10. CASE CommitCompletion(k)
  <2>1. status = "active" /\ LockFree /\ draft = 0 /\ ~Undecided
    BY <1>10 DEF CommitCompletion, MayComplete, Authority
  <2>2. TypeOK' /\ EndedInv'
    BY <1>2, <1>10 DEF CommitCompletion, TypeOK, EndedInv
  <2>3. ReviewInv'
    BY <1>2, <1>10 DEF CommitCompletion, ReviewInv
  <2>4. ArchiveInv'
    BY <1>10, <2>1 DEF CommitCompletion, ArchiveInv, LockFree
  <2> QED
    BY <1>10, <2>1, <2>2, <2>3, <2>4 DEF CommitCompletion, UserCompletionStrandsNothing,
       PassedAsReviewed, ArchivedUnownedUnlessLate, Undecided
<1>11. CASE CommitPlanDecision(k)
  <2>1. TypeOK' /\ EndedInv'
    BY <1>2, <1>11 DEF CommitPlanDecision, TypeOK, EndedInv
  <2>2. ReviewInv'
    BY <1>2, <1>11 DEF CommitPlanDecision, ReviewInv
  <2> QED
    BY <1>11, <2>1, <2>2 DEF CommitPlanDecision, ArchiveInv, UserCompletionStrandsNothing,
       PassedAsReviewed, ArchivedUnownedUnlessLate, Undecided
<1>12. CASE CommitChangeDecision(k)
  <2>1. /\ change \in {"pending", "applying_interrupted"} /\ change' \in ChangeStates
        /\ UNCHANGED <<status, place, holder, term, draft, drafts, record, archiving, ended,
                       reviewed, late>>
    BY <1>12 DEF CommitChangeDecision, Decides
  <2>2. TypeOK' /\ EndedInv'
    BY <1>2, <2>1 DEF TypeOK, EndedInv
  <2>3. ReviewInv'
    BY <1>2, <2>1 DEF ReviewInv
  <2> QED
    BY <2>1, <2>2, <2>3 DEF ArchiveInv, UserCompletionStrandsNothing, PassedAsReviewed,
       ArchivedUnownedUnlessLate, Undecided
<1> QED
  BY <1>5, <1>6, <1>7, <1>8, <1>9, <1>10, <1>11, <1>12 DEF Commit

(* A release, and the steps of an archive, which touch no call.              *)
LEMMA ReleasesKeepInv ==
  ASSUME WorkflowInv,
         \/ Release \/ ArchiveTask \/ ArchiveReleases \/ ArchiveMarks \/ ArchiveMoves
         \/ ArchiveDies
  PROVE  WorkflowInv'
<1> USE DEF WorkflowInv, Archive, LockFree
<1>1. /\ UNCHANGED <<term, draft, drafts, record, change, call, ended, reviewed, late>>
      /\ holder' \in {holder, NoSession}
  BY DEF Release, ArchiveTask, ArchiveReleases, ArchiveMarks, ArchiveMoves, ArchiveDies
<1>2. /\ status' = status \/ (status = "completed" /\ status' = "archived")
      /\ place' \in {place, "archive"}
      /\ archiving' \in {"no", "release", "status", "move"}
  BY DEF Release, ArchiveTask, ArchiveReleases, ArchiveMarks, ArchiveMoves, ArchiveDies,
     ArchiveInv, TypeOK
<1>3. ArchiveInv' /\ ArchivedUnownedUnlessLate'
  BY <1>1 DEF Release, ArchiveTask, ArchiveReleases, ArchiveMarks, ArchiveMoves,
     ArchiveDies, ArchiveInv, ArchivedUnownedUnlessLate
<1>4. TypeOK'
  BY <1>1, <1>2 DEF TypeOK
<1> QED
  BY <1>1, <1>2, <1>3, <1>4 DEF EndedInv, ReviewInv, UserCompletionStrandsNothing,
     PassedAsReviewed, Undecided

LEMMA WorkflowStepKeepsInv == ASSUME WorkflowInv, [Next]_vars  PROVE WorkflowInv'
<1>1. CASE UNCHANGED vars
  BY <1>1 DEF vars, taskVars, WorkflowInv, TypeOK, EndedInv, ReviewInv, ArchiveInv,
     UserCompletionStrandsNothing, PassedAsReviewed, ArchivedUnownedUnlessLate, Undecided
<1> QED
  BY <1>1, CallsBegin, FenceKeepsInv, CallsFinish, ReleasesKeepInv DEF Next

(* The inductive invariant of the life of a task.                            *)
THEOREM WorkflowInvariant == Spec => []WorkflowInv
BY WorkflowInitially, WorkflowStepKeepsInv, PTL DEF Spec

(* Nothing waits for a decision on a task its user completed.                *)
THEOREM NothingStranded == Spec => []UserCompletionStrandsNothing
<1>1. WorkflowInv => UserCompletionStrandsNothing
  BY DEF WorkflowInv
<1> QED
  BY <1>1, WorkflowInvariant, PTL

(* A PASS on the newest record is a PASS on applied or unchanging work.      *)
THEOREM PassesAsReviewed == Spec => []PassedAsReviewed
<1>1. WorkflowInv => PassedAsReviewed
  BY DEF WorkflowInv
<1> QED
  BY <1>1, WorkflowInvariant, PTL

(* No archive, crashed or not, leaves an owner.                              *)
THEOREM ArchivesUnowned == Spec => []ArchivedUnownedUnlessLate
<1>1. WorkflowInv => ArchivedUnownedUnlessLate
  BY DEF WorkflowInv
<1> QED
  BY <1>1, WorkflowInvariant, PTL

(* An ended task gets no draft and no record, and stays ended.               *)
THEOREM EndIsFinal == Spec => NothingNewAfterTheEnd
<1> DEFINE Final == status # "active" =>
              /\ status' # "active" /\ record' = record /\ draft' \in {draft, 0}
<1>1. ASSUME WorkflowInv, Next  PROVE Final
  <2>1. CASE \E k \in Calls, s \in Sessions :
               \/ Open(k, s) \/ Complete(k, s) \/ DecidePlan(k, s) \/ DecideChange(k, s)
               \/ \E role \in Roles : Invoke(k, s, role)
    BY <2>1 DEF Open, Complete, DecidePlan, DecideChange, Invoke, Begin, taskVars
  <2>2. CASE \E k \in Calls : TakeFence(k) \/ Fail(k) \/ Commit(k)
    BY <2>2 DEF TakeFence, Fail, Commit, BindTask, CommitPlan, CommitWork, CommitReview,
       CommitCompletion, CommitPlanDecision, CommitChangeDecision, MayCommit, MayComplete,
       taskVars
  <2>3. CASE \/ Release \/ ArchiveTask \/ ArchiveReleases \/ ArchiveMarks \/ ArchiveMoves
             \/ ArchiveDies
    BY <2>3 DEF Release, ArchiveTask, ArchiveReleases, ArchiveMarks, ArchiveMoves,
       ArchiveDies, Archive
  <2> QED
    BY <1>1, <2>1, <2>2, <2>3 DEF Next
<1>2. WorkflowInv /\ [Next]_vars => [Final]_vars
  BY <1>1
<1> QED
  BY <1>2, WorkflowInvariant, PTL DEF Spec, NothingNewAfterTheEnd
=============================================================================
