--------------------------- MODULE PlanDraftProofs ---------------------------
(* The files of one plan, for any texts and any number of saves, decisions   *)
(* and crashes.  PlanInv is inductive: an operation knows the files it read  *)
(* (PlanStageInv) and a revision is never minted twice nor kept for another  *)
(* text (OneContentPerRevision).                                             *)
EXTENDS PlanDraft, TLAPS

LEMMA PlanInitially == PlanInit => PlanInv
BY FilesAssumption DEF PlanInit, PlanInv, PlanTypeOK, OneContentPerRevision, PlanStageInv,
   DecidedAsReviewed, AcceptedPlansKept, RejectedForGood, PlanSteps, Unasked, Plan

(* Every operation takes the lock with files it has just read.               *)
LEMMA PlanOperationsStart ==
  ASSUME PlanInv,
         \/ \E c \in Contents : SaveDraft(c)
         \/ HydrateDraft \/ DecideDraft \/ ArchiveCurrent
  PROVE  PlanInv'
<1> USE DEF PlanInv
<1>1. PICK first \in {"write", "stamp", "preserve", "promote", "unstamp"},
           then \in PlanSteps : PlanEnter(first, then)
  BY DEF SaveDraft, HydrateDraft, DecideDraft, ArchiveCurrent, AcceptDraft,
     RejectDraft, Decide, PlanSteps
<1>2. PlanTypeOK'
  BY <1>1 DEF PlanTypeOK, PlanEnter, planFiles, planHistory, SaveDraft, HydrateDraft,
     DecideDraft, ArchiveCurrent, AcceptDraft, RejectDraft, Decide, PlanSteps, Unasked, View
<1>3. PlanStageInv'
  <2>1. CASE \E c \in Contents : SaveDraft(c)
    BY <2>1 DEF SaveDraft, PlanEnter, PlanStageInv, planFiles
  <2>2. CASE HydrateDraft
    BY <2>2 DEF HydrateDraft, PlanEnter, PlanStageInv, planFiles
  <2>3. CASE DecideDraft
    <3>1. CASE \E v \in shown : RejectDraft(v.revision)
      <4>1. PICK v \in shown : RejectDraft(v.revision)
        BY <3>1
      <4>2. v.revision # Unasked
        BY DEF OneContentPerRevision, Unasked, PlanTypeOK
      <4> QED
        BY <4>1, <4>2 DEF RejectDraft, Decide, PlanEnter, PlanStageInv, planFiles,
           AskedOfDraft, Usable
    <3>2. ASSUME NEW r, AcceptDraft(r)  PROVE PlanStageInv'
      BY <3>2 DEF AcceptDraft, Decide, PlanEnter, PlanStageInv, planFiles,
         AskedOfDraft, Usable
    <3> QED
      BY <2>3, <3>1, <3>2 DEF DecideDraft
  <2>4. CASE ArchiveCurrent
    BY <2>4 DEF ArchiveCurrent, PlanEnter, PlanStageInv, planFiles
  <2> QED
    BY <2>1, <2>2, <2>3, <2>4
<1> QED
  BY <1>1, <1>2, <1>3 DEF PlanEnter, planFiles, planHistory, OneContentPerRevision,
     DecidedAsReviewed, AcceptedPlansKept, RejectedForGood

LEMMA ShowKeepsInv == ASSUME PlanInv, ShowDraft  PROVE PlanInv'
<1> USE DEF PlanInv, ShowDraft, Usable
<1>1. meta \in Meta /\ draft \in Plan
  BY DEF PlanTypeOK
<1>2. PlanTypeOK'
  BY <1>1 DEF PlanTypeOK, planFiles, View, Meta, Plan
<1>3. PlanStageInv'
  BY DEF PlanStageInv, planFiles
<1>4. \A v \in shown' : v \in shown \/ (v.revision = meta.revision /\ v.plan.content = meta.hash)
  OBVIOUS
<1>5. OneContentPerRevision'
  BY <1>4 DEF OneContentPerRevision, planFiles
<1>6. DecidedAsReviewed'
  BY <1>4 DEF DecidedAsReviewed, OneContentPerRevision, planFiles
<1> QED
  BY <1>2, <1>3, <1>5, <1>6 DEF AcceptedPlansKept, RejectedForGood, planFiles

LEMMA WriteKeepsInv == ASSUME PlanInv, WriteDraft  PROVE PlanInv'
<1> USE DEF PlanInv, WriteDraft, PlanGoto, planHistory
<1>1. draft' \in Plan /\ draft' # NoFile
  BY FilesAssumption DEF PlanTypeOK, PlanStageInv, Plan
<1>2. PlanTypeOK'
  BY <1>1 DEF PlanTypeOK, PlanSteps
<1>3. PlanStageInv'
  BY <1>1 DEF PlanStageInv
<1> QED
  BY <1>2, <1>3 DEF OneContentPerRevision, DecidedAsReviewed, AcceptedPlansKept,
     RejectedForGood

(* A stamp mints a revision nobody has seen or decided.                      *)
LEMMA StampKeepsInv == ASSUME PlanInv, StampDraft  PROVE PlanInv'
<1> USE DEF PlanInv, StampDraft, PlanGoto
<1>1. draft \in Plan
  BY DEF PlanTypeOK, PlanStageInv
<1>2. /\ meta' \in Meta /\ meta' # NoFile
      /\ meta'.revision = minted + 1 /\ meta'.hash = draft.content
  BY <1>1, FilesAssumption DEF Meta, Plan, PlanTypeOK
<1>3. PlanTypeOK'
  BY <1>1, <1>2 DEF PlanTypeOK, PlanSteps, Unasked, View
<1>4. PlanStageInv'
  BY DEF PlanStageInv
<1>5. \A v \in shown' : v \in shown \/ (v.revision = minted + 1 /\ v.plan = draft)
  OBVIOUS
<1>6. /\ \A v \in shown : v.revision \in 1 .. minted
      /\ \A d \in decided : d.revision \in 1 .. minted
  BY DEF OneContentPerRevision
<1>7. OneContentPerRevision'
  BY <1>2, <1>5, <1>6 DEF OneContentPerRevision, PlanTypeOK
<1>8. DecidedAsReviewed'
  BY <1>5, <1>6 DEF DecidedAsReviewed, PlanTypeOK
<1>9. RejectedForGood'
  BY <1>2, <1>6 DEF RejectedForGood, PlanTypeOK
<1> QED
  BY <1>3, <1>4, <1>7, <1>8, <1>9 DEF AcceptedPlansKept

LEMMA PreserveKeepsInv == ASSUME PlanInv, Preserve  PROVE PlanInv'
<1> USE DEF PlanInv, Preserve, PlanGoto, planHistory
<1>1. PlanTypeOK'
  BY DEF PlanTypeOK, PlanStageInv, PlanSteps, Unasked
<1>2. PlanStageInv'
  BY DEF PlanStageInv, AskedOfDraft, Usable
<1> QED
  BY <1>1, <1>2 DEF OneContentPerRevision, DecidedAsReviewed, AcceptedPlansKept,
     RejectedForGood

(* The revision a decision was asked for is still that of the metadata, so   *)
(* whatever was shown or decided under it has the content of the draft.      *)
LEMMA DecisionKeepsInv ==
  ASSUME PlanInv, AskedOfDraft, asked # Unasked, NEW yes \in BOOLEAN,
         UNCHANGED <<shown, minted, archive>>,
         decided' = decided \cup {[revision |-> asked, plan |-> draft, accepted |-> yes]}
  PROVE  /\ decided' \subseteq Verdict
         /\ DecidedAsReviewed'
         /\ \A d \in decided' : d.revision \in 1 .. minted
         /\ \A d \in decided' : d \in decided
              \/ d = [revision |-> asked, plan |-> draft, accepted |-> yes]
         /\ \A d \in decided' : d.revision = meta.revision => d.plan.content = meta.hash
<1> USE DEF PlanInv, AskedOfDraft, Usable
<1>1. draft \in Plan /\ asked \in Nat /\ decided \subseteq Verdict
  BY DEF PlanTypeOK
<1>2. [revision |-> asked, plan |-> draft, accepted |-> yes] \in Verdict
  BY <1>1 DEF Verdict
<1>3. \A d \in decided' : d \in decided
              \/ d = [revision |-> asked, plan |-> draft, accepted |-> yes]
  OBVIOUS
<1>4. \A v \in shown : v.revision = asked => v.plan.content = draft.content
  BY DEF OneContentPerRevision
<1> QED
  BY <1>1, <1>2, <1>3, <1>4 DEF OneContentPerRevision, DecidedAsReviewed

LEMMA PromoteKeepsInv == ASSUME PlanInv, Promote  PROVE PlanInv'
<1> USE DEF PlanInv, Promote, PlanGoto
<1>1. AskedOfDraft /\ draft \in Plan /\ step' = "unstamp" /\ next' = "unstamp"
  BY DEF PlanStageInv, AskedOfDraft, PlanTypeOK
<1>2. AcceptedPlansKept'
  BY <1>1, FilesAssumption DEF AcceptedPlansKept, PlanStageInv, PlanTypeOK
<1>3. PlanStageInv'
  BY <1>1 DEF PlanStageInv
<1>4. CASE asked = Unasked
  <2>1. PlanTypeOK'
    BY <1>1, <1>4 DEF PlanTypeOK, PlanSteps
  <2> QED
    BY <1>2, <1>3, <1>4, <2>1 DEF OneContentPerRevision, DecidedAsReviewed, RejectedForGood
<1>5. CASE asked # Unasked
  <2>1. decided' = decided \cup {[revision |-> asked, plan |-> draft, accepted |-> TRUE]}
    BY <1>5
  <2>2. /\ decided' \subseteq Verdict
        /\ DecidedAsReviewed'
        /\ \A d \in decided' : d.revision \in 1 .. minted
        /\ \A d \in decided' : d \in decided
             \/ d = [revision |-> asked, plan |-> draft, accepted |-> TRUE]
        /\ \A d \in decided' : d.revision = meta.revision => d.plan.content = meta.hash
    BY <1>1, <1>5, <2>1, DecisionKeepsInv
  <2>3. PlanTypeOK'
    BY <1>1, <2>2 DEF PlanTypeOK, PlanSteps
  <2>4. OneContentPerRevision'
    BY <2>2 DEF OneContentPerRevision
  <2>5. RejectedForGood'
    BY <2>2 DEF RejectedForGood
  <2> QED
    BY <1>2, <1>3, <2>2, <2>3, <2>4, <2>5
<1> QED
  BY <1>4, <1>5

LEMMA RetireKeepsInv == ASSUME PlanInv, RetireCurrent  PROVE PlanInv'
<1> USE DEF PlanInv, RetireCurrent, PlanGoto, planHistory
<1>1. PlanTypeOK'
  BY DEF PlanTypeOK, PlanSteps, Unasked
<1>2. PlanStageInv'
  BY DEF PlanStageInv
<1>3. AcceptedPlansKept'
  BY DEF AcceptedPlansKept, PlanStageInv
<1> QED
  BY <1>1, <1>2, <1>3 DEF OneContentPerRevision, DecidedAsReviewed, RejectedForGood

LEMMA RemoveMetadataKeepsInv == ASSUME PlanInv, RemoveMetadata  PROVE PlanInv'
<1> USE DEF PlanInv, RemoveMetadata, PlanGoto
<1>1. PlanStageInv'
  BY DEF PlanStageInv
<1>2. meta' = NoFile /\ RejectedForGood' /\ AcceptedPlansKept'
  BY DEF RejectedForGood, AcceptedPlansKept
<1>3. CASE next = "undraft"
  <2>1. AskedOfDraft /\ asked # Unasked
    BY <1>3 DEF PlanStageInv
  <2>2. decided' = decided \cup {[revision |-> asked, plan |-> draft, accepted |-> FALSE]}
    BY <1>3
  <2>3. /\ decided' \subseteq Verdict
        /\ DecidedAsReviewed'
        /\ \A d \in decided' : d.revision \in 1 .. minted
    BY <2>1, <2>2, DecisionKeepsInv
  <2>4. PlanTypeOK'
    BY <1>2, <1>3, <2>3 DEF PlanTypeOK, PlanSteps
  <2> QED
    BY <1>1, <1>2, <2>3, <2>4 DEF OneContentPerRevision
<1>4. CASE next # "undraft"
  <2>1. PlanTypeOK'
    BY <1>2, <1>4 DEF PlanTypeOK, PlanSteps, Unasked
  <2> QED
    BY <1>1, <1>2, <1>4, <2>1 DEF OneContentPerRevision, DecidedAsReviewed
<1> QED
  BY <1>3, <1>4

LEMMA CutShortKeepsInv == ASSUME PlanInv, RemoveDraft \/ PlanAbandon  PROVE PlanInv'
<1> USE DEF PlanInv, RemoveDraft, PlanAbandon, PlanGoto, planFiles, planHistory
<1>1. PlanTypeOK'
  BY DEF PlanTypeOK, PlanSteps, Unasked
<1>2. PlanStageInv'
  BY DEF PlanStageInv
<1> QED
  BY <1>1, <1>2 DEF OneContentPerRevision, DecidedAsReviewed, AcceptedPlansKept,
     RejectedForGood

LEMMA PlanStepKeepsInv == ASSUME PlanInv, [PlanNext]_planVars  PROVE PlanInv'
<1>1. CASE UNCHANGED planVars
  BY <1>1 DEF planVars, planFiles, planHistory, PlanInv, PlanTypeOK, PlanStageInv,
     OneContentPerRevision, DecidedAsReviewed, AcceptedPlansKept, RejectedForGood,
     AskedOfDraft, Usable
<1> QED
  BY <1>1, PlanOperationsStart, ShowKeepsInv, WriteKeepsInv, StampKeepsInv,
     PreserveKeepsInv, PromoteKeepsInv, RetireKeepsInv, RemoveMetadataKeepsInv,
     CutShortKeepsInv DEF PlanNext, PlanPerform

(* The inductive invariant of one task's plan files.                         *)
THEOREM PlanInvariant == PlanSpec => []PlanInv
BY PlanInitially, PlanStepKeepsInv, PTL DEF PlanSpec

(* No decision applies to a text other than the one shown under its          *)
(* revision: the stale-review fence of PlanManager.acceptDraft, crashes      *)
(* between the draft and its metadata included.                              *)
THEOREM DecisionsAreReviewed == PlanSpec => []DecidedAsReviewed
<1>1. PlanInv => DecidedAsReviewed
  BY DEF PlanInv
<1> QED
  BY <1>1, PlanInvariant, PTL

(* An accepted plan is the current one or in the archive, for ever.          *)
THEOREM AcceptedPlansSurvive == PlanSpec => []AcceptedPlansKept
<1>1. PlanInv => AcceptedPlansKept
  BY DEF PlanInv
<1> QED
  BY <1>1, PlanInvariant, PTL

(* A rejected revision is in no metadata again.                              *)
THEOREM RejectionsAreFinal == PlanSpec => []RejectedForGood
<1>1. PlanInv => RejectedForGood
  BY DEF PlanInv
<1> QED
  BY <1>1, PlanInvariant, PTL
=============================================================================
