------------------------------ MODULE PlanDraft ------------------------------
(***************************************************************************)
(* PlanManager: the plan files of one task.  A draft has a content and,    *)
(* beside it, metadata with its revision id and the hash of the content it *)
(* was made for; accepting promotes it to the current plan, whose          *)
(* predecessor goes to the archive.  All of it happens under the plan      *)
(* mutation lock, but a crash may fall between any two writes.             *)
(*                                                                         *)
(* As in TaskOwnership an operation takes the lock, makes its reads and    *)
(* then its writes: "step" is the next one.  A content stands for its hash.*)
(* "made" numbers the drafts; the code has no such number and no guard     *)
(* looks at it.                                                            *)
(***************************************************************************)
EXTENDS Naturals

CONSTANTS
  Contents,      \* plan texts
  NoFile,        \* the file does not exist
  MaxSaves,      \* bound: drafts saved
  MaxRevisions   \* bound: revision ids generated

Plan  == [content : Contents, made : Nat]
Meta  == [revision : Nat, hash : Contents]
View  == [revision : Nat, plan : Plan]
Verdict == [revision : Nat, plan : Plan, accepted : BOOLEAN]
Unasked == 0     \* no expected revision; the ids of drafts start at 1

ASSUME FilesAssumption == NoFile \notin Plan \cup Meta
ASSUME SavesAssumption == MaxSaves \in Nat /\ MaxRevisions \in Nat

VARIABLES
  draft,     \* draft.md
  meta,      \* draft.meta.json
  current,   \* current.md
  archive,   \* complete files of archive/
  step,      \* the next write of the operation that has the lock
  next,      \* what follows it
  writing,   \* the content a save is about to write
  asked,     \* the revision a decision was asked for
  saves,     \* drafts saved so far
  minted,    \* revision ids generated so far
  shown,     \* history: revisions returned for review, with the draft
  decided,   \* history: decisions that took effect
  promoted   \* history: plans that were the current one

planFiles   == <<draft, meta, current, archive>>
planHistory == <<shown, decided, promoted>>
planVars    == <<planFiles, step, next, writing, asked, saves, minted, planHistory>>

PlanSteps == {"idle", "write", "stamp", "preserve", "promote", "retire",
              "unstamp", "undraft"}

PlanTypeOK ==
  /\ draft \in Plan \cup {NoFile} /\ current \in Plan \cup {NoFile}
  /\ meta \in Meta \cup {NoFile}
  /\ archive \subseteq Plan /\ promoted \subseteq Plan
  /\ step \in PlanSteps /\ next \in PlanSteps
  /\ writing \in Contents \cup {NoFile}
  /\ asked \in Nat /\ saves \in Nat /\ minted \in Nat
  /\ shown \subseteq View /\ decided \subseteq Verdict

\* A draft from before revisions has no metadata.
PlanInit ==
  /\ draft \in [content : Contents, made : {0}] \cup {NoFile}
  /\ meta = NoFile /\ current = NoFile /\ archive = {}
  /\ step = "idle" /\ next = "idle" /\ writing = NoFile /\ asked = Unasked
  /\ saves = 0 /\ minted = 0
  /\ shown = {} /\ decided = {} /\ promoted = {}

\* A bug: the hash is not compared.
UsableUnhashed == draft # NoFile /\ meta # NoFile
\* readUsableMetadata: metadata is trusted only for the bytes it was made for.
Usable == draft # NoFile /\ meta # NoFile /\ meta.hash = draft.content

-----------------------------------------------------------------------------
(* An operation takes the lock. *)

PlanEnter(first, then) ==
  /\ step = "idle" /\ step' = first /\ next' = then
  /\ UNCHANGED <<planFiles, minted, planHistory>>

SaveDraft(c) ==
  /\ saves < MaxSaves /\ saves' = saves + 1
  /\ PlanEnter("write", "stamp") /\ writing' = c /\ UNCHANGED asked

Decide(r, first, then) ==
  /\ PlanEnter(first, then) /\ asked' = r /\ UNCHANGED <<writing, saves>>

\* getDraftWithRevision, when the draft has usable metadata.
ShowDraft ==
  /\ step = "idle" /\ Usable
  /\ shown' = shown \cup {[revision |-> meta.revision, plan |-> draft]}
  /\ UNCHANGED <<planFiles, step, next, writing, asked, saves, minted, decided, promoted>>

\* Otherwise it gives the draft a fresh revision first.
HydrateDraft ==
  /\ draft # NoFile /\ ~Usable
  /\ PlanEnter("stamp", "idle") /\ UNCHANGED <<writing, asked, saves>>

\* A bug: the current plan is replaced without being preserved.
AcceptOverwriting(r) ==
  /\ draft # NoFile /\ (r # Unasked => Usable /\ meta.revision = r)
  /\ Decide(r, "promote", "unstamp")

\* The Unasked form is PlanOperations.acceptPlan, of the library interface.
AcceptDraft(r) ==
  /\ draft # NoFile /\ (r # Unasked => Usable /\ meta.revision = r)
  /\ Decide(r, IF current = NoFile THEN "promote" ELSE "preserve", "unstamp")

RejectDraft(r) ==
  /\ Usable /\ meta.revision = r
  /\ Decide(r, "unstamp", "undraft")

ArchiveCurrent ==
  /\ current # NoFile
  /\ PlanEnter("preserve", "retire") /\ UNCHANGED <<writing, asked, saves>>

-----------------------------------------------------------------------------
(* The writes of the operation that has the lock. *)

PlanGoto(to) ==
  /\ step' = to /\ next' = IF to = "idle" THEN "idle" ELSE next
  /\ asked' = IF to = "idle" THEN Unasked ELSE asked

WriteDraft ==
  /\ step = "write"
  /\ draft' = [content |-> writing, made |-> saves]
  /\ writing' = NoFile /\ PlanGoto("stamp")
  /\ UNCHANGED <<meta, current, archive, saves, minted, planHistory>>

(* writeMetadata, for a save and for a review; the review returns it.        *)
StampDraft ==
  /\ step = "stamp" /\ minted < MaxRevisions
  /\ minted' = minted + 1
  /\ meta' = [revision |-> minted + 1, hash |-> draft.content]
  /\ shown' = IF next = "idle"
              THEN shown \cup {[revision |-> minted + 1, plan |-> draft]}
              ELSE shown
  /\ PlanGoto("idle")
  /\ UNCHANGED <<draft, current, archive, writing, saves, decided, promoted>>

(* preserveInArchive: a file of a fresh name.  A crash before it is complete *)
(* leaves a partial file that nothing reads.                                 *)
Preserve ==
  /\ step = "preserve" /\ archive' = archive \cup {current}
  /\ PlanGoto(IF next = "retire" THEN "retire" ELSE "promote")
  /\ UNCHANGED <<draft, meta, current, writing, saves, minted, planHistory>>

\* The rename that makes the draft the current plan.
Promote ==
  /\ step = "promote"
  /\ current' = draft /\ draft' = NoFile
  /\ promoted' = promoted \cup {draft}
  /\ decided' = IF asked = Unasked THEN decided
                ELSE decided \cup {[revision |-> asked, plan |-> draft, accepted |-> TRUE]}
  /\ PlanGoto("unstamp")
  /\ UNCHANGED <<meta, archive, writing, saves, minted, shown>>

RetireCurrent ==
  /\ step = "retire" /\ current' = NoFile /\ PlanGoto("idle")
  /\ UNCHANGED <<draft, meta, archive, writing, saves, minted, planHistory>>

\* A bug: a rejection leaves the metadata where it is.
RemoveMetadataOfAccepted ==
  /\ step = "unstamp" /\ meta' = IF next = "undraft" THEN meta ELSE NoFile
  /\ PlanGoto(IF next = "undraft" THEN "undraft" ELSE "idle")
  /\ decided' = IF next = "undraft"
                THEN decided \cup {[revision |-> asked, plan |-> draft, accepted |-> FALSE]}
                ELSE decided
  /\ UNCHANGED <<draft, current, archive, writing, saves, minted, shown, promoted>>

\* The metadata goes: after a promotion, or first in a rejection.
RemoveMetadata ==
  /\ step = "unstamp" /\ meta' = NoFile
  /\ PlanGoto(IF next = "undraft" THEN "undraft" ELSE "idle")
  /\ decided' = IF next = "undraft"
                THEN decided \cup {[revision |-> asked, plan |-> draft, accepted |-> FALSE]}
                ELSE decided
  /\ UNCHANGED <<draft, current, archive, writing, saves, minted, shown, promoted>>

RemoveDraft ==
  /\ step = "undraft" /\ draft' = NoFile
  /\ PlanGoto("idle")
  /\ UNCHANGED <<meta, current, archive, writing, saves, minted, planHistory>>

(* The process dies, or a write throws.                                      *)
PlanAbandon ==
  /\ step # "idle" /\ PlanGoto("idle") /\ writing' = NoFile
  /\ UNCHANGED <<planFiles, saves, minted, planHistory>>

PlanPerform ==
  \/ WriteDraft \/ StampDraft \/ Preserve \/ Promote \/ RetireCurrent
  \/ RemoveMetadata \/ RemoveDraft

\* A reviewer decides a revision that was shown; acceptPlan takes what is there.
DecideDraft ==
  \/ \E v \in shown : AcceptDraft(v.revision) \/ RejectDraft(v.revision)
  \/ AcceptDraft(Unasked)

PlanNext ==
  \/ \E c \in Contents : SaveDraft(c)
  \/ ShowDraft \/ HydrateDraft \/ DecideDraft \/ ArchiveCurrent
  \/ PlanPerform \/ PlanAbandon

PlanSpec == PlanInit /\ [][PlanNext]_planVars

-----------------------------------------------------------------------------
(* A draft is decided under a revision only if what was shown under that     *)
(* revision was its very content: the metadata of an earlier draft, left by  *)
(* a crash, never vouches for a different text (plan-manager.ts:135-138).    *)
DecidedAsReviewed ==
  \A v \in shown, d \in decided :
    v.revision = d.revision => v.plan.content = d.plan.content

(* No plan that was ever accepted is lost, wherever an acceptance, another   *)
(* one or an archiving is cut short: it is the current plan or archived.     *)
AcceptedPlansKept ==
  \A p \in promoted : p = current \/ p \in archive

(* "the rejected revision can never be decided again" (plan-manager.ts:264), *)
(* not even after a crash between the two removals.                          *)
RejectedForGood ==
  \A d \in decided : ~d.accepted => meta = NoFile \/ meta.revision # d.revision

-----------------------------------------------------------------------------
(* The inductive invariant behind them.  A revision that was shown, decided  *)
(* or is in the metadata was minted for one content, and neither a save nor  *)
(* a crash gives it to another.                                              *)
OneContentPerRevision ==
  /\ \A v \in shown : v.revision \in 1 .. minted
  /\ \A d \in decided : d.revision \in 1 .. minted
  /\ meta # NoFile =>
       /\ meta.revision \in 1 .. minted
       /\ \A v \in shown : v.revision = meta.revision => v.plan.content = meta.hash
       /\ \A d \in decided : d.revision = meta.revision => d.plan.content = meta.hash

\* A decision still finds the draft and the metadata it checked.
AskedOfDraft == draft # NoFile /\ (asked # Unasked => Usable /\ meta.revision = asked)

\* What the operation that has the lock still knows of the files it read.
PlanStageInv ==
  /\ step = "write" => writing \in Contents /\ next = "stamp"
  /\ step = "stamp" => draft # NoFile /\ next \in {"idle", "stamp"}
  /\ step = "preserve" => current # NoFile /\ next \in {"unstamp", "retire"}
  /\ step \in {"preserve", "promote"} /\ next = "unstamp" => AskedOfDraft
  /\ step = "promote" => /\ next = "unstamp"
                         /\ current # NoFile => current \in archive
  /\ step = "retire" => next = "retire" /\ current \in archive
  /\ step = "unstamp" => /\ next \in {"unstamp", "undraft"}
                         /\ next = "undraft" => AskedOfDraft /\ asked # Unasked
  /\ step = "undraft" => next = "undraft"

PlanInv ==
  /\ PlanTypeOK /\ OneContentPerRevision /\ PlanStageInv
  /\ DecidedAsReviewed /\ AcceptedPlansKept /\ RejectedForGood
=============================================================================
