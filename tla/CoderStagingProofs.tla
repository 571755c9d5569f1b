------------------------- MODULE CoderStagingProofs -------------------------
(***************************************************************************)
(* What CoderStaging promises for any runs, agents, commits and programs:  *)
(* what is published, what is reported and what is left on disk.           *)
(***************************************************************************)
EXTENDS CoderStaging, TLAPS

CallFields == {"pc", "agent", "config", "policy", "fence", "base", "answer", "manifest", "tree", "patch",
               "outcome", "leaks", "undisposed", "unreleased", "restaged"}
StageFields == {"work", "index", "remote"}
Closing == {"release", "dispose", "ended", "crashed"}

(* The clone of a run, and from "manifest" on its index, are on the commit   *)
(* the run started from.                                                     *)
OnBase(k, tree) == "base" \in DOMAIN tree /\ tree.base = call[k].base
Cloned(k) == call[k].agent = "coder" /\ call[k].pc \in {"owned", "spawn", "running", "answer"} \cup Capturing

(* What the capture has collected by each of its steps is of one index.      *)
CapturedSoFar(k) ==
  /\ call[k].pc \in {"tree", "patch"} => call[k].manifest = staged[k].index
  /\ call[k].pc = "patch" => call[k].tree = staged[k].index
  /\ call[k].pc = "audit" /\ call[k].manifest # NoTree =>
       staged[k].index = call[k].manifest /\ call[k].tree = call[k].manifest /\ call[k].patch = call[k].manifest
OneTree(k) ==
  /\ call[k].tree = call[k].manifest /\ call[k].patch = call[k].manifest
  /\ call[k].manifest.base = call[k].base /\ ~call[k].manifest.unsafe

(* What is on disk agrees with how far the run is.                           *)
Written(k) ==
  /\ call[k].pc \in {"lock", "lifecycle"} => call[k].manifest = NoTree \/ call[k].restaged \/ OneTree(k)
  /\ call[k].pc = "publish" \/ change[k] # "none" =>
       call[k].manifest # NoTree /\ (call[k].restaged \/ OneTree(k))
  /\ change[k] # "none" => call[k].pc \in {"publish", "record", "complete"} \cup Closing /\ ~EmptyPatch(k)
  /\ call[k].pc = "record" => call[k].manifest = NoTree \/ EmptyPatch(k) \/ change[k] = "published"
  /\ call[k].pc = "complete" => work[k] = "pass" /\ Passes(call[k].answer)
  /\ work[k] # "none" => call[k].pc \in {"complete"} \cup Closing
  /\ work[k] = "linked" => change[k] = "published"
Reported(k) ==
  /\ call[k].outcome # "none" => call[k].pc \in Closing
  /\ call[k].pc \in {"release", "dispose"} => ~call[k].undisposed
  /\ call[k].pc = "release" => call[k].outcome = "returned"
  /\ call[k].outcome = "returned" /\ call[k].pc # "crashed" => work[k] = RecordWanted(k)
  /\ call[k].outcome = "failed" /\ ~call[k].undisposed /\ ~call[k].unreleased => work[k] \in {"none", "pass"}
  /\ call[k].undisposed => call[k].pc \in {"ended", "crashed"}

RunInv(k) ==
  /\ DOMAIN call[k] = CallFields /\ DOMAIN staged[k] = StageFields
  /\ call[k].pc \in {"idle", "config", "fence", "spawn", "running", "answer"} \cup Preparing \cup {"add", "manifest"}
       => call[k].manifest = NoTree
  /\ call[k].pc \in Preparing \cup Capturing => call[k].agent = "coder"
  /\ Cloned(k) => OnBase(k, staged[k].work)
  /\ call[k].pc \in Capturing \ {"add"} => OnBase(k, staged[k].index)
  /\ call[k].restaged \/ CapturedSoFar(k)
  /\ Written(k) /\ Reported(k)
  /\ call[k].pc = "ended" /\ ~call[k].undisposed /\ ~call[k].leaks => temps[k] = {}

StagingInv ==
  /\ DOMAIN call = Calls /\ DOMAIN staged = Calls /\ DOMAIN temps = Calls /\ DOMAIN change = Calls /\ DOMAIN work = Calls
  /\ \A k \in Calls : RunInv(k)

LEMMA StagingInit == Init => StagingInv
BY DEF Init, StagingInv, RunInv, CallFields, StageFields, NoCall, NoStage, Preparing, Capturing, Cloned, CapturedSoFar,
       Written, Reported, Closing

(* A step of one run leaves the others as they are.                          *)
LEMMA OneRunSteps ==
  ASSUME StagingInv, NEW k \in Calls,
         call' = call \/ \E r : call' = [call EXCEPT ![k] = r],
         staged' = staged \/ \E r : staged' = [staged EXCEPT ![k] = r],
         temps' = temps \/ \E r : temps' = [temps EXCEPT ![k] = r],
         change' = change \/ \E r : change' = [change EXCEPT ![k] = r],
         work' = work \/ \E r : work' = [work EXCEPT ![k] = r],
         RunInv(k)'
  PROVE  StagingInv'
<1>1. ASSUME NEW x \in Calls \ {k} PROVE RunInv(x)'
  <2>1. call'[x] = call[x] /\ staged'[x] = staged[x] /\ temps'[x] = temps[x] /\ change'[x] = change[x] /\ work'[x] = work[x]
    BY DEF StagingInv
  <2>2. QED
    BY <2>1 DEF StagingInv, RunInv, Cloned, OnBase, CapturedSoFar, Written, OneTree, Reported, EmptyPatch, RecordWanted
<1>2. QED
  BY <1>1 DEF StagingInv

(* The steps that only move the run on.                                      *)
LEMMA MovesOn ==
  ASSUME StagingInv, NEW k \in Calls, NEW pc, Goto(k, pc), UNCHANGED <<staged, temps, change, work>>,
         <<call[k].pc, pc>> \in {<<"config", "fence">>, <<"index", "clean">>, <<"clean", "container">>,
           <<"workspace", "clone">>, <<"owned", "spawn">>, <<"spawn", "running">>, <<"running", "answer">>,
           <<"lock", "lifecycle">>, <<"release", "dispose">>}
  PROVE  StagingInv'
<1>1. RunInv(k) /\ call'[k] = [call[k] EXCEPT !.pc = pc]
  BY DEF StagingInv, Goto
<1> DEFINE r == [call[k] EXCEPT !.pc = pc]
<1>2. DOMAIN r = CallFields /\ r.pc = pc /\ \A f \in CallFields \ {"pc"} : r[f] = call[k][f]
  BY <1>1 DEF RunInv, CallFields
<1> HIDE DEF r
<1>3. RunInv(k)'
  BY <1>1, <1>2 DEF r, RunInv, Cloned, OnBase, CapturedSoFar, Written, OneTree, Reported, EmptyPatch, RecordWanted,
       Preparing, Capturing, Closing, CallFields
<1>4. QED
  BY <1>3, OneRunSteps DEF Goto

(* Up to the clone.                                                          *)
LEMMA BeginningKeeps ==
  ASSUME StagingInv, NEW k \in Calls,
         Invoke(k) \/ CaptureFence(k) \/ MakeHome(k) \/ ReadHead(k) \/ MakeContainer(k) \/ CreateStagingClone(k)
  PROVE  StagingInv'
<1>0. RunInv(k) /\ DOMAIN call = Calls /\ DOMAIN staged = Calls
  BY DEF StagingInv
<1>1. CASE Invoke(k)
  <2>1. PICK agent, config, policy :
          call' = [call EXCEPT ![k] = [NoCall EXCEPT !.pc = "config", !.agent = agent, !.config = config, !.policy = policy]]
    BY <1>1 DEF Invoke
  <2>2. UNCHANGED <<staged, temps, change, work>> /\ call[k].pc = "idle"
    BY <1>1 DEF Invoke, disk
  <2>3. RunInv(k)'
    BY <1>0, <2>1, <2>2 DEF RunInv, CallFields, NoCall, Preparing, Capturing, Cloned, CapturedSoFar, Written, Reported, Closing
  <2>4. QED
    BY <2>1, <2>2, <2>3, OneRunSteps
<1>2. CASE CaptureFence(k)
  <2>1. UNCHANGED <<staged, temps, change, work>> /\ call[k].pc = "fence"
    BY <1>2 DEF CaptureFence, disk
  <2>2. /\ call' = [call EXCEPT ![k] = call'[k]] /\ DOMAIN call'[k] = CallFields
        /\ call'[k].pc = (IF call[k].agent = "coder" THEN "home" ELSE "spawn")
        /\ \A f \in CallFields \ {"pc", "fence"} : call'[k][f] = call[k][f]
    BY <1>0, <1>2, <2>1 DEF CaptureFence, RunInv, CallFields
  <2>3. RunInv(k)'
    BY <1>0, <2>1, <2>2 DEF RunInv, CallFields, Preparing, Capturing, Cloned, CapturedSoFar, Written, Reported, Closing
  <2>4. QED
    BY <2>1, <2>2, <2>3, OneRunSteps
<1>3. CASE MakeHome(k) \/ ReadHead(k) \/ MakeContainer(k)
  <2>1. UNCHANGED <<staged, change, work>> /\ (temps' = temps \/ \E r : temps' = [temps EXCEPT ![k] = r])
    BY <1>3 DEF MakeHome, ReadHead, MakeContainer, disk
  <2>2. /\ call' = [call EXCEPT ![k] = call'[k]] /\ DOMAIN call'[k] = CallFields
        /\ <<call[k].pc, call'[k].pc>> \in {<<"home", "head">>, <<"head", "index">>, <<"container", "workspace">>}
        /\ \A f \in CallFields \ {"pc", "base"} : call'[k][f] = call[k][f]
    BY <1>0, <1>3 DEF MakeHome, ReadHead, MakeContainer, Goto, RunInv, CallFields
  <2>3. RunInv(k)'
    BY <1>0, <2>1, <2>2 DEF RunInv, CallFields, Preparing, Capturing, Cloned, CapturedSoFar, Written, Reported, Closing
  <2>4. QED
    BY <2>1, <2>2, <2>3, OneRunSteps
<1>4. CASE CreateStagingClone(k)
  <2>1. UNCHANGED <<temps, change, work>> /\ call[k].pc = "clone"
    BY <1>4 DEF CreateStagingClone, disk
  <2>2. /\ call' = [call EXCEPT ![k] = call'[k]] /\ DOMAIN call'[k] = CallFields /\ call'[k].pc = "owned"
        /\ \A f \in CallFields \ {"pc"} : call'[k][f] = call[k][f]
    BY <1>0, <1>4 DEF CreateStagingClone, Goto, RunInv, CallFields
  <2>3. /\ staged' = [staged EXCEPT ![k] = staged'[k]] /\ DOMAIN staged'[k] = StageFields
        /\ staged'[k].work = Tree(call[k].base)
    BY <1>0, <1>4 DEF CreateStagingClone, StageFields
  <2>4. OnBase(k, staged[k].work)'
    BY <2>2, <2>3 DEF OnBase, Tree, CallFields
  <2>5. RunInv(k)'
    BY <1>0, <2>1, <2>2, <2>3, <2>4 DEF RunInv, CallFields, Preparing, Capturing, Cloned, CapturedSoFar, Written, Reported, Closing
  <2>6. QED
    BY <2>1, <2>2, <2>3, <2>5, OneRunSteps
<1>5. QED
  BY <1>1, <1>2, <1>3, <1>4

(* The program, which edits the clone and may use git in it.                 *)
LEMMA ProgramKeeps ==
  ASSUME StagingInv, NEW k \in Calls, Edits(k) \/ Stages(k)
  PROVE  StagingInv'
<1>0. RunInv(k) /\ DOMAIN call = Calls /\ DOMAIN staged = Calls
  BY DEF StagingInv
<1>1. CASE Edits(k)
  <2>1. UNCHANGED <<call, temps, change, work>>
    BY <1>1 DEF Edits, disk
  <2>2. CASE UNCHANGED staged
    BY <1>0, <2>1, <2>2, OneRunSteps
       DEF RunInv, Cloned, OnBase, CapturedSoFar, Written, OneTree, Reported, EmptyPatch, RecordWanted
  <2>3. CASE ~UNCHANGED staged
    <3>1. \/ \E what : staged' = [staged EXCEPT ![k].work.edits = staged[k].work.edits + 1,
                            ![k].work.unsafe = what = "unsafe", ![k].remote = staged[k].remote \/ what = "remote"]
          \/ staged' = [staged EXCEPT ![k].work = Tree(call[k].base)]
      BY <1>1, <2>3 DEF Edits
    <3>2. /\ staged' = [staged EXCEPT ![k] = staged'[k]] /\ DOMAIN staged'[k] = StageFields
          /\ staged'[k].index = staged[k].index
          /\ OnBase(k, staged[k].work) => OnBase(k, staged'[k].work)
      <4>1. CASE staged' = [staged EXCEPT ![k].work = Tree(call[k].base)]
        <5>1. staged' = [staged EXCEPT ![k] = [staged[k] EXCEPT !.work = Tree(call[k].base)]]
          BY <4>1
        <5>2. staged'[k] = [staged[k] EXCEPT !.work = Tree(call[k].base)] /\ DOMAIN staged[k] = StageFields
          BY <1>0, <5>1 DEF RunInv
        <5>3. staged'[k].work = Tree(call[k].base) /\ staged'[k].index = staged[k].index
              /\ DOMAIN staged'[k] = StageFields
          BY <5>2 DEF StageFields
        <5>4. OnBase(k, staged'[k].work)
          BY <5>3 DEF OnBase, Tree
        <5>5. QED
          BY <1>0, <5>1, <5>2, <5>3, <5>4
      <4>2. CASE \E what : staged' = [staged EXCEPT ![k].work.edits = staged[k].work.edits + 1,
                   ![k].work.unsafe = what = "unsafe", ![k].remote = staged[k].remote \/ what = "remote"]
        <5>1. PICK what : staged' = [staged EXCEPT ![k].work.edits = staged[k].work.edits + 1,
                  ![k].work.unsafe = what = "unsafe", ![k].remote = staged[k].remote \/ what = "remote"]
          BY <4>2
        <5>2. QED
          BY <1>0, <5>1 DEF RunInv, StageFields, OnBase
      <4>3. QED
        BY <3>1, <4>1, <4>2
    <3>3. RunInv(k)'
      BY <1>0, <2>1, <3>2 DEF RunInv, Cloned, OnBase, CapturedSoFar, Written, OneTree, Reported, EmptyPatch, RecordWanted
    <3>4. QED
      BY <2>1, <3>2, <3>3, OneRunSteps
  <2>4. QED
    BY <2>2, <2>3
<1>2. CASE Stages(k)
  <2>1. UNCHANGED <<temps, change, work>> /\ call[k].pc \in Capturing \ {"add"}
    BY <1>2 DEF Stages, disk
  <2>2. /\ call' = [call EXCEPT ![k] = call'[k]] /\ DOMAIN call'[k] = CallFields /\ call'[k].restaged
        /\ \A f \in CallFields \ {"restaged"} : call'[k][f] = call[k][f]
    BY <1>0, <1>2 DEF Stages, RunInv, CallFields
  <2>3. /\ staged' = [staged EXCEPT ![k] = staged'[k]] /\ DOMAIN staged'[k] = StageFields
        /\ staged'[k].work = staged[k].work /\ staged'[k].index = staged[k].work
    BY <1>0, <1>2 DEF Stages, RunInv, StageFields
  <2>4. RunInv(k)'
    BY <1>0, <2>1, <2>2, <2>3 DEF RunInv, CallFields, Preparing, Capturing, Cloned, OnBase, Written, Reported, Closing
  <2>5. QED
    BY <2>1, <2>2, <2>3, <2>4, OneRunSteps
<1>3. QED
  BY <1>1, <1>2

(* The capture.                                                              *)
LEMMA CaptureKeeps ==
  ASSUME StagingInv, NEW k \in Calls,
         Answer(k) \/ GitAdd(k) \/ Manifest(k) \/ WriteTree(k) \/ MakePatch(k) \/ AssertStagingStillSafe(k)
  PROVE  StagingInv'
<1>0. RunInv(k) /\ DOMAIN call = Calls /\ DOMAIN staged = Calls
  BY DEF StagingInv
<1>1. UNCHANGED <<temps, change, work>>
  BY DEF Answer, GitAdd, Manifest, WriteTree, MakePatch, AssertStagingStillSafe, disk
<1>2. CASE Answer(k)
  <2>1. UNCHANGED staged /\ call[k].pc = "answer"
    BY <1>2 DEF Answer
  <2>2. /\ call' = [call EXCEPT ![k] = call'[k]] /\ DOMAIN call'[k] = CallFields
        /\ call'[k].pc = (IF call[k].agent = "coder" THEN "add" ELSE "lock")
        /\ \A f \in CallFields \ {"pc", "answer"} : call'[k][f] = call[k][f]
    BY <1>0, <1>2 DEF Answer, RunInv, CallFields
  <2>3. RunInv(k)'
    BY <1>0, <1>1, <2>1, <2>2 DEF RunInv, CallFields, Preparing, Capturing, Cloned, OnBase, CapturedSoFar, Written, Reported, Closing
  <2>4. QED
    BY <1>1, <2>1, <2>2, <2>3, OneRunSteps
<1>3. CASE GitAdd(k)
  <2>1. /\ call' = [call EXCEPT ![k] = call'[k]] /\ DOMAIN call'[k] = CallFields
        /\ call[k].pc = "add" /\ call'[k].pc = "manifest"
        /\ \A f \in CallFields \ {"pc"} : call'[k][f] = call[k][f]
    BY <1>0, <1>3 DEF GitAdd, Goto, RunInv, CallFields
  <2>2. /\ staged' = [staged EXCEPT ![k] = staged'[k]] /\ DOMAIN staged'[k] = StageFields
        /\ staged'[k].work = staged[k].work /\ staged'[k].index = staged[k].work
    BY <1>0, <1>3 DEF GitAdd, RunInv, StageFields
  <2>3. RunInv(k)'
    BY <1>0, <1>1, <2>1, <2>2 DEF RunInv, CallFields, Preparing, Capturing, Cloned, OnBase, CapturedSoFar, Written, Reported, Closing
  <2>4. QED
    BY <1>1, <2>1, <2>2, <2>3, OneRunSteps
<1>4. CASE Manifest(k) \/ WriteTree(k) \/ MakePatch(k)
  <2>1. UNCHANGED staged /\ staged'[k] = staged[k]
    BY <1>4 DEF Manifest, WriteTree, MakePatch
  <2>2. /\ call' = [call EXCEPT ![k] = call'[k]] /\ DOMAIN call'[k] = CallFields
        /\ \A f \in CallFields \ {"pc", "manifest", "tree", "patch"} : call'[k][f] = call[k][f]
    BY <1>0, <1>4 DEF Manifest, WriteTree, MakePatch, RunInv, CallFields
  <2>3. \/ call[k].pc = "manifest" /\ call'[k].pc = "audit" /\ call'[k].manifest = call[k].manifest
        \/ call[k].pc = "manifest" /\ call'[k].pc = "tree" /\ call'[k].manifest = staged[k].index
        \/ /\ call[k].pc = "tree" /\ call'[k].pc = "patch"
           /\ call'[k].manifest = call[k].manifest /\ call'[k].tree = staged[k].index
        \/ /\ call[k].pc = "patch" /\ call'[k].pc = "audit" /\ call'[k].patch = staged[k].index
           /\ call'[k].manifest = call[k].manifest /\ call'[k].tree = call[k].tree
    BY <1>0, <1>4 DEF Manifest, WriteTree, MakePatch, RunInv, CallFields
  <2>4. RunInv(k)'
    BY <1>0, <1>1, <2>1, <2>2, <2>3 DEF RunInv, CallFields, Preparing, Capturing, Cloned, OnBase, CapturedSoFar, Written, Reported, Closing
  <2>5. QED
    BY <1>1, <2>1, <2>2, <2>4, OneRunSteps
<1>5. CASE AssertStagingStillSafe(k)
  <2>1. UNCHANGED staged /\ staged'[k] = staged[k] /\ ~staged[k].index.unsafe /\ call[k].pc = "audit"
    BY <1>5 DEF AssertStagingStillSafe, InspectStagedTree
  <2>2. /\ call' = [call EXCEPT ![k] = call'[k]] /\ DOMAIN call'[k] = CallFields /\ call'[k].pc = "lock"
        /\ \A f \in CallFields \ {"pc"} : call'[k][f] = call[k][f]
    BY <1>0, <1>5 DEF AssertStagingStillSafe, Goto, RunInv, CallFields
  <2>3. call[k].manifest = NoTree \/ call[k].restaged \/ OneTree(k)
    BY <1>0, <2>1 DEF RunInv, CapturedSoFar, OneTree, OnBase, Capturing
  <2>4. RunInv(k)'
    BY <1>0, <1>1, <2>1, <2>2, <2>3 DEF RunInv, CallFields, Preparing, Capturing, Cloned, CapturedSoFar, Written, OneTree, Reported, Closing
  <2>5. QED
    BY <1>1, <2>1, <2>2, <2>4, OneRunSteps
<1>6. QED
  BY <1>2, <1>3, <1>4, <1>5

(* The commit.                                                               *)
LEMMA CommitKeeps ==
  ASSUME StagingInv, NEW k \in Calls, AssertEligible(k) \/ Publish(k) \/ Record(k) \/ MarkCompleted(k)
  PROVE  StagingInv'
<1>0. RunInv(k) /\ DOMAIN call = Calls /\ DOMAIN work = Calls /\ DOMAIN change = Calls
  BY DEF StagingInv
<1>1. UNCHANGED <<staged, temps>>
  BY DEF AssertEligible, Publish, Record, MarkCompleted, disk
<1>2. CASE AssertEligible(k)
  <2>1. UNCHANGED <<change, work>> /\ call[k].pc = "lifecycle"
    BY <1>2 DEF AssertEligible, disk
  <2>2. /\ call' = [call EXCEPT ![k] = call'[k]] /\ DOMAIN call'[k] = CallFields
        /\ call'[k].pc = (IF call[k].manifest = NoTree THEN "record" ELSE "publish")
        /\ \A f \in CallFields \ {"pc"} : call'[k][f] = call[k][f]
    BY <1>0, <1>2 DEF AssertEligible, Goto, RunInv, CallFields
  <2>3. RunInv(k)'
    BY <1>0, <1>1, <2>1, <2>2 DEF RunInv, CallFields, Preparing, Capturing, Cloned, CapturedSoFar, Written, OneTree, Reported, Closing
  <2>4. QED
    BY <1>1, <2>1, <2>2, <2>3, OneRunSteps
<1>3. CASE Publish(k)
  <2>1. CASE EmptyPatch(k) /\ Goto(k, "record") /\ UNCHANGED change
    <3>1. /\ call' = [call EXCEPT ![k] = call'[k]] /\ DOMAIN call'[k] = CallFields
          /\ call[k].pc = "publish" /\ call'[k].pc = "record" /\ UNCHANGED work
          /\ \A f \in CallFields \ {"pc"} : call'[k][f] = call[k][f]
      BY <1>0, <1>3, <2>1 DEF Publish, Goto, RunInv, CallFields
    <3>2. EmptyPatch(k)'
      BY <2>1, <3>1 DEF EmptyPatch, CallFields
    <3>3. RunInv(k)'
      BY <1>0, <1>1, <2>1, <3>1, <3>2 DEF RunInv, CallFields, Preparing, Capturing, Cloned, CapturedSoFar, Written, OneTree, Reported, Closing
    <3>4. QED
      BY <1>1, <2>1, <3>1, <3>3, OneRunSteps
  <2>2. CASE ~EmptyPatch(k) /\ ~UNCHANGED change
    <3>1. PICK i \in 1 .. Len(ChangeParts) - 1 :
            /\ change' = [change EXCEPT ![k] = ChangeParts[i + 1]]
            /\ Goto(k, IF i + 1 = Len(ChangeParts) THEN "record" ELSE "publish")
      BY <1>3, <2>2 DEF Publish
    <3>2. Len(ChangeParts) = 6 /\ ChangeParts[6] = "published"
      BY DEF ChangeParts
    <3>3. /\ call' = [call EXCEPT ![k] = call'[k]] /\ DOMAIN call'[k] = CallFields /\ call[k].pc = "publish"
          /\ call'[k].pc \in {"record", "publish"} /\ (call'[k].pc = "record" => change'[k] = "published")
          /\ \A f \in CallFields \ {"pc"} : call'[k][f] = call[k][f]
      BY <1>0, <1>3, <3>1, <3>2 DEF Publish, Goto, RunInv, CallFields
    <3>4. UNCHANGED work
      BY <1>3 DEF Publish
    <3>5. ~EmptyPatch(k)'
      BY <2>2, <3>3 DEF EmptyPatch, CallFields
    <3>6. RunInv(k)'
      BY <1>0, <1>1, <3>3, <3>4, <3>5 DEF RunInv, CallFields, Preparing, Capturing, Cloned, CapturedSoFar, Written, OneTree, Reported, Closing
    <3>7. QED
      BY <1>1, <3>1, <3>3, <3>4, <3>6, OneRunSteps
  <2>3. CASE ~EmptyPatch(k) /\ UNCHANGED change
    <3>1. PICK i \in 1 .. Len(ChangeParts) - 1 :
            /\ change[k] = ChangeParts[i] /\ change' = [change EXCEPT ![k] = ChangeParts[i + 1]]
      BY <1>3, <2>3 DEF Publish
    <3>2. ChangeParts[i] # ChangeParts[i + 1]
      BY DEF ChangeParts
    <3>3. QED
      BY <1>0, <2>3, <3>1, <3>2
  <2>4. QED
    BY <1>3, <2>1, <2>2, <2>3 DEF Publish
<1>4. CASE Record(k)
  <2>1. /\ call' = [call EXCEPT ![k] = call'[k]] /\ DOMAIN call'[k] = CallFields /\ call[k].pc = "record"
        /\ IF Passes(call[k].answer) THEN call'[k].pc = "complete" /\ call'[k].outcome = call[k].outcome
                                     ELSE call'[k].pc = "release" /\ call'[k].outcome = "returned"
        /\ \A f \in CallFields \ {"pc", "outcome"} : call'[k][f] = call[k][f]
    BY <1>0, <1>4 DEF Record, RunInv, CallFields
  <2>2. /\ UNCHANGED change /\ work' = [work EXCEPT ![k] = work'[k]] /\ work'[k] = RecordOf(k)
    BY <1>0, <1>4 DEF Record
  <2>3. EmptyPatch(k)' <=> EmptyPatch(k)
    BY <2>1 DEF EmptyPatch, CallFields
  <2>4. RecordOf(k) = RecordWanted(k)
    BY <1>0, <2>1 DEF RunInv, Written, RecordOf, RecordWanted
  <2>5. RecordWanted(k)' = RecordWanted(k)
    BY <2>1, <2>3 DEF RecordWanted, CallFields
  <2>6. Passes(call[k].answer) => Passes(call[k].answer)' /\ RecordOf(k) = "pass"
    BY <2>1 DEF RecordOf, CallFields
  <2>7. RecordOf(k) # "none" /\ (RecordOf(k) = "linked" => change[k] = "published")
    BY DEF RecordOf
  <2>8. RunInv(k)'
    BY <1>0, <1>1, <2>1, <2>2, <2>3, <2>4, <2>5, <2>6, <2>7
       DEF RunInv, CallFields, Preparing, Capturing, Cloned, CapturedSoFar, Written, OneTree, Reported, Closing
  <2>9. QED
    BY <1>1, <2>1, <2>2, <2>8, OneRunSteps
<1>5. CASE MarkCompleted(k)
  <2>1. /\ call' = [call EXCEPT ![k] = call'[k]] /\ DOMAIN call'[k] = CallFields
        /\ call[k].pc = "complete" /\ call'[k].pc = "release" /\ call'[k].outcome = "returned"
        /\ \A f \in CallFields \ {"pc", "outcome"} : call'[k][f] = call[k][f]
    BY <1>0, <1>5 DEF MarkCompleted, RunInv, CallFields
  <2>2. UNCHANGED <<change, work>>
    BY <1>5 DEF MarkCompleted, disk
  <2>3. EmptyPatch(k)' <=> EmptyPatch(k)
    BY <2>1 DEF EmptyPatch, CallFields
  <2>4. work[k] = "pass" /\ RecordWanted(k)' = "pass"
    BY <1>0, <2>1 DEF RunInv, Written, RecordWanted, CallFields
  <2>5. RunInv(k)'
    BY <1>0, <1>1, <2>1, <2>2, <2>3, <2>4
       DEF RunInv, CallFields, Preparing, Capturing, Cloned, CapturedSoFar, Written, OneTree, Reported, Closing
  <2>6. QED
    BY <1>1, <2>1, <2>2, <2>5, OneRunSteps
<1>6. QED
  BY <1>2, <1>3, <1>4, <1>5

(* A run that throws or dies at any step, and what is removed after it.      *)
LEMMA ClosingKeeps ==
  ASSUME StagingInv, NEW k \in Calls,
         ReleaseFails(k) \/ Throw(k) \/ Dispose(k) \/ DisposeFails(k) \/ Crash(k)
  PROVE  StagingInv'
<1>0. RunInv(k) /\ DOMAIN call = Calls /\ DOMAIN staged = Calls /\ DOMAIN temps = Calls
  BY DEF StagingInv
<1>1. UNCHANGED <<change, work>>
  BY DEF ReleaseFails, Throw, Dispose, DisposeFails, Crash, disk
<1>2. staged' = staged \/ (staged' = [staged EXCEPT ![k] = NoStage] /\ staged'[k] = NoStage)
  BY <1>0 DEF ReleaseFails, Throw, Dispose, DisposeFails, Crash
<1>3. DOMAIN NoStage = StageFields
  BY DEF NoStage, StageFields
<1>4. temps' = temps \/ \E r : temps' = [temps EXCEPT ![k] = r]
  BY DEF ReleaseFails, Throw, Dispose, DisposeFails, Crash, disk
<1>5. CASE Throw(k)
  <2>1. /\ call' = [call EXCEPT ![k] = call'[k]] /\ DOMAIN call'[k] = CallFields
        /\ call[k].pc \in Throwing /\ call'[k].pc = "dispose" /\ call'[k].outcome = "failed"
        /\ \A f \in CallFields \ {"pc", "outcome", "answer", "leaks"} : call'[k][f] = call[k][f]
    BY <1>0, <1>5 DEF Throw, RunInv, CallFields
  <2>2. UNCHANGED <<staged, temps>>
    BY <1>5 DEF Throw, disk
  <2>3. call[k].pc \notin Closing
    BY <2>1 DEF Throwing, GitStages, Locked, Closing
  <2>4. RunInv(k)'
    BY <1>0, <1>1, <2>1, <2>2, <2>3 DEF RunInv, CallFields, Preparing, Capturing, Cloned, CapturedSoFar, Written, OneTree, Reported, EmptyPatch, RecordWanted, Closing
  <2>5. QED
    BY <1>1, <1>4, <2>1, <2>2, <2>4, OneRunSteps
<1>6. CASE Dispose(k)
  <2>1. /\ call' = [call EXCEPT ![k] = call'[k]] /\ DOMAIN call'[k] = CallFields
        /\ call[k].pc = "dispose" /\ call'[k].pc = "ended"
        /\ \A f \in CallFields \ {"pc"} : call'[k][f] = call[k][f]
    BY <1>0, <1>6 DEF Dispose, Goto, RunInv, CallFields
  <2>2. call[k].leaks \/ temps'[k] = {}
    BY <1>0, <1>6 DEF Dispose
  <2>3. RunInv(k)'
    BY <1>0, <1>1, <1>2, <1>3, <2>1, <2>2 DEF RunInv, CallFields, Preparing, Capturing, Cloned, CapturedSoFar, Written, OneTree, Reported, EmptyPatch, RecordWanted, Closing
  <2>4. QED
    BY <1>1, <1>2, <1>4, <2>1, <2>3, OneRunSteps
<1>7. CASE DisposeFails(k)
  <2>1. /\ call' = [call EXCEPT ![k] = call'[k]] /\ DOMAIN call'[k] = CallFields
        /\ call[k].pc = "dispose" /\ call'[k].pc = "ended" /\ call'[k].outcome = "failed" /\ call'[k].undisposed
        /\ \A f \in CallFields \ {"pc", "outcome", "undisposed"} : call'[k][f] = call[k][f]
    BY <1>0, <1>7 DEF DisposeFails, RunInv, CallFields
  <2>2. RunInv(k)'
    BY <1>0, <1>1, <1>2, <1>3, <2>1 DEF RunInv, CallFields, Preparing, Capturing, Cloned, CapturedSoFar, Written, OneTree, Reported, EmptyPatch, RecordWanted, Closing
  <2>3. QED
    BY <1>1, <1>2, <1>4, <2>1, <2>2, OneRunSteps
<1>8. CASE Crash(k)
  <2>1. /\ call' = [call EXCEPT ![k] = call'[k]] /\ DOMAIN call'[k] = CallFields /\ call'[k].pc = "crashed"
        /\ \A f \in CallFields \ {"pc", "answer"} : call'[k][f] = call[k][f]
    BY <1>0, <1>8 DEF Crash, RunInv, CallFields
  <2>2. RunInv(k)'
    BY <1>0, <1>1, <1>2, <1>3, <2>1 DEF RunInv, CallFields, Preparing, Capturing, Cloned, CapturedSoFar, Written, OneTree, Reported, EmptyPatch, RecordWanted, Closing
  <2>3. QED
    BY <1>1, <1>2, <1>4, <2>1, <2>2, OneRunSteps
<1>9. CASE ReleaseFails(k)
  <2>1. /\ call' = [call EXCEPT ![k] = call'[k]] /\ DOMAIN call'[k] = CallFields
        /\ call[k].pc = "release" /\ call'[k].pc = "dispose" /\ call'[k].outcome = "failed" /\ call'[k].unreleased
        /\ \A f \in CallFields \ {"pc", "outcome", "unreleased"} : call'[k][f] = call[k][f]
    BY <1>0, <1>9 DEF ReleaseFails, RunInv, CallFields
  <2>2. UNCHANGED <<staged, temps>>
    BY <1>9 DEF ReleaseFails, disk
  <2>3. RunInv(k)'
    BY <1>0, <1>1, <2>1, <2>2 DEF RunInv, CallFields, Preparing, Capturing, Cloned, CapturedSoFar, Written, OneTree, Reported, EmptyPatch, RecordWanted, Closing
  <2>4. QED
    BY <1>1, <1>4, <2>1, <2>2, <2>3, OneRunSteps
<1>10. QED
  BY <1>5, <1>6, <1>7, <1>8, <1>9

LEMMA StagingKept == ASSUME StagingInv, UNCHANGED <<call, staged, temps, change, work>> PROVE StagingInv'
BY DEF StagingInv, RunInv, Cloned, OnBase, CapturedSoFar, Written, OneTree, Reported, EmptyPatch, RecordWanted

LEMMA StagingStep == StagingInv /\ [Next]_vars => StagingInv'
<1> SUFFICES ASSUME StagingInv, [Next]_vars PROVE StagingInv'
  OBVIOUS
<1> DEFINE Kept == UNCHANGED <<call, staged, temps, change, work>>
<1>1. UNCHANGED vars \/ UserEdits \/ UserCommits \/ ForceRelease \/ OpenTask \/ EndTask => Kept
  BY DEF vars, disk, UserEdits, UserCommits, ForceRelease, OpenTask, EndTask
<1>2. ASSUME NEW k \in Calls,
             Writes(k) \/ Exits(k) \/ DescendantWrites(k) \/ DescendantEnds(k) \/ Timeout(k) \/ KillAfterGrace(k)
      PROVE  Kept
  BY <1>2 DEF Writes, Exits, DescendantWrites, DescendantEnds, Timeout, KillAfterGrace, disk
<1>3. ASSUME NEW k \in Calls,
             \/ Resolve(k) \/ AssertSupportedIndex(k) \/ AssertClean(k) \/ MakeWorkspace(k) \/ StillOwned(k)
             \/ Spawn(k) \/ Close(k) \/ AcquireAuthority(k) \/ ReleaseAuthority(k)
      PROVE  StagingInv'
  BY <1>3, MovesOn DEF Resolve, AssertSupportedIndex, AssertClean, MakeWorkspace, StillOwned, Spawn, Close,
       AcquireAuthority, ReleaseAuthority, disk
<1> HIDE DEF Kept
<1>4. CASE Kept
  BY <1>4, StagingKept DEF Kept
<1>5. QED
  BY <1>1, <1>2, <1>3, <1>4, BeginningKeeps, ProgramKeeps, CaptureKeeps, CommitKeeps, ClosingKeeps DEF Next, Step, Program

LEMMA StagingInvariant == Spec => []StagingInv
BY StagingInit, StagingStep, PTL DEF Spec

(* Whatever the programs and their descendants do, and whatever dies when:   *)
(* a published change set is of one audited tree on the commit of its run,   *)
(* and no record names one that is not completely on disk.                   *)
THEOREM OneTreePublished == Spec => []PublishedAsOneTree
<1>1. StagingInv => PublishedAsOneTree
  BY DEF StagingInv, RunInv, Written, OneTree, PublishedAsOneTree
<1>2. QED
  BY <1>1, StagingInvariant, PTL

(* Once its caller was told that a review passed, the task is completed, and *)
(* no step makes it active again.                                            *)
CompletedInv ==
  /\ StagingInv
  /\ \A k \in Calls : call[k].outcome = "returned" /\ work[k] = "pass" => status = "completed"

LEMMA CompletedKept ==
  ASSUME CompletedInv, StagingInv', NEW k \in Calls, status' = status \/ status' = "completed",
         call' = call \/ \E r : call' = [call EXCEPT ![k] = r],
         work' = work \/ \E r : work' = [work EXCEPT ![k] = r],
         call'[k].outcome = "returned" /\ work'[k] = "pass" =>
           status' = "completed" \/ (call[k].outcome = "returned" /\ work[k] = "pass")
  PROVE  CompletedInv'
<1>1. ASSUME NEW x \in Calls \ {k} PROVE call'[x] = call[x] /\ work'[x] = work[x]
  BY DEF CompletedInv, StagingInv
<1>2. QED
  BY <1>1 DEF CompletedInv

LEMMA CompletedStep == CompletedInv /\ [Next]_vars => CompletedInv'
<1> SUFFICES ASSUME CompletedInv, [Next]_vars PROVE CompletedInv'
  OBVIOUS
<1>0. StagingInv /\ StagingInv'
  BY StagingStep DEF CompletedInv
<1>1. ASSUME UNCHANGED <<call, work>>, status' = status \/ status' = "completed" PROVE CompletedInv'
  BY <1>0, <1>1 DEF CompletedInv
<1>2. CASE UNCHANGED vars \/ UserEdits \/ UserCommits \/ ForceRelease \/ OpenTask \/ EndTask
  BY <1>1, <1>2 DEF vars, world, disk, UserEdits, UserCommits, ForceRelease, OpenTask, EndTask
<1>3. ASSUME NEW k \in Calls,
             \/ Edits(k) \/ Writes(k) \/ Exits(k) \/ DescendantWrites(k) \/ DescendantEnds(k)
             \/ Timeout(k) \/ KillAfterGrace(k)
      PROVE  CompletedInv'
  BY <1>1, <1>3 DEF Edits, Writes, Exits, DescendantWrites, DescendantEnds, Timeout, KillAfterGrace, world, disk
<1>4. ASSUME NEW k \in Calls, Invoke(k) \/ Step(k) \/ Stages(k) \/ Crash(k) PROVE CompletedInv'
  <2>0. DOMAIN call = Calls /\ DOMAIN call[k] = CallFields /\ DOMAIN work = Calls
    BY <1>0 DEF StagingInv, RunInv
  <2>1. CASE Record(k)
    <3>1. /\ call' = [call EXCEPT ![k] = call'[k]] /\ work' = [work EXCEPT ![k] = work'[k]] /\ status' = status
          /\ Passes(call[k].answer) => call'[k].outcome = call[k].outcome /\ call[k].pc = "record"
          /\ ~Passes(call[k].answer) => work'[k] # "pass"
      BY <2>0, <2>1 DEF Record, RecordOf, CallFields, world
    <3>2. call[k].pc = "record" => call[k].outcome = "none"
      BY <1>0 DEF StagingInv, RunInv, Reported, Closing
    <3>3. QED
      BY <1>0, <3>1, <3>2, CompletedKept
  <2>2. CASE MarkCompleted(k)
    <3>1. /\ call' = [call EXCEPT ![k] = call'[k]] /\ UNCHANGED work /\ status' = "completed"
      BY <2>0, <2>2 DEF MarkCompleted, disk
    <3>2. QED
      BY <1>0, <3>1, CompletedKept
  <2>3. CASE Invoke(k)
    <3>1. PICK agent, config, policy :
            call' = [call EXCEPT ![k] = [NoCall EXCEPT !.pc = "config", !.agent = agent, !.config = config, !.policy = policy]]
      BY <2>3 DEF Invoke
    <3>2. call' = [call EXCEPT ![k] = call'[k]] /\ call'[k].outcome = "none"
      BY <2>0, <3>1 DEF NoCall
    <3>3. UNCHANGED <<work, status>>
      BY <2>3 DEF Invoke, world, disk
    <3>4. QED
      BY <1>0, <3>2, <3>3, CompletedKept
  <2>4. CASE ~(Record(k) \/ MarkCompleted(k) \/ Invoke(k))
    <3>1. UNCHANGED <<work, status>>
      BY <1>4, <2>4 DEF Step, Resolve, CaptureFence, MakeHome, ReadHead, AssertSupportedIndex, AssertClean,
           MakeContainer, MakeWorkspace, CreateStagingClone, StillOwned, Spawn, Close, Answer, GitAdd, Manifest,
           WriteTree, MakePatch, AssertStagingStillSafe, AcquireAuthority, AssertEligible, Publish,
           ReleaseAuthority, ReleaseFails, Throw, Dispose, DisposeFails, Stages, Crash, world, disk
    <3>2. ASSUME NEW pc, Goto(k, pc) PROVE CompletedInv'
      <4>1. call' = [call EXCEPT ![k] = call'[k]] /\ call'[k].outcome = call[k].outcome
        BY <2>0, <3>2 DEF Goto, CallFields
      <4>2. QED
        BY <1>0, <3>1, <4>1, CompletedKept
    <3>3. CASE CaptureFence(k) \/ ReadHead(k) \/ Answer(k) \/ Manifest(k) \/ WriteTree(k) \/ MakePatch(k) \/ Stages(k)
      <4>1. call' = [call EXCEPT ![k] = call'[k]] /\ call'[k].outcome = call[k].outcome
        BY <2>0, <3>3 DEF CaptureFence, ReadHead, Answer, Manifest, WriteTree, MakePatch, Stages, CallFields
      <4>2. QED
        BY <1>0, <3>1, <4>1, CompletedKept
    <3>4. CASE ReleaseFails(k) \/ Throw(k) \/ DisposeFails(k) \/ Crash(k)
      <4>1. call' = [call EXCEPT ![k] = call'[k]] /\ call'[k].outcome \in {call[k].outcome, "failed"}
        BY <2>0, <3>4 DEF ReleaseFails, Throw, DisposeFails, Crash, CallFields
      <4>2. QED
        BY <1>0, <3>1, <4>1, CompletedKept
    <3>5. CASE \/ Resolve(k) \/ MakeHome(k) \/ AssertSupportedIndex(k) \/ AssertClean(k) \/ MakeContainer(k)
               \/ MakeWorkspace(k) \/ CreateStagingClone(k) \/ StillOwned(k) \/ Spawn(k) \/ Close(k) \/ GitAdd(k)
               \/ AssertStagingStillSafe(k) \/ AcquireAuthority(k) \/ AssertEligible(k) \/ Publish(k)
               \/ ReleaseAuthority(k) \/ Dispose(k)
      <4>1. \E pc : Goto(k, pc)
        BY <3>5 DEF Resolve, MakeHome, AssertSupportedIndex, AssertClean, MakeContainer, MakeWorkspace,
             CreateStagingClone, StillOwned, Spawn, Close, GitAdd, AssertStagingStillSafe, AcquireAuthority,
             AssertEligible, Publish, ReleaseAuthority, Dispose
      <4>2. QED
        BY <3>2, <4>1
    <3>6. QED
      BY <1>4, <2>4, <3>3, <3>4, <3>5 DEF Step
  <2>5. QED
    BY <2>1, <2>2, <2>3, <2>4
<1>5. QED
  BY <1>2, <1>3, <1>4 DEF Next, Program

(* What the caller of a run is told is what is on disk, also when the        *)
(* completion of a task fails after the report that passed it.               *)
THEOREM ReportsAreTrue == Spec => []ReportedAsLanded
<1>1. Init => CompletedInv
  BY StagingInit DEF Init, CompletedInv, NoCall
<1>2. CompletedInv => ReportedAsLanded
  BY DEF CompletedInv, StagingInv, RunInv, Reported, ReportedAsLanded
<1>3. QED
  BY <1>1, <1>2, CompletedStep, PTL DEF Spec

(* A run that ended has removed what it made, but for a removal or a         *)
(* creation that failed.                                                     *)
THEOREM RunsCleanUp == Spec => []NothingLeftBehind
<1>1. StagingInv => NothingLeftBehind
  BY DEF StagingInv, RunInv, NothingLeftBehind
<1>2. QED
  BY <1>1, StagingInvariant, PTL

-----------------------------------------------------------------------------
(* A program that is alive, or has left a descendant, is in the clone if it  *)
(* runs for CODER and is not allowed to write otherwise.                     *)
ChildFields == {"state", "cwd", "said", "text", "overflowed", "code", "signal", "descendant"}
Sandboxed(k) ==
  /\ DOMAIN call[k] = CallFields /\ DOMAIN child[k] = ChildFields
  /\ call[k].pc \in {"idle", "config", "fence"} \cup Preparing => ~Alive(k)
  /\ call[k].pc # "idle" => call[k].policy.source = SourceModification(call[k].agent)
  /\ call[k].pc \notin {"idle", "config"} \cup Closing => call[k].config.provider \in Providers
  /\ Alive(k) => child[k].cwd = Cwd(k) /\ call[k].config.provider \in Providers
SandboxInv ==
  /\ DOMAIN call = Calls /\ DOMAIN child = Calls
  /\ \A k \in Calls : Sandboxed(k)

LEMMA OneSandbox ==
  ASSUME SandboxInv, NEW k \in Calls,
         call' = call \/ \E r : call' = [call EXCEPT ![k] = r],
         child' = child \/ \E r : child' = [child EXCEPT ![k] = r],
         Sandboxed(k)'
  PROVE  SandboxInv'
<1>1. ASSUME NEW x \in Calls \ {k} PROVE Sandboxed(x)'
  <2>1. call'[x] = call[x] /\ child'[x] = child[x] BY DEF SandboxInv
  <2>2. QED BY <2>1 DEF SandboxInv, Sandboxed, Alive, Cwd
<1>2. QED BY <1>1 DEF SandboxInv

(* The run is configured, and its program started where it belongs.          *)
LEMMA StartsSandboxed ==
  ASSUME SandboxInv, NEW k \in Calls, Invoke(k) \/ Resolve(k) \/ Spawn(k)
  PROVE  SandboxInv'
<1>0. Sandboxed(k) /\ DOMAIN call = Calls /\ DOMAIN child = Calls BY DEF SandboxInv
<1>1. CASE Invoke(k)
  <2>1. PICK agent, config, decision :
          call' = [call EXCEPT ![k] = [NoCall EXCEPT !.pc = "config", !.agent = agent, !.config = config,
                                                     !.policy = ExecutionPolicy(agent, decision, FALSE)]]
    BY <1>1 DEF Invoke
  <2>2. child' = child /\ call[k].pc = "idle" BY <1>1 DEF Invoke
  <2>3. ExecutionPolicy(agent, decision, FALSE).source = SourceModification(agent)
    BY DEF ExecutionPolicy
  <2>4. /\ DOMAIN call'[k] = CallFields /\ call'[k].pc = "config" /\ call'[k].agent = agent
        /\ call'[k].policy.source = SourceModification(agent)
    BY <1>0, <2>1, <2>3 DEF NoCall, CallFields
  <2>5. Sandboxed(k)' BY <1>0, <2>2, <2>4 DEF Sandboxed, Alive, Preparing
  <2>6. QED BY <2>1, <2>2, <2>5, OneSandbox
<1>2. CASE Resolve(k)
  <2>1. /\ call' = [call EXCEPT ![k] = [call[k] EXCEPT !.pc = "fence"]] /\ child' = child
        /\ call[k].pc = "config" /\ call[k].config.provider \in Providers
    BY <1>2 DEF Resolve, Goto, Executable, Authorable, BasicShape
  <2>2. DOMAIN call'[k] = CallFields /\ \A f \in CallFields \ {"pc"} : call'[k][f] = call[k][f]
    BY <1>0, <2>1 DEF Sandboxed, CallFields
  <2>3. call'[k].pc = "fence" BY <1>0, <2>1 DEF Sandboxed, CallFields
  <2>4. Sandboxed(k)'
    BY <1>0, <2>1, <2>2, <2>3 DEF Sandboxed, Alive, Preparing, CallFields
  <2>5. QED BY <2>1, <2>4, OneSandbox
<1>3. CASE Spawn(k)
  <2>1. PICK r : child' = [child EXCEPT ![k] = [NoChild EXCEPT !.state = "running", !.cwd = Cwd(k), !.said = r]]
    BY <1>3 DEF Spawn
  <2>2. call' = [call EXCEPT ![k] = [call[k] EXCEPT !.pc = "running"]] /\ call[k].pc = "spawn"
    BY <1>3 DEF Spawn, Goto
  <2>3. DOMAIN call'[k] = CallFields /\ \A f \in CallFields \ {"pc"} : call'[k][f] = call[k][f]
    BY <1>0, <2>2 DEF Sandboxed, CallFields
  <2>4. call'[k].pc = "running" /\ DOMAIN child'[k] = ChildFields /\ child'[k].cwd = Cwd(k)
    BY <1>0, <2>1, <2>2 DEF Sandboxed, CallFields, NoChild, ChildFields
  <2>5. Sandboxed(k)'
    BY <1>0, <2>2, <2>3, <2>4 DEF Sandboxed, Cwd, Preparing, Closing, CallFields
  <2>6. QED BY <2>1, <2>2, <2>5, OneSandbox
<1>4. QED BY <1>1, <1>2, <1>3

(* Later steps of the run leave agent, configuration, policy and program     *)
(* what they were.                                                           *)
LEMMA RunsOnSandboxed ==
  ASSUME SandboxInv, NEW k \in Calls, child' = child \/ Forget(k),
         call' = call \/ call' = [call EXCEPT ![k] = call'[k]],
         DOMAIN call'[k] = CallFields,
         \A f \in {"agent", "config", "policy"} : call'[k][f] = call[k][f],
         call'[k].pc = call[k].pc \/ "idle" \notin {call[k].pc, call'[k].pc},
         call[k].pc \in {"idle", "config"} \cup Closing =>
           call'[k].pc \in Closing \/ call'[k].pc = call[k].pc,
         call'[k].pc \in {"idle", "config", "fence"} \cup Preparing =>
           call[k].pc \in {"idle", "config", "fence"} \cup Preparing
  PROVE  SandboxInv'
<1>1. Sandboxed(k) /\ DOMAIN call = Calls /\ DOMAIN child = Calls BY DEF SandboxInv
<1>2. /\ DOMAIN child'[k] = ChildFields /\ child'[k].cwd = child[k].cwd
      /\ child'[k].state = child[k].state /\ child'[k].descendant = child[k].descendant
  BY <1>1 DEF Sandboxed, Forget, NoChild, ChildFields
<1>3. call'[k].agent = call[k].agent /\ call'[k].config = call[k].config /\ call'[k].policy = call[k].policy
  OBVIOUS
<1>4. Sandboxed(k)' BY <1>1, <1>2, <1>3 DEF Sandboxed, Alive, Cwd
<1>5. call' = call \/ \E r : call' = [call EXCEPT ![k] = r] OBVIOUS
<1>6. child' = child \/ \E r : child' = [child EXCEPT ![k] = r] BY DEF Forget
<1>7. QED BY <1>4, <1>5, <1>6, OneSandbox

(* What RunsOnSandboxed asks of a step, but for the program.                 *)
RunsOn(k) ==
  /\ call' = [call EXCEPT ![k] = call'[k]] /\ DOMAIN call'[k] = CallFields
  /\ \A f \in {"agent", "config", "policy"} : call'[k][f] = call[k][f]

LEMMA StepsRunOn ==
  ASSUME SandboxInv, NEW k \in Calls, Step(k) \/ Stages(k) \/ Crash(k), ~Resolve(k), ~Spawn(k)
  PROVE  SandboxInv'
<1>0. DOMAIN call[k] = CallFields /\ DOMAIN call = Calls BY DEF SandboxInv, Sandboxed
<1>1. CASE CaptureFence(k) \/ ReadHead(k)
  <2>1. RunsOn(k) /\ child' = child BY <1>0, <1>1 DEF CaptureFence, ReadHead, RunsOn, CallFields
  <2>2. <<call[k].pc, call'[k].pc>> \in {<<"fence", "home">>, <<"fence", "spawn">>, <<"head", "index">>}
    BY <1>0, <1>1 DEF CaptureFence, ReadHead, CallFields
  <2>3. QED BY <2>1, <2>2, RunsOnSandboxed DEF RunsOn, Preparing, Closing
<1>2. CASE \/ MakeHome(k) \/ AssertSupportedIndex(k) \/ AssertClean(k) \/ MakeContainer(k)
           \/ MakeWorkspace(k) \/ CreateStagingClone(k) \/ StillOwned(k)
  <2>1. /\ child' = child /\ call[k].pc \in Preparing
        /\ \E pc \in Preparing \cup {"spawn"} : Goto(k, pc)
    BY <1>2 DEF MakeHome, AssertSupportedIndex, AssertClean, MakeContainer, MakeWorkspace,
         CreateStagingClone, StillOwned, Preparing
  <2>2. RunsOn(k) BY <1>0, <2>1 DEF Goto, RunsOn, CallFields
  <2>3. call'[k].pc \in Preparing \cup {"spawn"} BY <1>0, <2>1 DEF Goto, CallFields
  <2>4. QED BY <2>1, <2>2, <2>3, RunsOnSandboxed DEF RunsOn, Preparing, Closing
<1>3. CASE Close(k) \/ GitAdd(k) \/ AssertStagingStillSafe(k) \/ AcquireAuthority(k) \/ AssertEligible(k)
  <2>1. /\ child' = child /\ call[k].pc \in {"running", "add", "audit", "lock", "lifecycle"}
        /\ \E pc \in {"answer", "manifest", "lock", "lifecycle", "record", "publish"} : Goto(k, pc)
    BY <1>3 DEF Close, GitAdd, AssertStagingStillSafe, AcquireAuthority, AssertEligible
  <2>2. RunsOn(k) BY <1>0, <2>1 DEF Goto, RunsOn, CallFields
  <2>3. call'[k].pc \in {"answer", "manifest", "lock", "lifecycle", "record", "publish"}
    BY <1>0, <2>1 DEF Goto, CallFields
  <2>4. QED BY <2>1, <2>2, <2>3, RunsOnSandboxed DEF RunsOn, Preparing, Closing
<1>4. CASE Answer(k) \/ Manifest(k) \/ WriteTree(k) \/ MakePatch(k)
  <2>1. RunsOn(k) /\ child' = child
    BY <1>0, <1>4 DEF Answer, Manifest, WriteTree, MakePatch, RunsOn, CallFields
  <2>2. /\ call[k].pc \in {"answer", "manifest", "tree", "patch"}
        /\ call'[k].pc \in {"add", "lock", "tree", "audit", "patch"}
    BY <1>0, <1>4 DEF Answer, Manifest, WriteTree, MakePatch, CallFields
  <2>3. QED BY <2>1, <2>2, RunsOnSandboxed DEF RunsOn, Preparing, Closing
<1>5. CASE Publish(k) \/ (Record(k) /\ Passes(call[k].answer))
  <2>1. /\ child' = child /\ call[k].pc \in {"publish", "record"}
        /\ \E pc \in {"record", "publish", "complete"} : Goto(k, pc)
    BY <1>5 DEF Publish, Record, Goto
  <2>2. RunsOn(k) BY <1>0, <2>1 DEF Goto, RunsOn, CallFields
  <2>3. call'[k].pc \in {"record", "publish", "complete"} BY <1>0, <2>1 DEF Goto, CallFields
  <2>4. QED BY <2>1, <2>2, <2>3, RunsOnSandboxed DEF RunsOn, Preparing, Closing
<1>6. CASE \/ (Record(k) /\ ~Passes(call[k].answer)) \/ MarkCompleted(k)
           \/ ReleaseAuthority(k) \/ ReleaseFails(k) \/ Dispose(k) \/ DisposeFails(k)
  <2>1. RunsOn(k) /\ child' = child
    BY <1>0, <1>6 DEF Record, MarkCompleted, ReleaseAuthority, ReleaseFails, Dispose, DisposeFails, Goto, disk,
         RunsOn, CallFields
  <2>2. /\ call[k].pc \in {"record", "complete", "release", "dispose"} /\ call'[k].pc \in Closing
    BY <1>0, <1>6 DEF Record, MarkCompleted, ReleaseAuthority, ReleaseFails, Dispose, DisposeFails, Goto, Closing,
         CallFields
  <2>3. QED BY <2>1, <2>2, RunsOnSandboxed DEF RunsOn, Preparing, Closing
<1>7. CASE Throw(k) \/ Crash(k)
  <2>1. RunsOn(k) /\ Forget(k)
    BY <1>0, <1>7 DEF Throw, Crash, RunsOn, CallFields
  <2>2. call[k].pc # "idle" /\ call'[k].pc \in Closing
    BY <1>0, <1>7 DEF Throw, Crash, Throwing, GitStages, Locked, Closing, CallFields
  <2>3. QED BY <2>1, <2>2, RunsOnSandboxed DEF RunsOn, Preparing, Closing
<1>8. CASE Stages(k)
  <2>1. RunsOn(k) /\ child' = child /\ call'[k].pc = call[k].pc
    BY <1>0, <1>8 DEF Stages, RunsOn, CallFields
  <2>2. QED BY <2>1, RunsOnSandboxed DEF RunsOn
<1>9. QED BY <1>1, <1>2, <1>3, <1>4, <1>5, <1>6, <1>7, <1>8 DEF Step

(* A program never moves, and what it was started with stays alive or ends.  *)
LEMMA ProgramsStay ==
  ASSUME SandboxInv, NEW k \in Calls,
         \/ Writes(k) \/ Exits(k) \/ DescendantWrites(k) \/ DescendantEnds(k)
         \/ Timeout(k) \/ KillAfterGrace(k)
  PROVE  SandboxInv'
<1>0. Sandboxed(k) /\ DOMAIN child = Calls BY DEF SandboxInv
<1>1. /\ call' = call /\ child' = [child EXCEPT ![k] = child'[k]] /\ DOMAIN child'[k] = ChildFields
      /\ child'[k].cwd = child[k].cwd
      /\ child'[k].state = "running" \/ child'[k].descendant # "none" => Alive(k)
  <2>1. CASE Writes(k)
    <3>1. call' = call /\ child[k].state = "running" BY <2>1 DEF Writes
    <3>2. \E o, t : child' = [child EXCEPT ![k].overflowed = o, ![k].text = t] \/ child' = [child EXCEPT ![k].text = t]
      BY <2>1 DEF Writes
    <3>3. QED BY <1>0, <3>1, <3>2 DEF Sandboxed, ChildFields, Alive
  <2>2. CASE Exits(k)
    <3>1. PICK code \in {0, 1, 9}, d \in {"none", "holding", "detached"} :
            child' = [child EXCEPT ![k].state = "exited", ![k].code = code, ![k].descendant = d]
      BY <2>2, Zenon DEF Exits
    <3>2. call' = call /\ Alive(k) BY <2>2 DEF Exits, Alive
    <3>3. DOMAIN child[k] = ChildFields BY <1>0 DEF Sandboxed
    <3>4. QED BY <1>0, <3>1, <3>2, <3>3 DEF ChildFields
  <2>3. CASE DescendantWrites(k) \/ DescendantEnds(k)
    BY <1>0, <2>3 DEF DescendantWrites, DescendantEnds, Sandboxed, ChildFields, Alive
  <2>4. CASE Timeout(k) \/ KillAfterGrace(k)
    BY <1>0, <2>4 DEF Timeout, KillAfterGrace, Sandboxed, ChildFields, Alive
  <2>5. QED BY <2>1, <2>2, <2>3, <2>4
<1>2. Sandboxed(k)' BY <1>0, <1>1 DEF Sandboxed, Alive, Cwd
<1>3. (call' = call \/ \E r : call' = [call EXCEPT ![k] = r]) /\ (child' = child \/ \E r : child' = [child EXCEPT ![k] = r])
  BY <1>1
<1>4. QED BY <1>2, <1>3, OneSandbox

LEMMA SandboxStep == SandboxInv /\ [Next]_vars => SandboxInv'
<1> SUFFICES ASSUME SandboxInv, [Next]_vars PROVE SandboxInv' OBVIOUS
<1>1. ASSUME UNCHANGED <<call, child>> PROVE SandboxInv'
  BY <1>1 DEF SandboxInv, Sandboxed, Alive, Cwd
<1>2. CASE UNCHANGED vars \/ UserEdits \/ UserCommits \/ ForceRelease \/ OpenTask \/ EndTask
  BY <1>1, <1>2 DEF vars, UserEdits, UserCommits, ForceRelease, OpenTask, EndTask
<1>3. ASSUME NEW k \in Calls, Edits(k) PROVE SandboxInv' BY <1>1, <1>3 DEF Edits
<1>4. ASSUME NEW k \in Calls, Invoke(k) \/ Step(k) \/ Stages(k) \/ Crash(k) PROVE SandboxInv'
  BY <1>4, StartsSandboxed, StepsRunOn
<1>5. ASSUME NEW k \in Calls,
             \/ Writes(k) \/ Exits(k) \/ DescendantWrites(k) \/ DescendantEnds(k)
             \/ Timeout(k) \/ KillAfterGrace(k)
      PROVE  SandboxInv'
  BY <1>5, ProgramsStay
<1>6. QED BY <1>2, <1>3, <1>4, <1>5 DEF Next, Program

LEMMA SandboxInvariant == Spec => []SandboxInv
<1>1. Init => SandboxInv
  BY DEF Init, SandboxInv, Sandboxed, NoCall, NoChild, CallFields, ChildFields, Alive
<1>2. QED BY <1>1, SandboxStep, PTL DEF Spec

(* A policy that writes is CODER's only.                                     *)
LEMMA OnlyWritersWrite ==
  ASSUME NEW config, NEW policy, config.provider \in Providers, policy.source = "read_only"
  PROVE  ~ProgramOf(config, policy).writes
<1>1. ~ClaudeProgram(policy).writes
  BY DEF ClaudeProgram, ClaudeTools, ReadTools, WriteTools, WebTools
<1>2. ~CodexProgram(policy).writes BY DEF CodexProgram, CodexSandbox
<1>3. ~AntigravityProgram(policy).writes BY DEF AntigravityProgram
<1>4. QED BY <1>1, <1>2, <1>3 DEF ProgramOf, Providers

(* Whatever program answers for whatever agent, and whatever of it lives on  *)
(* after its run: it never edits the registered source.                      *)
THEOREM OnlyTheUserEdits == Spec => SourceOnlyByUser
<1>1. SandboxInv /\ [Next]_vars => [\A k \in Calls : Edits(k) => UNCHANGED source]_vars
  <2> SUFFICES ASSUME SandboxInv, NEW k \in Calls, Edits(k) PROVE UNCHANGED source OBVIOUS
  <2>1. Sandboxed(k) /\ Alive(k) /\ ProgramOf(call[k].config, call[k].policy).writes
    BY DEF SandboxInv, Edits
  <2>2. call[k].pc # "idle" BY <2>1 DEF Sandboxed
  <2>3. call[k].policy.source # "read_only" BY <2>1, OnlyWritersWrite DEF Sandboxed
  <2>4. call[k].agent = "coder"
    BY <2>1, <2>2, <2>3 DEF Sandboxed, SourceModification, ModifiesSource
  <2>5. child[k].cwd = "staging" BY <2>1, <2>4 DEF Sandboxed, Cwd
  <2>6. QED BY <2>5 DEF Edits
<1>2. QED BY <1>1, SandboxInvariant, PTL DEF SourceOnlyByUser, Spec
-----------------------------------------------------------------------------
(* The keys of a role's wire form and the fields they stand for are one to   *)
(* one, and what is JSON text on the wire is a payload.                      *)
LEMMA KeysMatch ==
  ASSUME NEW agent \in TaskRoles
  PROVE  /\ \A x, y \in RoleKeys[agent] : CoreKey(agent, x) = CoreKey(agent, y) => x = y
         /\ \A x \in RoleKeys[agent] : x \in Opaque <=> CoreKey(agent, x) \in PayloadFields
<1>1. CASE agent = "questioner"
  BY <1>1 DEF RoleKeys, CoreKey, Opaque, PayloadFields
<1>2. CASE agent = "planner"
  BY <1>2 DEF RoleKeys, CoreKey, Opaque, PayloadFields
<1>3. CASE agent = "coder"
  BY <1>3 DEF RoleKeys, CoreKey, Opaque, PayloadFields, PayloadField
<1>4. CASE agent = "reviewer"
  BY <1>4 DEF RoleKeys, CoreKey, Opaque, PayloadFields, PayloadField
<1>5. QED BY <1>1, <1>2, <1>3, <1>4 DEF TaskRoles, Agents

(* What a program that follows the schema writes, decoded, is what it meant. *)
LEMMA WireRoundTrip ==
  ASSUME NEW agent \in TaskRoles, NEW r \in Results, SchemaAdmits(agent, r)
  PROVE  DecodeCodex(agent, ToWire(agent, r)) = r
<1> DEFINE wire == ToWire(agent, r)
           core(key) == CoreKey(agent, key)
           sent == [key \in RoleKeys[agent] |->
                      IF core(key) \notin DOMAIN r.body THEN "null"
                      ELSE IF key \in Opaque THEN "text:json" ELSE r.body[core(key)]]
           present == {key \in RoleKeys[agent] : core(key) \in DOMAIN r.body}
           fields == {"agent", "outcome", "warnings", "calls", "actions", "body"}
<1>1. /\ r = [field \in fields |-> r[field]]
      /\ r.body = [field \in DOMAIN r.body |-> r.body[field]]
  BY ResultsAssumption
<1>2. wire = [r EXCEPT !.body = sent] BY DEF ToWire
<1> HIDE DEF wire
<1>3. wire.body = sent BY <1>1, <1>2
<1>4. \A key \in RoleKeys[agent] \cap Required : core(key) \in DOMAIN r.body
  BY DEF SchemaAdmits
<1>5. \A key \in RoleKeys[agent] : ~Malformed(key, sent[key])
  BY <1>4 DEF Malformed
<1>6. \A field \in DOMAIN r.body :
        IF field \in PayloadFields THEN r.body[field] = "json" ELSE r.body[field] # "null"
  BY DEF SchemaAdmits
<1>7. present = {key \in DOMAIN wire.body : wire.body[key] # "null" \/ key \in Required}
  <2>1. \A key \in RoleKeys[agent] : core(key) \in DOMAIN r.body => sent[key] # "null"
    BY <1>6, KeysMatch
  <2>2. QED BY <1>3, <1>4, <2>1
<1>8. {core(key) : key \in present} = DOMAIN r.body
  BY DEF SchemaAdmits, SchemaFields
<1>9. ASSUME NEW field \in DOMAIN r.body
      PROVE  LET key == CHOOSE k \in present : core(k) = field IN FromWire(key, wire.body[key]) = r.body[field]
  <2> DEFINE key == CHOOSE k \in present : core(k) = field
  <2>1. key \in present /\ core(key) = field BY <1>8
  <2> HIDE DEF key
  <2>2. key \in Opaque <=> field \in PayloadFields BY <2>1, KeysMatch
  <2>3. FromWire(key, wire.body[key]) = r.body[field] BY <1>3, <1>6, <2>1, <2>2 DEF FromWire
  <2>4. QED BY <2>3 DEF key
<1> DEFINE decoded(keys) ==
             [field \in {core(key) : key \in keys} |->
                LET key == CHOOSE k \in keys : core(k) = field IN FromWire(key, wire.body[key])]
<1>10. decoded(present) = r.body BY <1>1, <1>8, <1>9
<1>11. DecodeCodex(agent, wire) = [wire EXCEPT !.body = decoded(present)]
  <2> DEFINE written == {key \in DOMAIN wire.body : wire.body[key] # "null" \/ key \in Required}
  <2>1. DOMAIN wire.body = RoleKeys[agent] /\ ~\E key \in DOMAIN wire.body : Malformed(key, wire.body[key])
    BY <1>3, <1>5
  <2>2. DecodeCodex(agent, wire) =
          IF DOMAIN wire.body # RoleKeys[agent] \/ \E key \in DOMAIN wire.body : Malformed(key, wire.body[key])
          THEN Nothing ELSE [wire EXCEPT !.body = decoded(written)]
    BY Zenon DEF DecodeCodex
  <2> HIDE DEF decoded, present
  <2>3. written = present BY <1>7
  <2>4. QED BY <2>1, <2>2, <2>3
<1> HIDE DEF decoded, present, sent
<1>12. QED BY <1>1, <1>2, <1>10, <1>11 DEF wire

(* While a program is listened to, it says a result its schema admits; once  *)
(* there is an answer, its program is over and nothing writes for it.        *)
Answering == Capturing \cup Locked \cup {"lock", "dispose", "ended"}
Answered(k) ==
  /\ call[k].pc # "idle" => call[k].agent \in RunAgents
  /\ call[k].pc = "idle" => child[k].text = "none"
  /\ child[k].text \in {"none", "part", "whole", "garbled", "error"}
  /\ child[k].text = "error" => call[k].config.provider # "openai"
  /\ call[k].pc \in {"running", "answer"} =>
       child[k].said \in Results /\ SchemaAdmits(call[k].agent, child[k].said)
  /\ call[k].pc = "answer" => child[k].state = "exited"
  /\ call[k].answer # Nothing =>
       /\ call[k].pc \in Answering /\ child[k].state = "exited"
       /\ child[k].code = 0 /\ child[k].signal = "none" /\ child[k].text = "whole"
       /\ call[k].answer = child[k].said
AnswerInv == SandboxInv /\ \A k \in Calls : Answered(k)

LEMMA OneAnswer ==
  ASSUME AnswerInv, NEW k \in Calls, SandboxInv',
         call' = call \/ \E r : call' = [call EXCEPT ![k] = r],
         child' = child \/ \E r : child' = [child EXCEPT ![k] = r],
         Answered(k)'
  PROVE  AnswerInv'
<1>1. ASSUME NEW x \in Calls \ {k} PROVE Answered(x)'
  <2>1. call'[x] = call[x] /\ child'[x] = child[x] BY DEF AnswerInv, SandboxInv
  <2>2. QED BY <2>1 DEF AnswerInv, Answered
<1>2. QED BY <1>1 DEF AnswerInv

(* A program that ended well expressed what its executor returns.            *)
LEMMA AcceptedWasSaid ==
  ASSUME AnswerInv, NEW k \in Calls, call[k].pc = "answer",
         Accepted(call[k].config, call[k].agent, End(k)) # Nothing
  PROVE  /\ child[k].code = 0 /\ child[k].signal = "none" /\ child[k].text = "whole"
         /\ Accepted(call[k].config, call[k].agent, End(k)) = child[k].said
<1> DEFINE end == End(k) agent == call[k].agent said == child[k].said provider == call[k].config.provider
<1>1. /\ end.text = child[k].text /\ end.code = child[k].code /\ end.timedOut = (child[k].signal # "none")
      /\ end.answer = (IF provider = "openai" THEN ToWire(agent, said) ELSE said)
  BY DEF End
<1>2. /\ provider \in Providers /\ agent \in TaskRoles /\ said \in Results /\ SchemaAdmits(agent, said)
      /\ child[k].text \in {"none", "part", "whole", "garbled", "error"}
      /\ child[k].text = "error" => provider # "openai"
  BY RunAgentsAssumption DEF AnswerInv, SandboxInv, Sandboxed, Answered, Preparing, Closing
<1> HIDE DEF end
<1>3. CASE provider = "openai"
  <2>1. Accepted(call[k].config, agent, end) = CodexAccepted(agent, end) BY <1>3 DEF Accepted
  <2>2. SuccessfulCodex(end) /\ ReadableResult(end) BY <2>1 DEF CodexAccepted, end
  <2>3. Accepted(call[k].config, agent, end) = DecodeCodex(agent, ToWire(agent, said))
    BY <1>1, <1>3, <2>1, <2>2 DEF CodexAccepted
  <2>4. DecodeCodex(agent, ToWire(agent, said)) = said BY <1>2, WireRoundTrip
  <2>5. QED BY <1>1, <1>2, <1>3, <2>2, <2>3, <2>4 DEF SuccessfulCodex, ReadableResult, end
<1>4. CASE provider = "anthropic"
  <2>1. Accepted(call[k].config, agent, end) = ClaudeAccepted(end) BY <1>4 DEF Accepted
  <2>2. QED BY <1>1, <1>4, <2>1 DEF ClaudeAccepted, SuccessfulClaude, DecodeClaude, end
<1>5. CASE provider = "google"
  <2>1. Accepted(call[k].config, agent, end) = AntigravityAccepted(end) BY <1>5 DEF Accepted
  <2>2. QED BY <1>1, <1>5, <2>1 DEF AntigravityAccepted, SuccessfulAntigravity, DecodeAntigravity, end
<1>6. QED BY <1>2, <1>3, <1>4, <1>5 DEF Providers

(* The start and the end of a run, and its answer.                           *)
LEMMA MilestonesAnswer ==
  ASSUME AnswerInv, SandboxInv', NEW k \in Calls,
         Invoke(k) \/ Spawn(k) \/ Close(k) \/ Answer(k) \/ Throw(k) \/ Crash(k)
  PROVE  AnswerInv'
<1>0. /\ DOMAIN call = Calls /\ DOMAIN child = Calls
      /\ DOMAIN call[k] = CallFields /\ DOMAIN child[k] = ChildFields /\ Answered(k)
  BY DEF AnswerInv, SandboxInv, Sandboxed
<1>1. CASE Invoke(k)
  <2>1. PICK agent, config, policy :
          /\ agent \in RunAgents
          /\ call' = [call EXCEPT ![k] = [NoCall EXCEPT !.pc = "config", !.agent = agent, !.config = config, !.policy = policy]]
    BY <1>1 DEF Invoke
  <2>2. child' = child /\ call[k].pc = "idle" BY <1>1 DEF Invoke
  <2>3. call'[k].pc = "config" /\ call'[k].agent \in RunAgents /\ call'[k].answer = Nothing
    BY <1>0, <2>1 DEF NoCall
  <2>4. Answered(k)' BY <1>0, <2>2, <2>3 DEF Answered
  <2>5. QED BY <2>1, <2>2, <2>4, OneAnswer
<1>2. CASE Spawn(k)
  <2>1. PICK r \in Results : /\ SchemaAdmits(call[k].agent, r)
                             /\ child' = [child EXCEPT ![k] = [NoChild EXCEPT !.state = "running", !.cwd = Cwd(k), !.said = r]]
    BY <1>2 DEF Spawn
  <2>2. call' = [call EXCEPT ![k] = [call[k] EXCEPT !.pc = "running"]] /\ call[k].pc = "spawn"
    BY <1>2 DEF Spawn, Goto
  <2>3. call'[k].pc = "running" /\ \A f \in CallFields \ {"pc"} : call'[k][f] = call[k][f]
    BY <1>0, <2>2 DEF CallFields
  <2>4. child'[k].said = r /\ child'[k].text = "none" BY <1>0, <2>1 DEF NoChild
  <2>5. Answered(k)'
    BY <1>0, <2>1, <2>2, <2>3, <2>4 DEF Answered, CallFields, Answering, Capturing, Locked
  <2>6. QED BY <2>1, <2>2, <2>5, OneAnswer
<1>3. CASE Close(k)
  <2>1. child' = child /\ child[k].state = "exited" /\ call[k].pc = "running"
        /\ call' = [call EXCEPT ![k] = [call[k] EXCEPT !.pc = "answer"]]
    BY <1>3 DEF Close, Goto
  <2>2. call'[k].pc = "answer" /\ \A f \in CallFields \ {"pc"} : call'[k][f] = call[k][f]
    BY <1>0, <2>1 DEF CallFields
  <2>3. Answered(k)' BY <1>0, <2>1, <2>2 DEF Answered, CallFields, Answering, Capturing, Locked
  <2>4. QED BY <2>1, <2>3, OneAnswer
<1>4. CASE Answer(k)
  <2> DEFINE r == Accepted(call[k].config, call[k].agent, End(k))
             pc == IF call[k].agent = "coder" THEN "add" ELSE "lock"
  <2>1. /\ child' = child /\ call[k].pc = "answer" /\ r # Nothing
        /\ call' = [call EXCEPT ![k] = [call[k] EXCEPT !.pc = pc, !.answer = r]]
    BY <1>4 DEF Answer
  <2> HIDE DEF r
  <2>2. /\ call'[k].pc = pc /\ call'[k].answer = r
        /\ \A f \in CallFields \ {"pc", "answer"} : call'[k][f] = call[k][f]
    BY <1>0, <2>1 DEF CallFields
  <2>3. /\ child[k].code = 0 /\ child[k].signal = "none" /\ child[k].text = "whole" /\ r = child[k].said
    BY <2>1, AcceptedWasSaid DEF r
  <2>4. Answered(k)'
    BY <1>0, <2>1, <2>2, <2>3 DEF Answered, CallFields, Answering, Capturing, Locked
  <2>5. QED BY <2>1, <2>4, OneAnswer
<1>5. CASE Throw(k) \/ Crash(k)
  <2>1. /\ call' = [call EXCEPT ![k] = call'[k]] /\ call'[k].answer = Nothing
        /\ call'[k].pc \in {"dispose", "crashed"} /\ call[k].pc # "idle"
        /\ call'[k].agent = call[k].agent
    BY <1>0, <1>5 DEF Throw, Crash, Throwing, GitStages, Locked, CallFields
  <2>2. child' = [child EXCEPT ![k] = child'[k]] /\ child'[k].text = "none"
    BY <1>0, <1>5 DEF Throw, Crash, Forget, NoChild
  <2>3. Answered(k)' BY <1>0, <2>1, <2>2 DEF Answered
  <2>4. QED BY <2>1, <2>2, <2>3, OneAnswer
<1>6. QED BY <1>1, <1>2, <1>3, <1>4, <1>5

(* The other steps of a run neither answer nor listen.                       *)
LEMMA RunsOnAnswer ==
  ASSUME AnswerInv, SandboxInv', NEW k \in Calls, child' = child, RunsOn(k),
         call'[k].answer = call[k].answer, call[k].pc # "idle",
         call'[k].pc \notin {"idle", "running", "answer"},
         call[k].pc \in Answering => call'[k].pc \in Answering
  PROVE  AnswerInv'
<1>1. Answered(k) BY DEF AnswerInv
<1>2. call'[k].agent = call[k].agent /\ call'[k].config = call[k].config BY DEF RunsOn
<1>3. Answered(k)' BY <1>1, <1>2 DEF Answered
<1>4. QED BY <1>3, OneAnswer DEF RunsOn

LEMMA StepsAnswer ==
  ASSUME AnswerInv, SandboxInv', NEW k \in Calls, Step(k) \/ Stages(k),
         ~(Spawn(k) \/ Close(k) \/ Answer(k) \/ Throw(k))
  PROVE  AnswerInv'
<1>0. DOMAIN call[k] = CallFields /\ DOMAIN call = Calls BY DEF AnswerInv, SandboxInv, Sandboxed
<1>1. CASE \/ Resolve(k) \/ MakeHome(k) \/ AssertSupportedIndex(k) \/ AssertClean(k) \/ MakeContainer(k)
           \/ MakeWorkspace(k) \/ CreateStagingClone(k) \/ StillOwned(k)
  <2>1. /\ child' = child /\ call[k].pc \in Preparing \cup {"config"}
        /\ \E pc \in Preparing \cup {"fence", "spawn"} : Goto(k, pc)
    BY <1>1 DEF Resolve, MakeHome, AssertSupportedIndex, AssertClean, MakeContainer, MakeWorkspace,
         CreateStagingClone, StillOwned, Preparing
  <2>2. RunsOn(k) /\ call'[k].answer = call[k].answer BY <1>0, <2>1 DEF Goto, RunsOn, CallFields
  <2>3. call'[k].pc \in Preparing \cup {"fence", "spawn"} BY <1>0, <2>1 DEF Goto, CallFields
  <2>4. QED BY <2>1, <2>2, <2>3, RunsOnAnswer DEF Preparing, Answering, Capturing, Locked
<1>2. CASE CaptureFence(k) \/ ReadHead(k)
  <2>1. RunsOn(k) /\ child' = child /\ call'[k].answer = call[k].answer
    BY <1>0, <1>2 DEF CaptureFence, ReadHead, RunsOn, CallFields
  <2>2. call[k].pc \in {"fence", "head"} /\ call'[k].pc \in {"home", "spawn", "index"}
    BY <1>0, <1>2 DEF CaptureFence, ReadHead, CallFields
  <2>3. QED BY <2>1, <2>2, RunsOnAnswer DEF Answering, Capturing, Locked
<1>3. CASE \/ GitAdd(k) \/ Manifest(k) \/ WriteTree(k) \/ MakePatch(k) \/ AssertStagingStillSafe(k)
           \/ AcquireAuthority(k) \/ AssertEligible(k) \/ Stages(k)
  <2>1. /\ RunsOn(k) /\ child' = child /\ call'[k].answer = call[k].answer
        /\ call[k].pc \in Answering /\ call'[k].pc \in Answering
    <3>1. CASE Manifest(k) \/ WriteTree(k) \/ MakePatch(k)
      BY <1>0, <3>1 DEF Manifest, WriteTree, MakePatch, RunsOn, CallFields, Answering, Capturing
    <3>2. CASE GitAdd(k) \/ AssertStagingStillSafe(k) \/ AcquireAuthority(k) \/ AssertEligible(k)
      <4>1. /\ child' = child /\ call[k].pc \in Answering
            /\ \E pc \in {"manifest", "lock", "lifecycle", "record", "publish"} : Goto(k, pc)
        BY <3>2 DEF GitAdd, AssertStagingStillSafe, AcquireAuthority, AssertEligible, Answering, Capturing, Locked
      <4>2. QED BY <1>0, <4>1 DEF Goto, RunsOn, CallFields, Answering, Capturing, Locked
    <3>3. CASE Stages(k)
      BY <1>0, <3>3 DEF Stages, RunsOn, CallFields, Answering
    <3>4. QED BY <1>3, <3>1, <3>2, <3>3
  <2>2. QED BY <2>1, RunsOnAnswer DEF Answering, Capturing, Locked
<1>4. CASE Publish(k) \/ (Record(k) /\ Passes(call[k].answer))
  <2>1. /\ child' = child /\ call[k].pc \in {"publish", "record"}
        /\ \E pc \in {"record", "publish", "complete"} : Goto(k, pc)
    BY <1>4 DEF Publish, Record, Goto
  <2>2. RunsOn(k) /\ call'[k].answer = call[k].answer BY <1>0, <2>1 DEF Goto, RunsOn, CallFields
  <2>3. call'[k].pc \in {"record", "publish", "complete"} BY <1>0, <2>1 DEF Goto, CallFields
  <2>4. QED BY <2>1, <2>2, <2>3, RunsOnAnswer DEF Answering, Locked
<1>5. CASE \/ (Record(k) /\ ~Passes(call[k].answer)) \/ MarkCompleted(k)
           \/ ReleaseAuthority(k) \/ ReleaseFails(k) \/ Dispose(k) \/ DisposeFails(k)
  <2>1. RunsOn(k) /\ child' = child /\ call'[k].answer = call[k].answer
    BY <1>0, <1>5 DEF Record, MarkCompleted, ReleaseAuthority, ReleaseFails, Dispose, DisposeFails, Goto, disk,
         RunsOn, CallFields
  <2>2. /\ call[k].pc \in {"record", "complete", "release", "dispose"}
        /\ call'[k].pc \in {"release", "dispose", "ended"}
    BY <1>0, <1>5 DEF Record, MarkCompleted, ReleaseAuthority, ReleaseFails, Dispose, DisposeFails, Goto, CallFields
  <2>3. QED BY <2>1, <2>2, RunsOnAnswer DEF Answering, Locked
<1>6. QED BY <1>1, <1>2, <1>3, <1>4, <1>5 DEF Step

(* A program writes while it runs, and others only while it is waited for.   *)
LEMMA ProgramsAnswer ==
  ASSUME AnswerInv, SandboxInv', NEW k \in Calls,
         \/ Writes(k) \/ Exits(k) \/ DescendantWrites(k) \/ DescendantEnds(k)
         \/ Timeout(k) \/ KillAfterGrace(k)
  PROVE  AnswerInv'
<1>0. Answered(k) /\ Sandboxed(k) /\ DOMAIN child = Calls /\ DOMAIN child[k] = ChildFields
  BY DEF AnswerInv, SandboxInv, Sandboxed
<1>1. call' = call BY DEF Writes, Exits, DescendantWrites, DescendantEnds, Timeout, KillAfterGrace
<1>2. CASE Writes(k)
  <2>1. child[k].state = "running" BY <1>2 DEF Writes
  <2>2. call[k].answer = Nothing /\ call[k].pc # "answer" BY <1>0, <2>1 DEF Answered
  <2>3. call[k].pc # "idle" BY <1>0, <2>1 DEF Sandboxed, Alive
  <2>4. PICK text \in {"part", "whole", "error"} :
          /\ child'[k].text = text /\ child' = [child EXCEPT ![k] = child'[k]]
          /\ child'[k].said = child[k].said
          /\ text = "error" => call[k].config.provider # "openai"
    <3>1. CASE ProgramOf(call[k].config, call[k].policy).answers = "file"
      <4>1. PICK text \in {"part", "whole"} : child' = [child EXCEPT ![k].text = text]
        BY <1>2, <3>1 DEF Writes
      <4>2. QED BY <1>0, <4>1 DEF ChildFields
    <3>2. CASE ProgramOf(call[k].config, call[k].policy).answers # "file"
      <4>1. PICK size \in 1 .. StdoutLimit + 1, text \in {"part", "error", "whole"} :
              child' = [child EXCEPT ![k].overflowed = Capture(text, size, StdoutLimit).overflowed,
                                     ![k].text = Capture(text, size, StdoutLimit).text]
        BY <1>2, <3>2, Zenon DEF Writes
      <4>2. Capture(text, size, StdoutLimit).text \in {"part", text} BY DEF Capture
      <4>3. call[k].config.provider # "openai" BY <3>2 DEF ProgramOf, CodexProgram
      <4>4. /\ child'[k].text = Capture(text, size, StdoutLimit).text
            /\ child' = [child EXCEPT ![k] = child'[k]] /\ child'[k].said = child[k].said
        BY <1>0, <4>1 DEF ChildFields
      <4>5. QED BY <4>2, <4>3, <4>4
    <3>3. QED BY <3>1, <3>2
  <2>5. Answered(k)' BY <1>0, <1>1, <2>2, <2>3, <2>4 DEF Answered
  <2>6. QED BY <1>1, <2>4, <2>5, OneAnswer
<1>3. CASE Exits(k)
  <2>1. child[k].state = "running" BY <1>3 DEF Exits
  <2>2. PICK code \in {0, 1, 9}, d \in {"none", "holding", "detached"} :
          child' = [child EXCEPT ![k].state = "exited", ![k].code = code, ![k].descendant = d]
    BY <1>3, Zenon DEF Exits
  <2>3. call[k].answer = Nothing BY <1>0, <2>1 DEF Answered
  <2>4. child' = [child EXCEPT ![k] = child'[k]] /\ child'[k].state = "exited"
        /\ child'[k].text = child[k].text /\ child'[k].said = child[k].said
    BY <1>0, <2>2 DEF ChildFields
  <2>5. Answered(k)' BY <1>0, <1>1, <2>3, <2>4 DEF Answered
  <2>6. QED BY <1>1, <2>4, <2>5, OneAnswer
<1>4. CASE DescendantWrites(k) \/ Timeout(k) \/ KillAfterGrace(k)
  <2>1. call[k].pc = "running" BY <1>4 DEF DescendantWrites, Timeout, KillAfterGrace
  <2>2. call[k].answer = Nothing BY <1>0, <2>1 DEF Answered, Answering, Capturing, Locked
  <2>3. /\ child' = [child EXCEPT ![k] = child'[k]] /\ child'[k].said = child[k].said
        /\ child'[k].text \in {child[k].text, "garbled"}
    BY <1>0, <1>4 DEF DescendantWrites, Timeout, KillAfterGrace, ChildFields
  <2>4. Answered(k)' BY <1>0, <1>1, <2>1, <2>2, <2>3 DEF Answered
  <2>5. QED BY <1>1, <2>3, <2>4, OneAnswer
<1>5. CASE DescendantEnds(k)
  <2>1. /\ child' = [child EXCEPT ![k] = child'[k]]
        /\ \A f \in ChildFields \ {"descendant"} : child'[k][f] = child[k][f]
    BY <1>0, <1>5 DEF DescendantEnds, ChildFields
  <2>2. Answered(k)' BY <1>0, <1>1, <2>1 DEF Answered, ChildFields
  <2>3. QED BY <1>1, <2>1, <2>2, OneAnswer
<1>6. QED BY <1>2, <1>3, <1>4, <1>5

LEMMA AnswerStep == AnswerInv /\ [Next]_vars => AnswerInv'
<1> SUFFICES ASSUME AnswerInv, [Next]_vars PROVE AnswerInv' OBVIOUS
<1>0. SandboxInv' BY SandboxStep DEF AnswerInv
<1>1. ASSUME UNCHANGED <<call, child>> PROVE AnswerInv'
  BY <1>0, <1>1 DEF AnswerInv, Answered
<1>2. CASE UNCHANGED vars \/ UserEdits \/ UserCommits \/ ForceRelease \/ OpenTask \/ EndTask
  BY <1>1, <1>2 DEF vars, UserEdits, UserCommits, ForceRelease, OpenTask, EndTask
<1>3. ASSUME NEW k \in Calls, Edits(k) PROVE AnswerInv' BY <1>1, <1>3 DEF Edits
<1>4. ASSUME NEW k \in Calls, Invoke(k) \/ Step(k) \/ Stages(k) \/ Crash(k) PROVE AnswerInv'
  BY <1>0, <1>4, MilestonesAnswer, StepsAnswer
<1>5. ASSUME NEW k \in Calls,
             \/ Writes(k) \/ Exits(k) \/ DescendantWrites(k) \/ DescendantEnds(k)
             \/ Timeout(k) \/ KillAfterGrace(k)
      PROVE  AnswerInv'
  BY <1>0, <1>5, ProgramsAnswer
<1>6. QED BY <1>2, <1>3, <1>4, <1>5 DEF Next, Program

(* Whatever a program writes, in whatever order it writes, ends and is       *)
(* killed, and whatever its descendants add: an answer that counts is the    *)
(* result the program expressed, also through the wire form of Codex.        *)
THEOREM AnswersAreWhole == Spec => []AcceptedIsWhole
<1>1. Init => SandboxInv
  BY DEF Init, SandboxInv, Sandboxed, NoCall, NoChild, CallFields, ChildFields, Alive
<1>2. Init => AnswerInv
  BY <1>1 DEF Init, AnswerInv, Answered, NoCall, NoChild
<1>3. AnswerInv => AcceptedIsWhole BY DEF AnswerInv, Answered, AcceptedIsWhole
<1>4. QED BY <1>2, <1>3, AnswerStep, PTL DEF Spec
=============================================================================
