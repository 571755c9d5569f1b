------------------------ MODULE StateDirectoryProofs ------------------------
(***************************************************************************)
(* What StateDirectory promises for any calls, projects, tasks and rules.  *)
(***************************************************************************)
EXTENDS StateDirectory, TLAPS, WellFoundedInduction

(* A copy of a rules document that is about to be written, or that a run     *)
(* collects, is over the same agent calls and within the contracts.          *)
Within(rules) == DOMAIN rules = Edges /\ RulesWithin(rules)

EditFields == {"op", "pc", "doc", "key", "val", "i", "digest", "version", "shown", "base"}
RunFields == {"pc", "agent", "task", "session", "todo", "shown", "held", "global", "calls", "seen", "known", "report"}

(* Past the check of a value, a call writes only what the contracts permit.  *)
Checked(e) == e.pc \in {"read", "write"} \/ (e.pc \in {"agents", "ensure", "fill"} /\ e.op \notin {"page", "install", "seed"})
EditWithin(e) ==
  /\ DOMAIN e = EditFields /\ e.i \in 1..3
  /\ Checked(e) => WithinRoles(e.doc, e.key, e.val)
  /\ e.pc = "write" /\ e.doc \in RuleDocs => Within(e.base.at)
  /\ e.pc = "rewrite" /\ e.i = 3 => Within(e.base.at)
RunWithin(r) == DOMAIN r = RunFields /\ Within(r.global) /\ Within(r.calls)

DocsWithin == DOMAIN docs = Documents /\ \A d \in RuleDocs : Within(docs[d].at)
EditsWithin == DOMAIN edit = Calls /\ \A c \in Calls : EditWithin(edit[c])
RunsWithin == DOMAIN run = Calls /\ \A c \in Calls : RunWithin(run[c])

(* Only with the copies in flight is the contract of the documents kept by   *)
(* every step: a call writes what it read before other calls wrote.          *)
ContractInv == DocsWithin /\ EditsWithin /\ RunsWithin

LEMMA FirstRulesWithin == \A d \in RuleDocs : Within(Initial(d)) /\ Within(Blank(d))
<1> SUFFICES ASSUME NEW d \in RuleDocs PROVE Within(Initial(d)) /\ Within(Blank(d))
  OBVIOUS
<1>1. Within(Blank(d))
  BY DEF Within, RulesWithin, Blank, Keys
<1>2. CASE d = "rules"
  BY <1>1, <1>2 DEF Within, RulesWithin, Initial, ForbiddenEdges, AllowedAtFirst
<1>3. CASE d # "rules"
  BY <1>1, <1>3 DEF Initial
<1>4. QED
  BY <1>1, <1>2, <1>3

LEMMA ContractInit == Init => ContractInv
<1> SUFFICES ASSUME Init PROVE ContractInv
  OBVIOUS
<1>1. PICK installed \in BOOLEAN : ConfInit(installed) /\ RunInit(installed)
  BY DEF Init
<1>2. DocsWithin
  BY <1>1, FirstRulesWithin DEF DocsWithin, ConfInit, Documents, RuleDocs, Document, Empty
<1>3. EditsWithin
  BY <1>1 DEF EditsWithin, EditWithin, ConfInit, Idle, EditFields, Checked
<1>4. RunsWithin
  BY <1>1 DEF RunsWithin, RunWithin, RunInit, NotRunning, RunFields, Within, RulesWithin
<1>5. QED
  BY <1>2, <1>3, <1>4 DEF ContractInv

-----------------------------------------------------------------------------
(* One call changes at a time, and its copies with it.                       *)

LEMMA OneEdit ==
  ASSUME EditsWithin, byHand => byHand', NEW c \in Calls, NEW e,
         edit' = [edit EXCEPT ![c] = e], EditWithin(e)
  PROVE  EditsWithin'
BY DEF EditsWithin, EditWithin, Within, RulesWithin, Checked, WithinRoles

LEMMA OneRun ==
  ASSUME RunsWithin, byHand => byHand', NEW c \in Calls, NEW r,
         run' = [run EXCEPT ![c] = r], RunWithin(r)
  PROVE  RunsWithin'
BY DEF RunsWithin, RunWithin, Within, RulesWithin

LEMMA EndedWithin == ASSUME NEW c \in Calls, NEW pc \in Over PROVE EditWithin(Ended(c, pc))
BY DEF EditWithin, Ended, Idle, EditFields, Checked, Over

LEMMA GotoWithin ==
  ASSUME EditsWithin, NEW c \in Calls, byHand => byHand', NEW pc, Goto(c, pc),
         pc \notin {"write", "rewrite"},
         Checked([edit[c] EXCEPT !.pc = pc]) => WithinRoles(edit[c].doc, edit[c].key, edit[c].val)
  PROVE  EditsWithin'
<1>1. CASE pc \in Over
  BY <1>1, EndedWithin, OneEdit DEF Goto
<1>2. CASE pc \notin Over
  <2>1. EditWithin([edit[c] EXCEPT !.pc = pc])
    BY DEF EditsWithin, EditWithin, EditFields, Checked
  <2>2. QED
    BY <1>2, <2>1, OneEdit DEF Goto
<1>3. QED
  BY <1>1, <1>2

LEMMA PutWithin ==
  ASSUME DocsWithin, byHand => byHand', NEW d \in Documents, NEW doc, docs' = [docs EXCEPT ![d] = doc],
         d \in RuleDocs => Within(doc.at)
  PROVE  DocsWithin'
BY DEF DocsWithin, Within, RulesWithin

LEMMA OthersWithin ==
  ASSUME byHand => byHand'
  PROVE  /\ DocsWithin /\ UNCHANGED docs => DocsWithin'
         /\ EditsWithin /\ UNCHANGED edit => EditsWithin'
         /\ RunsWithin /\ UNCHANGED run => RunsWithin'
BY DEF DocsWithin, EditsWithin, EditWithin, RunsWithin, RunWithin, Within, RulesWithin, Checked, WithinRoles

-----------------------------------------------------------------------------
(* The calls that write the documents.                                       *)

LEMMA BeginWithin ==
  ASSUME ContractInv, NEW c \in Calls, NEW op, NEW pc, NEW d, NEW k, NEW v, Begin(c, op, pc, d, k, v),
         pc \in {"agents", "ensure"}, op \notin {"page", "install", "seed"} => WithinRoles(d, k, v)
  PROVE  DocsWithin' /\ EditsWithin'
<1>1. EditWithin([Idle EXCEPT !.op = op, !.pc = pc, !.doc = d, !.key = k, !.val = v])
  BY DEF EditWithin, Idle, EditFields, Checked
<1>2. QED
  BY <1>1, OneEdit, OthersWithin DEF ContractInv, Begin, StaysOnDisk, NotByHand

LEMMA SeedAgentsWithin ==
  ASSUME ContractInv, NEW c \in Calls, SeedAgents(c)
  PROVE  DocsWithin' /\ EditsWithin'
<1>1. UNCHANGED byHand
  BY DEF SeedAgents, NotByHand
<1>2. DocsWithin'
  <2>1. UNCHANGED docs \/ \E doc : docs' = [docs EXCEPT !["agent_config"] = doc]
    BY DEF SeedAgents, StaysOnDisk, Put
  <2>2. QED
    BY <2>1, <1>1, PutWithin, OthersWithin DEF ContractInv, Documents, RuleDocs
<1>3. PICK next \in {"failed", "read", "show", "ensure"} : Goto(c, next) /\ (next = "read" => edit[c].op = "save")
  BY DEF SeedAgents
<1>4. EditsWithin'
  <2>1. Checked([edit[c] EXCEPT !.pc = next]) => WithinRoles(edit[c].doc, edit[c].key, edit[c].val)
    BY <1>3 DEF ContractInv, EditsWithin, EditWithin, EditFields, Checked, SeedAgents
  <2>2. QED
    BY <1>1, <1>3, <2>1, GotoWithin DEF ContractInv
<1>5. QED
  BY <1>2, <1>4

LEMMA EnsureWithin ==
  ASSUME ContractInv, NEW c \in Calls, EnsureRules(c) \/ FillRules(c)
  PROVE  DocsWithin' /\ EditsWithin'
<1>1. UNCHANGED byHand
  BY DEF EnsureRules, FillRules, NotByHand
<1>2. DocsWithin'
  <2>1. \/ UNCHANGED docs
        \/ \E doc : docs' = [docs EXCEPT !["rules"] = doc] /\ doc.at \in {Blank("rules"), Initial("rules")}
    <3>1. Empty("rules", "torn").at = Blank("rules") /\ Document(Initial("rules"), "plain").at = Initial("rules")
      BY DEF Empty, Document
    <3>2. CASE EnsureRules(c)
      BY <3>1, <3>2 DEF EnsureRules, StaysOnDisk, Put
    <3>3. CASE FillRules(c)
      BY <3>1, <3>3 DEF FillRules, Put
    <3>4. QED
      BY <3>2, <3>3
  <2>2. QED
    BY <2>1, <1>1, PutWithin, OthersWithin, FirstRulesWithin DEF ContractInv, Documents, RuleDocs
<1>3. PICK pc : Goto(c, pc) /\ pc \in {"fill", AfterEnsure(edit[c].op)}
  BY DEF EnsureRules, FillRules
<1>4. EditsWithin'
  <2>1. /\ pc \notin {"write", "rewrite"}
        /\ pc \in {"fill", "show", "render", "ended", "read"}
        /\ pc = "read" => edit[c].op \notin {"page", "install", "seed"}
    BY <1>3 DEF AfterEnsure
  <2>2. Checked([edit[c] EXCEPT !.pc = pc]) => WithinRoles(edit[c].doc, edit[c].key, edit[c].val)
    BY <2>1 DEF ContractInv, EditsWithin, EditWithin, EditFields, Checked, EnsureRules, FillRules
  <2>3. QED
    BY <1>1, <1>3, <2>1, <2>2, GotoWithin DEF ContractInv
<1>5. QED
  BY <1>2, <1>4

LEMMA PageWithin ==
  ASSUME ContractInv, NEW c \in Calls, Digest(c) \/ Show(c) \/ Save(c) \/ CheckFresh(c)
  PROVE  DocsWithin' /\ EditsWithin'
<1>0. UNCHANGED <<docs, byHand>> /\ EditWithin(edit[c])
  BY DEF Digest, Show, Save, CheckFresh, StaysOnDisk, NotByHand, ContractInv, EditsWithin
<1>1. ASSUME Digest(c) PROVE EditsWithin'
  <2>1. EditWithin([edit[c] EXCEPT !.digest = Digested(c)])
    BY <1>0 DEF EditWithin, EditFields, Checked
  <2>2. edit' = [edit EXCEPT ![c] = [edit[c] EXCEPT !.digest = Digested(c)]]
    BY <1>1 DEF Digest
  <2>3. QED
    BY <1>0, <2>1, <2>2, OneEdit DEF ContractInv
<1>2. ASSUME Show(c) PROVE EditsWithin'
  <2>1. CASE Goto(c, "failed")
    BY <1>0, <2>1, GotoWithin, EndedWithin, OneEdit DEF ContractInv, Goto, Over
  <2>2. CASE ~Goto(c, "failed")
    <3> DEFINE open == [edit[c] EXCEPT !.pc = "open", !.shown = docs[edit[c].doc].at[edit[c].key]]
    <3>1. EditWithin(open)
      BY <1>0 DEF EditWithin, EditFields, Checked
    <3>2. edit' = [edit EXCEPT ![c] = open]
      BY <1>2, <2>2 DEF Show
    <3>3. QED
      BY <1>0, <3>1, <3>2, OneEdit DEF ContractInv
  <2>3. QED
    BY <2>1, <2>2
<1>3. ASSUME Save(c) PROVE EditsWithin'
  <2> DEFINE saved == [edit[c] EXCEPT !.op = "save", !.pc = "check", !.version = edit[c].digest, !.digest = <<>>]
  <2>1. EditWithin(saved)
    BY <1>0 DEF EditWithin, EditFields, Checked
  <2>2. edit' = [edit EXCEPT ![c] = saved]
    BY <1>3 DEF Save
  <2>3. QED
    BY <1>0, <2>1, <2>2, OneEdit DEF ContractInv
<1>4. ASSUME CheckFresh(c) PROVE EditsWithin'
  <2> DEFINE passed == [edit[c] EXCEPT !.digest = <<>>, !.version = <<>>,
                          !.pc = IF edit[c].doc = "agent_config" THEN "agents" ELSE "ensure"]
  <2>1. \/ edit' = [edit EXCEPT ![c] = [edit[c] EXCEPT !.digest = Digested(c)]]
        \/ \E pc \in {"refused", "failed"} : Goto(c, pc)
        \/ WithinRoles(edit[c].doc, edit[c].key, edit[c].val) /\ edit' = [edit EXCEPT ![c] = passed]
    BY <1>4 DEF CheckFresh
  <2>2. EditWithin([edit[c] EXCEPT !.digest = Digested(c)])
    BY <1>0 DEF EditWithin, EditFields, Checked
  <2>3. WithinRoles(edit[c].doc, edit[c].key, edit[c].val) => EditWithin(passed)
    BY <1>0 DEF EditWithin, EditFields, Checked
  <2>4. ASSUME NEW pc \in {"refused", "failed"}, Goto(c, pc) PROVE EditsWithin'
    BY <1>0, <2>4, EndedWithin, OneEdit DEF ContractInv, Goto, Over
  <2>5. QED
    BY <1>0, <2>1, <2>2, <2>3, <2>4, OneEdit DEF ContractInv
<1>5. QED
  BY <1>0, <1>1, <1>2, <1>3, <1>4, OthersWithin DEF ContractInv

LEMMA ReadWithin ==
  ASSUME ContractInv, NEW c \in Calls, ReadDocument(c)
  PROVE  DocsWithin' /\ EditsWithin'
<1>0. UNCHANGED <<docs, byHand>> /\ EditWithin(edit[c])
  BY DEF ReadDocument, StaysOnDisk, NotByHand, ContractInv, EditsWithin
<1> DEFINE read == [edit[c] EXCEPT !.pc = "write", !.base = docs[edit[c].doc]]
<1>1. edit' = [edit EXCEPT ![c] = read] \/ Goto(c, "failed")
  BY DEF ReadDocument
<1>2. EditWithin(read)
  BY <1>0 DEF ReadDocument, EditWithin, EditFields, Checked, ContractInv, DocsWithin
<1>3. EditWithin(Ended(c, "failed"))
  BY EndedWithin DEF Over
<1>4. EditsWithin'
  BY <1>0, <1>1, <1>2, <1>3, OneEdit DEF ContractInv, Goto, Over
<1>5. QED
  BY <1>0, <1>4, OthersWithin DEF ContractInv

LEMMA WriteWithin ==
  ASSUME ContractInv, NEW c \in Calls, WriteDocument(c)
  PROVE  DocsWithin' /\ EditsWithin'
<1>0. UNCHANGED byHand /\ EditWithin(edit[c]) /\ edit[c].pc = "write"
  BY DEF WriteDocument, NotByHand, ContractInv, EditsWithin
<1>1. ASSUME edit[c].doc \in RuleDocs PROVE Within(Changed(c))
  BY <1>0, <1>1 DEF EditWithin, Checked, Within, RulesWithin, WithinRoles, Changed
<1>2. DocsWithin'
  <2> DEFINE written == Document(Changed(c), "plain")
  <2>1. docs' = [docs EXCEPT ![edit[c].doc] = written] /\ written.at = Changed(c)
    BY DEF WriteDocument, Put, Document
  <2> HIDE DEF written
  <2>2. QED
    BY <1>0, <1>1, <2>1 DEF ContractInv, DocsWithin, Within, RulesWithin
<1>3. EditWithin(AfterWrite(c))
  BY EndedWithin DEF AfterWrite, Over, EditWithin, Idle, EditFields, Checked
<1>4. EditsWithin'
  BY <1>0, <1>3, OneEdit DEF ContractInv, WriteDocument
<1>5. QED
  BY <1>2, <1>4

LEMMA NextWithin == ASSUME NEW c \in Calls, EditWithin(edit[c]) PROVE EditWithin(NextToRender(c))
<1>1. CASE edit[c].i = Len(Managed)
  BY <1>1, EndedWithin DEF NextToRender, Over
<1>2. CASE edit[c].i # Len(Managed)
  <2>1. edit[c].i + 1 \in 1..3
    BY <1>2 DEF EditWithin, Managed
  <2>2. QED
    BY <1>2, <2>1 DEF NextToRender, EditWithin, Idle, EditFields, Checked, Managed
<1>3. QED
  BY <1>1, <1>2

LEMMA RenderWithin ==
  ASSUME ContractInv, NEW c \in Calls, ReadToRender(c) \/ Rewrite(c)
  PROVE  DocsWithin' /\ EditsWithin'
<1>0. UNCHANGED byHand /\ EditWithin(edit[c]) /\ EditWithin(NextToRender(c))
  BY NextWithin DEF ReadToRender, Rewrite, NotByHand, ContractInv, EditsWithin
<1>1. edit[c].i \in 1..3 /\ (Rendering(c) = "rules" <=> edit[c].i = 3) /\ Rendering(c) \in Documents \ {"project_rules"}
  BY <1>0 DEF EditWithin, Rendering, Managed, Documents, RuleDocs
<1>2. ASSUME ReadToRender(c) PROVE DocsWithin' /\ EditsWithin'
  <2> DEFINE read == [edit[c] EXCEPT !.pc = "rewrite", !.base = docs[Rendering(c)]]
  <2>1. UNCHANGED docs
    BY <1>2 DEF ReadToRender, StaysOnDisk
  <2>2. \E e \in {NextToRender(c), read, Ended(c, "failed")} : edit' = [edit EXCEPT ![c] = e]
    BY <1>2 DEF ReadToRender
  <2>3. EditWithin(read)
    BY <1>0, <1>1, <1>2 DEF EditWithin, EditFields, Checked, ContractInv, DocsWithin, RuleDocs
  <2>4. EditWithin(Ended(c, "failed"))
    BY EndedWithin DEF Over
  <2>5. QED
    BY <1>0, <2>1, <2>2, <2>3, <2>4, OneEdit, OthersWithin DEF ContractInv
<1>3. ASSUME Rewrite(c) PROVE DocsWithin' /\ EditsWithin'
  <2> DEFINE at == IF edit[c].base.state = "absent" THEN Initial(Rendering(c)) ELSE edit[c].base.at
  <2>1. docs' = [docs EXCEPT ![Rendering(c)] = Document(at, "canonical")]
    BY <1>3 DEF Rewrite, Put
  <2>2. Rendering(c) \in RuleDocs => Within(at)
    BY <1>0, <1>1, <1>3, FirstRulesWithin DEF Rewrite, EditWithin, RuleDocs
  <2>3. Document(at, "canonical").at = at
    BY DEF Document
  <2>4. DocsWithin'
    <3> HIDE DEF at
    <3>1. QED
      BY <1>0, <1>1, <2>1, <2>2, <2>3, PutWithin DEF ContractInv
  <2>5. EditsWithin'
    BY <1>0, <1>3, OneEdit DEF ContractInv, Rewrite
  <2>6. QED
    BY <2>4, <2>5
<1>4. QED
  BY <1>2, <1>3

(* The user writes what he likes into a file; byHand remembers it.           *)
LEMMA HandEditWithin ==
  ASSUME ContractInv, NEW c \in Calls, HandEdit(c)
  PROVE  DocsWithin' /\ EditsWithin' /\ (byHand => byHand')
<1>1. PICK d \in Documents : \E doc \in HandDocument(d) :
        /\ docs' = [docs EXCEPT ![d] = doc]
        /\ byHand' = (byHand \/ (d \in RuleDocs /\ \E e \in ForbiddenEdges \cap Edges : doc.at[e] = "allow"))
  BY DEF HandEdit, Put
<1>p. PICK doc \in HandDocument(d) :
        /\ docs' = [docs EXCEPT ![d] = doc]
        /\ byHand' = (byHand \/ (d \in RuleDocs /\ \E e \in ForbiddenEdges \cap Edges : doc.at[e] = "allow"))
  BY <1>1
<1>2. byHand => byHand'
  BY <1>p
<1>3. ASSUME d \in RuleDocs PROVE DOMAIN doc.at = Edges
  BY <1>p, <1>3, FirstRulesWithin DEF HandDocument, Document, Empty, ContractInv, DocsWithin, Within
<1>4. d \in RuleDocs => Within(doc.at)'
  BY <1>p, <1>3 DEF Within, RulesWithin
<1>5. DocsWithin'
  BY <1>p, <1>2, <1>4 DEF ContractInv, DocsWithin, Within, RulesWithin
<1>6. EditsWithin'
  <2>1. EditWithin([Idle EXCEPT !.op = "hand", !.pc = "ended"])
    BY DEF EditWithin, Idle, EditFields, Checked
  <2>2. QED
    BY <1>2, <2>1, OneEdit DEF ContractInv, HandEdit
<1>7. QED
  BY <1>2, <1>5, <1>6

-----------------------------------------------------------------------------
(* The calls that only begin, or ask for, such work.                         *)

LEMMA OccupyWithin == ASSUME ContractInv, UNCHANGED byHand, NEW c \in Calls, Occupy(c) PROVE EditsWithin'
<1>1. EditWithin([edit[c] EXCEPT !.pc = "busy"])
  BY DEF ContractInv, EditsWithin, EditWithin, EditFields, Checked
<1>2. QED
  BY <1>1, OneEdit DEF ContractInv, Occupy

LEMMA AskedWithin ==
  ASSUME ContractInv, UNCHANGED byHand, NEW c \in Calls, NEW op \in {"seed", "install", "hand"},
         NEW pc \in {"ensure", "agents", "ended"}, op = "hand" => pc = "ended",
         edit' = [edit EXCEPT ![c] = [Idle EXCEPT !.op = op, !.pc = pc]]
  PROVE  EditsWithin'
<1>1. EditWithin([Idle EXCEPT !.op = op, !.pc = pc])
  BY DEF EditWithin, Idle, EditFields, Checked
<1>2. QED
  BY <1>1, OneEdit DEF ContractInv

LEMMA RegWithin ==
  ASSUME ContractInv, NEW c \in Calls, RegStep(c)
  PROVE  UNCHANGED <<docs, byHand>> /\ EditsWithin'
<1>1. UNCHANGED <<docs, byHand>>
  BY DEF RegStep, confVars, Take, CreateProject, SeedForProject, RegisterProject, CreateTask, RegisterTask,
         Archive, CheckCompleted, MarkArchived, MoveArchived, Load, Unload, LockMemory, ListTasks, CheckLoad,
         WriteReference, RemoveReference
<1>2. UNCHANGED edit \/ Occupy(c) \/ SeedForProject(c)
  BY DEF RegStep, confVars, Take, CreateProject, RegisterProject, CreateTask, RegisterTask,
         Archive, CheckCompleted, MarkArchived, MoveArchived, Load, Unload, LockMemory, ListTasks, CheckLoad,
         WriteReference, RemoveReference
<1>3. ASSUME SeedForProject(c) PROVE EditsWithin'
  BY <1>1, <1>3, AskedWithin DEF SeedForProject
<1>4. QED
  BY <1>1, <1>2, <1>3, OccupyWithin, OthersWithin DEF ContractInv

LEMMA InstallerEdits ==
  ASSUME NEW c \in Calls, InsStep(c)
  PROVE  UNCHANGED <<docs, byHand>> /\ (UNCHANGED edit \/ Occupy(c) \/ PrepareState(c) \/ ChangeHosts(c))
<1> DEFINE Kept == UNCHANGED <<docs, byHand>> /\ (UNCHANGED edit \/ Occupy(c))
<1>1. ASSUME NEW record, Proceed(c, record) \/ Engage(c, record) PROVE Kept
  BY <1>1 DEF Proceed, Engage, confVars
<1> HIDE DEF Kept
<1>2. Install(c) \/ Confirm(c) \/ Uninstall(c) => Kept
  BY <1>1 DEF Install, Confirm, Uninstall
<1>3. PlanHost(c) \/ InspectAgain(c) \/ InspectToRemove(c) => Kept
  BY <1>1 DEF PlanHost, InspectAgain, InspectToRemove
<1>4. RemoveStale(c) \/ AddEntry(c) \/ RemoveEntry(c) => Kept
  BY <1>1 DEF RemoveStale, AddEntry, RemoveEntry
<1>5. ReadManifest(c) \/ Record(c) \/ RemovalsDone(c) \/ Forget(c) => Kept
  BY <1>1 DEF ReadManifest, Record, RemovalsDone, Forget
<1>6. Kept \/ PrepareState(c) \/ ChangeHosts(c)
  BY <1>2, <1>3, <1>4, <1>5 DEF InsStep
<1>7. QED
  BY <1>6 DEF Kept, PrepareState, ChangeHosts

LEMMA InsWithin ==
  ASSUME ContractInv, NEW c \in Calls, InsStep(c)
  PROVE  UNCHANGED <<docs, byHand>> /\ EditsWithin'
<1>1. ASSUME PrepareState(c) PROVE EditsWithin'
  BY <1>1, AskedWithin DEF PrepareState
<1>2. ASSUME ChangeHosts(c) PROVE EditsWithin'
  BY <1>2, AskedWithin DEF ChangeHosts
<1>3. QED
  BY <1>1, <1>2, InstallerEdits, OccupyWithin, OthersWithin DEF ContractInv

-----------------------------------------------------------------------------
(* The runs: each rule a run collects is one that was on disk.               *)

LEMMA FreshRun == RunWithin(NotRunning)
BY DEF RunWithin, NotRunning, RunFields, Within, RulesWithin

LEMMA BegunWithin == ASSUME NEW agent, NEW t, NEW session PROVE RunWithin(Begun(agent, t, session))
BY FreshRun DEF Begun, RunWithin, RunFields, Within, RulesWithin

LEMMA RunGotoWithin ==
  ASSUME ContractInv, UNCHANGED byHand, NEW c \in Calls, NEW pc, RunGoto(c, pc)
  PROVE  RunsWithin'
<1>1. RunWithin([NotRunning EXCEPT !.pc = pc, !.session = run[c].session])
  BY FreshRun DEF RunWithin, RunFields
<1>2. RunWithin([run[c] EXCEPT !.pc = pc])
  BY DEF ContractInv, RunsWithin, RunWithin, RunFields
<1>3. QED
  BY <1>1, <1>2, OneRun DEF ContractInv, RunGoto

LEMMA DoneWithin ==
  ASSUME RunsWithin, NEW c \in Calls, NEW section, NEW x
  PROVE  /\ RunWithin(Done(c, section))
         /\ RunWithin([Done(c, section) EXCEPT !.shown = x])
         /\ RunWithin([Done(c, section) EXCEPT !.held = x])
         /\ RunWithin([Done(c, section) EXCEPT !.report = x])
         /\ RunWithin([Done(c, section) EXCEPT !.seen = Done(c, section).seen \cup x])
         /\ RunWithin([NotRunning EXCEPT !.pc = "failed"])
<1>1. RunWithin(run[c]) /\ RunWithin(NotRunning)
  BY FreshRun DEF RunsWithin
<1>2. RunWithin(Done(c, section))
  BY <1>1 DEF RunWithin, RunFields, Done
<1>3. QED
  BY <1>1, <1>2 DEF RunWithin, RunFields

LEMMA ShownWithin ==
  ASSUME ContractInv, NEW c \in Calls, NEW r, Shown(c, r), RunWithin(r)
  PROVE  UNCHANGED <<docs, edit, byHand>> /\ RunsWithin'
<1>1. UNCHANGED <<docs, edit, byHand>> /\ run' = [run EXCEPT ![c] = r]
  BY DEF Shown, Outside, confVars
<1>2. QED
  BY <1>1, OneRun DEF ContractInv

LEMMA ContextWithin ==
  ASSUME ContractInv, NEW c \in Calls,
         \/ BuildMemory(c) \/ ReadGlobalRules(c) \/ ResolveCall(c) \/ BuildRules(c) \/ BuildBehavior(c)
         \/ BuildWorking(c) \/ \E kind \in {"research", "work", "report"} : BuildArtifacts(c, kind)
  PROVE  UNCHANGED <<docs, edit, byHand>> /\ RunsWithin'
<1>1. RunsWithin /\ RunWithin(run[c]) /\ DocsWithin
  BY DEF ContractInv, RunsWithin
<1>2. CASE BuildMemory(c)
  BY <1>1, <1>2, DoneWithin, ShownWithin DEF BuildMemory, Refused
<1>3. CASE ReadGlobalRules(c)
  <2>1. PICK e \in Edges : Shown(c, IF Unreadable("rules") THEN Refused
                                    ELSE [run[c] EXCEPT !.global = [run[c].global EXCEPT ![e] = docs["rules"].at[e]]])
    BY <1>3 DEF ReadGlobalRules, Outgoing
  <2>2. Within([run[c].global EXCEPT ![e] = docs["rules"].at[e]])
    BY <1>1 DEF RunWithin, DocsWithin, RuleDocs, Within, RulesWithin
  <2>3. RunWithin([run[c] EXCEPT !.global = [run[c].global EXCEPT ![e] = docs["rules"].at[e]]])
    BY <1>1, <2>2 DEF RunWithin, RunFields
  <2>4. QED
    BY <1>1, <2>1, <2>3, DoneWithin, ShownWithin DEF Refused
<1>4. CASE ResolveCall(c)
  <2> DEFINE decided(e) == Resolved(run[c].global[e], docs["project_rules"].at[e])
  <2>1. PICK e \in Edges : Shown(c, IF Unreadable("project_rules") THEN Refused
                                    ELSE [run[c] EXCEPT !.calls = [run[c].calls EXCEPT ![e] = decided(e)]])
    BY <1>4 DEF ResolveCall, Outgoing
  <2>2. decided(e) = "allow" => run[c].global[e] = "allow" \/ docs["project_rules"].at[e] = "allow"
    BY DEF Resolved
  <2> HIDE DEF decided
  <2>3. Within([run[c].calls EXCEPT ![e] = decided(e)])
    BY <1>1, <2>2 DEF RunWithin, DocsWithin, RuleDocs, Within, RulesWithin
  <2>4. RunWithin([run[c] EXCEPT !.calls = [run[c].calls EXCEPT ![e] = decided(e)]])
    BY <1>1, <2>3 DEF RunWithin, RunFields
  <2>5. QED
    BY <1>1, <2>1, <2>4, DoneWithin, ShownWithin DEF Refused
<1>5. CASE BuildRules(c)
  BY <1>1, <1>5, DoneWithin, ShownWithin DEF BuildRules, Refused
<1>6. CASE BuildBehavior(c)
  BY <1>1, <1>6, DoneWithin, ShownWithin DEF BuildBehavior, Refused
<1>7. CASE BuildWorking(c)
  BY <1>1, <1>7, DoneWithin, ShownWithin DEF BuildWorking
<1>8. ASSUME NEW kind, BuildArtifacts(c, kind) PROVE UNCHANGED <<docs, edit, byHand>> /\ RunsWithin'
  BY <1>1, <1>8, DoneWithin, ShownWithin DEF BuildArtifacts
<1>9. QED
  BY <1>2, <1>3, <1>4, <1>5, <1>6, <1>7, <1>8

LEMMA RunEdits == ASSUME NEW c \in Calls, RunStep(c) PROVE UNCHANGED edit \/ Occupy(c)
<1>1. Outside => UNCHANGED edit
  BY DEF Outside, confVars
<1>2. ASSUME NEW r, Started(c, r) PROVE Occupy(c)
  BY <1>2 DEF Started
<1>3. Reopen(c) \/ Invoke(c) \/ InvokeOnProject(c) \/ UserCompletes(c) => Occupy(c)
  BY <1>2 DEF Reopen, Invoke, InvokeOnProject, UserCompletes
<1>4. ForceRelease(c) \/ OpenTaskSession(c) \/ BindTask(c) \/ InvokeAfterOpening(c) \/ CaptureFence(c) \/ Commit(c)
        => UNCHANGED edit
  BY <1>1 DEF ForceRelease, OpenTaskSession, BindTask, InvokeAfterOpening, CaptureFence, Commit
<1>5. CheckFields(c) \/ ApplyExaminerIntent(c) \/ SaveRecord(c) \/ SaveQuestionerContext(c) \/ SaveDraft(c)
        => UNCHANGED edit
  BY <1>1 DEF CheckFields, ApplyExaminerIntent, SaveRecord, SaveQuestionerContext, SaveDraft
<1>6. SaveReviewerReport(c) \/ MarkCompleted(c) => UNCHANGED edit
  BY <1>1 DEF SaveReviewerReport, MarkCompleted, confVars
<1>7. ASSUME NEW r, Shown(c, r) PROVE UNCHANGED edit
  BY <1>1, <1>7 DEF Shown
<1>8. BuildMemory(c) \/ ReadGlobalRules(c) \/ ResolveCall(c) \/ BuildRules(c) \/ BuildBehavior(c) \/ BuildWorking(c)
        => UNCHANGED edit
  BY <1>7 DEF BuildMemory, ReadGlobalRules, ResolveCall, BuildRules, BuildBehavior, BuildWorking
<1>9. ASSUME NEW kind, BuildArtifacts(c, kind) PROVE UNCHANGED edit
  BY <1>7, <1>9 DEF BuildArtifacts
<1>10. QED
  BY <1>3, <1>4, <1>5, <1>6, <1>8, <1>9 DEF RunStep

LEMMA RunStepWithin ==
  ASSUME ContractInv, NEW c \in Calls, RunStep(c)
  PROVE  ContractInv' /\ (byHand => byHand')
<1>1. ASSUME NEW r, Started(c, r), RunWithin(r) PROVE UNCHANGED <<docs, byHand>> /\ EditsWithin' /\ RunsWithin'
  BY <1>1, OccupyWithin, OneRun DEF Started, ContractInv
<1>2. ASSUME NEW pc, RunGoto(c, pc), UNCHANGED byHand PROVE RunsWithin'
  BY <1>2, RunGotoWithin
<1> DEFINE Kept == UNCHANGED <<docs, byHand>> /\ EditsWithin' /\ RunsWithin'
<1>3. CASE UNCHANGED <<docs, edit, byHand>> /\ RunsWithin'
  BY <1>3, OthersWithin DEF ContractInv
<1>4. Reopen(c) => Kept
  <2>1. ASSUME NEW t PROVE RunWithin([NotRunning EXCEPT !.pc = "release", !.task = t])
    BY FreshRun DEF RunWithin, RunFields
  <2>2. QED
    BY <1>1, <2>1 DEF Reopen
<1>5. Invoke(c) \/ InvokeOnProject(c) => Kept
  BY <1>1, BegunWithin DEF Invoke, InvokeOnProject
<1>6. UserCompletes(c) => Kept
  BY OccupyWithin, OthersWithin DEF UserCompletes, ContractInv, runVars
<1>7. Outside => UNCHANGED <<docs, edit, byHand>>
  BY DEF Outside, confVars
<1>8. InvokeAfterOpening(c) => UNCHANGED <<docs, edit, byHand>> /\ RunsWithin'
  <2> SUFFICES ASSUME InvokeAfterOpening(c) PROVE UNCHANGED <<docs, edit, byHand>> /\ RunsWithin'
    OBVIOUS
  <2>1. UNCHANGED <<docs, edit, byHand>>
    BY <1>7 DEF InvokeAfterOpening
  <2>2. PICK agent : run' = [run EXCEPT ![c] = Begun(agent, run[c].task, c)]
    BY DEF InvokeAfterOpening
  <2>3. RunWithin(Begun(agent, run[c].task, c))
    BY BegunWithin
  <2>4. QED
    BY <2>1, <2>2, <2>3, OneRun DEF ContractInv
<1> DEFINE Goes == \E pc : RunGoto(c, pc)
<1>9. ForceRelease(c) \/ OpenTaskSession(c) \/ BindTask(c) \/ CaptureFence(c) \/ Commit(c)
        => UNCHANGED <<docs, edit, byHand>> /\ Goes
  BY <1>7 DEF ForceRelease, OpenTaskSession, BindTask, CaptureFence, Commit
<1>10. ApplyExaminerIntent(c) \/ SaveRecord(c) \/ SaveQuestionerContext(c) \/ SaveDraft(c)
         => UNCHANGED <<docs, edit, byHand>> /\ Goes
  BY <1>7 DEF ApplyExaminerIntent, SaveRecord, SaveQuestionerContext, SaveDraft
<1>11. CheckFields(c) \/ SaveReviewerReport(c) \/ MarkCompleted(c)
         => UNCHANGED <<docs, edit, byHand>> /\ Goes
  BY <1>7 DEF CheckFields, SaveReviewerReport, MarkCompleted, confVars
<1>12. CASE UNCHANGED <<docs, edit, byHand>> /\ Goes
  BY <1>2, <1>3, <1>12
<1>13. CASE Kept
  BY <1>13, OthersWithin DEF ContractInv
<1> HIDE DEF Kept, Goes
<1>14. CASE \/ BuildMemory(c) \/ ReadGlobalRules(c) \/ ResolveCall(c) \/ BuildRules(c) \/ BuildBehavior(c)
            \/ BuildWorking(c) \/ \E i \in 2..4 : BuildArtifacts(c, ArtifactOrder[i])
  <2>1. \A i \in 2..4 : ArtifactOrder[i] \in {"research", "work", "report"}
    BY DEF ArtifactOrder
  <2>2. UNCHANGED <<docs, edit, byHand>> /\ RunsWithin'
    BY <1>14, <2>1, ContextWithin
  <2>3. QED
    BY <1>3, <2>2
<1>15. QED
  BY <1>3, <1>4, <1>5, <1>6, <1>8, <1>9, <1>10, <1>11, <1>12, <1>13, <1>14 DEF RunStep

LEMMA CrashWithin ==
  ASSUME ContractInv, NEW c \in Calls, Crash(c)
  PROVE  ContractInv'
<1>1. UNCHANGED <<docs, byHand>> /\ edit' = [edit EXCEPT ![c] = Ended(c, "crashed")]
  BY DEF Crash
<1>2. EditsWithin'
  BY <1>1, EndedWithin, OneEdit DEF ContractInv, Over
<1>3. UNCHANGED run \/ RunGoto(c, "crashed")
  BY DEF Crash, RunDies, runVars
<1>4. RunsWithin'
  BY <1>1, <1>3, RunGotoWithin, OthersWithin DEF ContractInv
<1>5. QED
  BY <1>1, <1>2, <1>4, OthersWithin DEF ContractInv

LEMMA ContractStep == ContractInv /\ [Next]_vars => ContractInv'
<1> SUFFICES ASSUME ContractInv, [Next]_vars PROVE ContractInv'
  OBVIOUS
<1>1. ASSUME NEW c \in Calls, ConfStep(c), UNCHANGED <<regVars, insVars, runVars>> PROVE ContractInv'
  <2>1. UNCHANGED run
    BY <1>1 DEF runVars
  <2>2. ASSUME NEW op, NEW d, NEW k, NEW v, Begin(c, "page", "agents", d, k, v) PROVE DocsWithin' /\ EditsWithin'
    BY <2>2, BeginWithin
  <2>3. ASSUME SetRule(c) PROVE DocsWithin' /\ EditsWithin'
    BY <2>3, BeginWithin DEF SetRule
  <2>4. HandEdit(c) \/ UNCHANGED byHand
    BY <1>1 DEF ConfStep, OpenPage, SetRule, Begin, SeedAgents, EnsureRules, FillRules, Digest, ShowAgents, ShowRules,
                Show, Save, CheckFresh, ReadDocument, WriteDocument, ReadToRender, Rewrite, NotByHand
  <2>5. DocsWithin' /\ EditsWithin' /\ (byHand => byHand')
    BY <1>1, <2>2, <2>3, <2>4, SeedAgentsWithin, EnsureWithin, PageWithin, ReadWithin, WriteWithin, RenderWithin,
       HandEditWithin DEF ConfStep, OpenPage, ShowAgents, ShowRules
  <2>6. QED
    BY <2>1, <2>5, OthersWithin DEF ContractInv
<1>2. ASSUME NEW c \in Calls, RegStep(c), UNCHANGED <<insVars, runVars>> PROVE ContractInv'
  BY <1>2, RegWithin, OthersWithin DEF runVars, ContractInv
<1>3. ASSUME NEW c \in Calls, InsStep(c), UNCHANGED runVars PROVE ContractInv'
  BY <1>3, InsWithin, OthersWithin DEF runVars, ContractInv
<1>4. ASSUME UNCHANGED vars PROVE ContractInv'
  BY <1>4, OthersWithin DEF vars, confVars, runVars, ContractInv
<1>5. QED
  BY <1>1, <1>2, <1>3, <1>4, RunStepWithin, CrashWithin DEF Next

(* Whatever calls overlap or end half way, and whatever the user allows by   *)
(* hand of other agent calls: no rule on disk, and none that a run is shown, *)
(* allows an agent call that a role contract forbids unless he wrote it.     *)
THEOREM ContractsKept == Spec => []WithinContract
<1>1. ContractInv => WithinContract
  <2>1. ContractInv => \A d \in RuleDocs : RulesWithin(docs[d].at)
    BY DEF ContractInv, DocsWithin, Within
  <2>2. ContractInv => \A c \in Calls : RulesWithin(run[c].calls)
    BY DEF ContractInv, RunsWithin, RunWithin, Within
  <2>3. QED
    BY <2>1, <2>2 DEF WithinContract
<1>2. QED
  BY <1>1, ContractInit, ContractStep, PTL DEF Spec

-----------------------------------------------------------------------------
(* Registrations.  A call that began is never idle again, so that a process  *)
(* installs once.                                                            *)

LEMMA NeverIdleAgain ==
  ASSUME ContractInv, [Next]_vars, NEW c \in Calls, edit[c].pc # "idle"
  PROVE  edit'[c].pc # "idle"
<1>0. DOMAIN edit = Calls /\ \A x \in Calls : DOMAIN edit[x] = EditFields
  BY DEF ContractInv, EditsWithin, EditWithin
<1>1. ASSUME NEW x \in Calls, NEW e, edit' = [edit EXCEPT ![x] = e], e.pc # "idle" PROVE edit'[c].pc # "idle"
  BY <1>0, <1>1
<1>2. \A x \in Calls : \A pc \in Over : Ended(x, pc).pc = pc
  BY DEF Ended, Idle
<1>3. ASSUME NEW x \in Calls, NEW pc, Goto(x, pc), pc # "idle" PROVE edit'[c].pc # "idle"
  <2>1. ([edit[x] EXCEPT !.pc = pc]).pc = pc
    BY <1>0 DEF EditFields
  <2>2. QED
    BY <1>1, <1>2, <1>3, <2>1 DEF Goto
<1>4. ASSUME NEW x \in Calls, ConfStep(x) PROVE edit'[c].pc # "idle"
  <2>1. ASSUME NEW op, NEW pc, NEW d, NEW k, NEW v, Begin(x, op, pc, d, k, v), pc # "idle" PROVE edit'[c].pc # "idle"
    BY <1>1, <2>1 DEF Begin, Idle
  <2>2. CASE OpenPage(x) \/ SetRule(x)
    BY <2>1, <2>2 DEF OpenPage, SetRule
  <2>3. CASE HandEdit(x)
    BY <1>1, <2>3 DEF HandEdit, Idle
  <2>4. CASE SeedAgents(x)
    BY <1>3, <2>4 DEF SeedAgents
  <2>5. CASE EnsureRules(x) \/ FillRules(x)
    BY <1>3, <2>5 DEF EnsureRules, FillRules, AfterEnsure
  <2>6. CASE Digest(x)
    BY <1>0, <2>6 DEF Digest, EditFields
  <2>7. CASE ShowAgents(x) \/ ShowRules(x)
    BY <1>0, <1>3, <2>7 DEF ShowAgents, ShowRules, Show, EditFields
  <2>8. CASE Save(x)
    BY <1>0, <2>8 DEF Save, EditFields
  <2>9. CASE CheckFresh(x)
    BY <1>0, <1>3, <2>9 DEF CheckFresh, EditFields
  <2>10. CASE ReadDocument(x)
    BY <1>0, <1>3, <2>10 DEF ReadDocument, EditFields
  <2>11. CASE WriteDocument(x)
    BY <1>1, <1>2, <2>11 DEF WriteDocument, AfterWrite, Idle, Over
  <2>12. NextToRender(x).pc # "idle"
    BY <1>2 DEF NextToRender, Idle, Over
  <2>13. CASE ReadToRender(x)
    <3>1. ([edit[x] EXCEPT !.pc = "rewrite", !.base = docs[Rendering(x)]]).pc = "rewrite"
      BY <1>0 DEF EditFields
    <3>2. QED
      BY <1>1, <1>2, <2>12, <2>13, <3>1 DEF ReadToRender, Over
  <2>14. CASE Rewrite(x)
    BY <1>1, <2>12, <2>14 DEF Rewrite
  <2>15. QED
    BY <1>4, <2>2, <2>3, <2>4, <2>5, <2>6, <2>7, <2>8, <2>9, <2>10, <2>11, <2>13, <2>14 DEF ConfStep
<1>5. ASSUME UNCHANGED edit PROVE edit'[c].pc # "idle"
  BY <1>5
<1>6. ASSUME NEW x \in Calls, Occupy(x) PROVE edit'[c].pc # "idle"
  BY <1>0, <1>6 DEF Occupy, EditFields
<1>7. ASSUME NEW x \in Calls, RegStep(x) PROVE edit'[c].pc # "idle"
  <2>1. UNCHANGED edit \/ Occupy(x) \/ SeedForProject(x)
    BY <1>7 DEF RegStep, confVars, Take, CreateProject, RegisterProject, CreateTask, RegisterTask,
         Archive, CheckCompleted, MarkArchived, MoveArchived, Load, Unload, LockMemory, ListTasks, CheckLoad,
         WriteReference, RemoveReference
  <2>2. CASE SeedForProject(x)
    BY <1>1, <2>2 DEF SeedForProject, Idle
  <2>3. QED
    BY <1>5, <1>6, <2>1, <2>2
<1>8. ASSUME NEW x \in Calls, InsStep(x) PROVE edit'[c].pc # "idle"
  <2>1. UNCHANGED edit \/ Occupy(x) \/ PrepareState(x) \/ ChangeHosts(x)
    BY <1>8, InstallerEdits
  <2>2. CASE PrepareState(x)
    BY <1>1, <2>2 DEF PrepareState, Idle
  <2>3. CASE ChangeHosts(x)
    BY <1>1, <2>3 DEF ChangeHosts, Idle
  <2>4. QED
    BY <1>5, <1>6, <2>1, <2>2, <2>3
<1>9. ASSUME NEW x \in Calls, RunStep(x) PROVE edit'[c].pc # "idle"
  BY <1>5, <1>6, <1>9, RunEdits
<1>10. ASSUME NEW x \in Calls, Crash(x) PROVE edit'[c].pc # "idle"
  BY <1>1, <1>2, <1>10 DEF Crash, Over
<1>11. QED
  BY <1>4, <1>5, <1>7, <1>8, <1>9, <1>10 DEF Next, vars, confVars

InstFields == {"op", "pc", "todo", "plan", "at", "done", "base"}
InstWellFormed(r) ==
  /\ DOMAIN r = InstFields
  /\ r.pc \notin Settled => r.op \in {"install", "uninstall"}
  /\ r.pc = "plan" => r.done = {}
  /\ r.pc \in {"plan", "apply", "replace", "add", "prepare", "record"} => r.op = "install"
  /\ r.pc \in {"remove", "removing", "forget", "unrecord"} => r.op = "uninstall"

(* What an installer at work without another must know to leave nothing      *)
(* behind: it has, or will record, whatever neither the manifest nor         *)
(* history accounts for; and it removes from the manifest only what is gone. *)
Covered(c) ==
  /\ inst[c].op = "install" => \A p \in Providers : entry[p] \in Owned => p \in manifest \cup loose \cup inst[c].done
  /\ inst[c].op = "uninstall" => \A p \in Providers : entry[p] \in Owned => p \in (manifest \ inst[c].done) \cup loose
  /\ inst[c].pc \in {"record", "unrecord"} => inst[c].base = manifest
Accounted == \A p \in Providers : entry[p] \in Owned => p \in manifest \cup loose

RegistrationInv ==
  /\ DOMAIN entry = Providers /\ DOMAIN inst = Calls
  /\ \A c \in Calls : InstWellFormed(inst[c])
  /\ \A c \in Calls : Installing(c) => edit[c].pc # "idle"
  /\ \A c \in Calls : Installing(c) => Providers \subseteq loose \/ (Alone(c) /\ Covered(c))
  /\ (\A c \in Calls : ~Installing(c)) => Accounted

LEMMA RegistrationInit == Init => RegistrationInv
<1> SUFFICES ASSUME Init PROVE RegistrationInv
  OBVIOUS
<1>1. PICK installed \in BOOLEAN : InsInit(installed)
  BY DEF Init
<1>2. \A c \in Calls : inst[c] = Unstarted /\ ~Installing(c)
  BY <1>1 DEF InsInit, Installing, Settled, Unstarted
<1>3. Accounted
  BY <1>1 DEF InsInit, Accounted, Owned
<1>4. InstWellFormed(Unstarted)
  BY DEF InstWellFormed, Unstarted, InstFields, Settled
<1>5. QED
  BY <1>1, <1>2, <1>3, <1>4 DEF RegistrationInv, InsInit

(* One installer moves; another at work makes every host loose.              *)
LEMMA InstallerMoves ==
  ASSUME RegistrationInv, NEW c \in Calls, NEW r,
         inst' = [inst EXCEPT ![c] = r], InstWellFormed(r), DOMAIN entry' = Providers,
         \A x \in Calls : edit[x].pc # "idle" => edit'[x].pc # "idle",
         r.pc \notin Settled => edit'[c].pc # "idle",
         ~Alone(c) => Providers \subseteq loose',
         Alone(c) /\ r.pc \notin Settled => Providers \subseteq loose' \/ Covered(c)',
         Alone(c) /\ r.pc \in Settled => Accounted'
  PROVE  RegistrationInv'
<1>1. \A x \in Calls \ {c} : inst'[x] = inst[x] /\ (Installing(x)' <=> Installing(x))
  BY DEF RegistrationInv, Installing
<1>2. inst'[c] = r /\ (Installing(c)' <=> r.pc \notin Settled)
  BY DEF RegistrationInv, Installing
<1>3. Alone(c)' <=> Alone(c)
  BY <1>1 DEF Alone
<1>4. ASSUME NEW x \in Calls, Installing(x)' PROVE Providers \subseteq loose' \/ (Alone(x)' /\ Covered(x)')
  <2>1. CASE x = c
    BY <1>2, <1>3, <1>4, <2>1
  <2>2. CASE x # c
    BY <1>1, <1>4, <2>2 DEF Alone
  <2>3. QED
    BY <2>1, <2>2
<1>5. ASSUME \A x \in Calls : ~Installing(x)' PROVE Accounted'
  BY <1>1, <1>2, <1>5 DEF Alone
<1>6. \A x \in Calls : InstWellFormed(inst'[x])
  BY <1>1, <1>2 DEF RegistrationInv
<1>7. \A x \in Calls : Installing(x)' => edit'[x].pc # "idle"
  BY <1>1, <1>2 DEF RegistrationInv
<1>8. QED
  BY <1>4, <1>5, <1>6, <1>7 DEF RegistrationInv, InstWellFormed

(* Nothing of ours appears that was not there.                               *)
LEMMA HostsOnly ==
  ASSUME RegistrationInv, UNCHANGED <<manifest, inst, loose>>, DOMAIN entry' = Providers,
         \A p \in Providers : entry'[p] \in Owned => entry[p] \in Owned,
         \A x \in Calls : edit[x].pc # "idle" => edit'[x].pc # "idle"
  PROVE  RegistrationInv'
BY DEF RegistrationInv, InstWellFormed, Installing, Alone, Covered, Accounted

LEMMA InstallerAtWork ==
  ASSUME RegistrationInv, NEW c \in Calls, inst[c].pc \notin Settled
  PROVE  /\ InstWellFormed(inst[c]) /\ edit[c].pc # "idle" /\ DOMAIN entry = Providers
         /\ Providers \subseteq loose \/ (Alone(c) /\ Covered(c))
BY DEF RegistrationInv, Installing

(* Steps that keep the manifest and what is loose, and add no registration.  *)
LEMMA InstallerProceeds ==
  ASSUME RegistrationInv, NEW c \in Calls, NEW r, Proceed(c, r), inst[c].pc \notin Settled,
         InstWellFormed(r), r.op = inst[c].op, UNCHANGED <<manifest, loose>>, DOMAIN entry' = Providers,
         \A p \in Providers : entry'[p] \in Owned => entry[p] \in Owned,
         r.op = "install" => inst[c].done \subseteq r.done,
         r.op = "uninstall" => \A p \in Providers : p \in r.done \ inst[c].done => entry'[p] \notin Owned,
         r.pc \in Settled => r.op = "uninstall" \/ inst[c].done = {},
         r.pc \in {"record", "unrecord"} => r.base = manifest
  PROVE  RegistrationInv'
<1>1. inst' = [inst EXCEPT ![c] = r] /\ UNCHANGED edit /\ inst'[c] = r
  BY DEF Proceed, confVars, RegistrationInv
<1>2. ASSUME Alone(c), ~(Providers \subseteq loose), r.pc \notin Settled PROVE Covered(c)'
  BY <1>1, <1>2, InstallerAtWork DEF Covered
<1>3. ASSUME Alone(c), r.pc \in Settled PROVE Accounted'
  BY <1>1, <1>3, InstallerAtWork DEF Covered, Accounted, InstWellFormed, Settled
<1>4. QED
  BY <1>1, <1>2, <1>3, InstallerAtWork, InstallerMoves

LEMMA EngageAccounted ==
  ASSUME RegistrationInv, ContractInv, NEW c \in Calls, NEW r, Engage(c, r), InstWellFormed(r),
         r.pc \in {"plan", "remove"}, r.done = {}, UNCHANGED <<entry, manifest>>,
         \A x \in Calls : edit[x].pc # "idle" => edit'[x].pc # "idle"
  PROVE  RegistrationInv'
<1>1. edit'[c].pc # "idle" /\ inst' = [inst EXCEPT ![c] = r] /\ inst'[c] = r
  BY DEF Engage, Occupy, ContractInv, EditsWithin, EditWithin, EditFields, RegistrationInv
<1>2. ASSUME Alone(c) PROVE Covered(c)'
  <2>1. \A x \in Calls : ~Installing(x)
    BY <1>2 DEF Engage, Occupy, RegistrationInv, Alone
  <2>2. Accounted /\ loose' = loose
    BY <1>2, <2>1 DEF Engage, RegistrationInv
  <2>3. QED
    BY <1>1, <2>2 DEF Covered, Accounted
<1>3. ~Alone(c) => Providers \subseteq loose'
  BY DEF Engage
<1>4. DOMAIN entry' = Providers
  BY DEF RegistrationInv
<1>5. QED
  BY <1>1, <1>2, <1>3, <1>4, InstallerMoves DEF Settled

LEMMA PlanningAccounted ==
  ASSUME RegistrationInv, NEW c \in Calls, PlanHost(c) \/ Confirm(c)
  PROVE  RegistrationInv'
<1>1. /\ inst[c].pc = "plan" /\ UNCHANGED <<entry, manifest, loose>> /\ InstWellFormed(inst[c]) /\ inst[c].done = {}
      /\ inst[c].op = "install" /\ DOMAIN entry = Providers
  BY InstallerAtWork DEF PlanHost, Confirm, Settled, InstWellFormed
<1>2. CASE PlanHost(c)
  <2>1. PICK todo, plan : Proceed(c, [inst[c] EXCEPT !.todo = todo, !.plan = plan])
    BY <1>2 DEF PlanHost
  <2>2. InstWellFormed([inst[c] EXCEPT !.todo = todo, !.plan = plan])
    BY <1>1 DEF InstWellFormed, InstFields
  <2>3. QED
    BY <1>1, <2>1, <2>2, InstallerProceeds DEF InstWellFormed, InstFields, Settled
<1>3. CASE Confirm(c)
  <2>1. CASE Proceed(c, Finish(c, "ended"))
    BY <1>1, <2>1, InstallerProceeds DEF InstWellFormed, InstFields, Settled, Finish, Unstarted
  <2>2. CASE \E todo, done : Proceed(c, [Unstarted EXCEPT !.op = "install", !.pc = "apply", !.todo = todo, !.done = done])
    <3>1. PICK todo, done : Proceed(c, [Unstarted EXCEPT !.op = "install", !.pc = "apply", !.todo = todo, !.done = done])
      BY <2>2
    <3>2. InstWellFormed([Unstarted EXCEPT !.op = "install", !.pc = "apply", !.todo = todo, !.done = done])
      BY DEF InstWellFormed, InstFields, Unstarted, Settled
    <3>3. QED
      BY <1>1, <3>1, <3>2, InstallerProceeds DEF InstWellFormed, InstFields, Settled, Unstarted
  <2>3. QED
    BY <1>3, <2>1, <2>2 DEF Confirm
<1>4. QED
  BY <1>2, <1>3

LEMMA InspectingAccounted ==
  ASSUME RegistrationInv, NEW c \in Calls, InspectAgain(c) \/ InspectToRemove(c) \/ RemovalsDone(c)
  PROVE  RegistrationInv'
<1>1. /\ inst[c].pc \in {"apply", "remove"} /\ UNCHANGED <<entry, manifest, loose>> /\ InstWellFormed(inst[c])
      /\ DOMAIN entry = Providers
  BY InstallerAtWork DEF InspectAgain, InspectToRemove, RemovalsDone, Settled
<1>2. CASE InspectAgain(c)
  <2>1. PICK p \in inst[c].todo : \E found \in Inspections(p) :
          LET rest == [inst[c] EXCEPT !.todo = @ \ {p}] IN
            Proceed(c, CASE found = "foreign" -> rest
                         [] found = "current" -> [rest EXCEPT !.done = @ \cup {p}]
                         [] found = "outdated" /\ p # "google" -> [rest EXCEPT !.pc = "replace", !.at = p]
                         [] OTHER -> [rest EXCEPT !.pc = "add", !.at = p])
    BY <1>2 DEF InspectAgain
  <2> DEFINE rest == [inst[c] EXCEPT !.todo = @ \ {p}]
             known == [rest EXCEPT !.done = @ \cup {p}]
             stale == [rest EXCEPT !.pc = "replace", !.at = p]
             missing == [rest EXCEPT !.pc = "add", !.at = p]
  <2>2. \E r \in {rest, known, stale, missing} : Proceed(c, r)
    BY <2>1
  <2>3. \A r \in {rest, known, stale, missing} :
          /\ InstWellFormed(r) /\ r.op = inst[c].op /\ r.op = "install" /\ inst[c].done \subseteq r.done
          /\ r.pc \notin Settled \cup {"record", "unrecord"}
    <3>1. /\ InstWellFormed(inst[c]) /\ inst[c].pc = "apply" /\ inst[c].op = "install"
      BY <1>1, <1>2 DEF InspectAgain, InstWellFormed
    <3>2. /\ InstWellFormed(rest) /\ rest.op = "install" /\ rest.done = inst[c].done /\ rest.pc = "apply"
      BY <3>1 DEF InstWellFormed, InstFields, Settled
    <3> HIDE DEF rest
    <3>3. /\ InstWellFormed(known) /\ known.op = "install" /\ rest.done \subseteq known.done /\ known.pc = "apply"
      BY <3>2 DEF InstWellFormed, InstFields, Settled
    <3>4. /\ InstWellFormed(stale) /\ stale.op = "install" /\ stale.done = rest.done /\ stale.pc = "replace"
      BY <3>2 DEF InstWellFormed, InstFields, Settled
    <3>5. /\ InstWellFormed(missing) /\ missing.op = "install" /\ missing.done = rest.done /\ missing.pc = "add"
      BY <3>2 DEF InstWellFormed, InstFields, Settled
    <3> HIDE DEF known, stale, missing
    <3>6. QED
      BY <3>1, <3>2, <3>3, <3>4, <3>5 DEF Settled
  <2> HIDE DEF rest, known, stale, missing
  <2>4. QED
    BY <1>1, <2>2, <2>3, InstallerProceeds DEF Settled
<1>3. CASE InspectToRemove(c)
  <2>1. PICK p \in inst[c].todo : \E found \in Inspections(p) :
          LET rest == [inst[c] EXCEPT !.todo = @ \ {p}] IN
            Proceed(c, IF found \in Owned THEN [rest EXCEPT !.pc = "removing", !.at = p] ELSE rest)
    BY <1>3 DEF InspectToRemove
  <2> DEFINE rest == [inst[c] EXCEPT !.todo = @ \ {p}]
             removing == [rest EXCEPT !.pc = "removing", !.at = p]
  <2>2. \E r \in {rest, removing} : Proceed(c, r)
    BY <2>1
  <2>3. \A r \in {rest, removing} :
          /\ InstWellFormed(r) /\ r.op = inst[c].op /\ r.op = "uninstall" /\ inst[c].done = r.done
          /\ r.pc \notin Settled \cup {"record", "unrecord"}
    BY <1>1, <1>3 DEF InspectToRemove, InstWellFormed, InstFields, Settled
  <2> HIDE DEF rest, removing
  <2>4. QED
    BY <1>1, <2>2, <2>3, InstallerProceeds DEF Settled
<1>4. CASE RemovalsDone(c)
  <2> DEFINE forget == [inst[c] EXCEPT !.pc = "forget"]
  <2>1. Proceed(c, forget) /\ inst[c].pc = "remove"
    BY <1>4 DEF RemovalsDone
  <2>2. InstWellFormed(forget) /\ forget.op = inst[c].op /\ forget.done = inst[c].done /\ forget.pc = "forget"
    BY <1>1, <2>1 DEF InstWellFormed, InstFields, Settled
  <2> HIDE DEF forget
  <2>3. QED
    BY <1>1, <2>1, <2>2, InstallerProceeds DEF Settled
<1>5. QED
  BY <1>2, <1>3, <1>4

LEMMA CommandsAccounted ==
  ASSUME RegistrationInv, NEW c \in Calls, RemoveStale(c) \/ AddEntry(c) \/ RemoveEntry(c)
  PROVE  RegistrationInv'
<1> DEFINE p == inst[c].at
<1>1. UNCHANGED <<manifest, edit>> /\ InstWellFormed(inst[c]) /\ DOMAIN entry = Providers /\ inst[c].pc \notin Settled
  BY InstallerAtWork DEF RemoveStale, AddEntry, RemoveEntry, Settled, Proceed, confVars
<1>2. CASE RemoveStale(c)
  <2> DEFINE next == [inst[c] EXCEPT !.pc = "add"]
  <2>1. Proceed(c, next) /\ UNCHANGED <<manifest, loose>> /\ inst[c].pc = "replace"
    BY <1>2 DEF RemoveStale
  <2>2. InstWellFormed(next) /\ next.op = "install" /\ next.op = inst[c].op /\ next.done = inst[c].done /\ next.pc = "add"
    BY <1>1, <2>1 DEF InstWellFormed, InstFields, Settled
  <2>3. DOMAIN entry' = Providers /\ \A q \in Providers : entry'[q] \in Owned => entry[q] \in Owned
    BY <1>1, <1>2 DEF RemoveStale, Owned
  <2> HIDE DEF next
  <2>4. QED
    BY <1>1, <2>1, <2>2, <2>3, InstallerProceeds DEF Settled
<1>3. CASE AddEntry(c)
  <2>1. PICK end \in CommandEnds :
          /\ entry' = IF end.done THEN [entry EXCEPT ![p] = "current"] ELSE entry
          /\ loose' = IF end.done /\ ~end.reported THEN loose \cup {p} ELSE loose
          /\ Proceed(c, [inst[c] EXCEPT !.pc = "apply", !.at = "none",
                                        !.done = IF end.reported THEN inst[c].done \cup {p} ELSE inst[c].done])
    BY <1>3 DEF AddEntry
  <2> DEFINE next == [inst[c] EXCEPT !.pc = "apply", !.at = "none",
                                     !.done = IF end.reported THEN inst[c].done \cup {p} ELSE inst[c].done]
  <2>2. /\ InstWellFormed(next) /\ next.pc = "apply" /\ next.op = "install" /\ inst[c].op = "install"
        /\ next.done = IF end.reported THEN inst[c].done \cup {p} ELSE inst[c].done
    BY <1>1, <1>3 DEF AddEntry, InstWellFormed, InstFields, Settled
  <2>3. inst' = [inst EXCEPT ![c] = next] /\ inst'[c] = next
    BY <2>1 DEF Proceed, RegistrationInv
  <2>4. \A q \in Providers : entry'[q] \in Owned => entry[q] \in Owned \/ q \in loose' \cup next.done
    BY <1>1, <2>1, <2>2
  <2> HIDE DEF next, p
  <2>5. loose \subseteq loose' /\ inst[c].done \subseteq next.done /\ DOMAIN entry' = Providers
    BY <1>1, <2>1, <2>2
  <2>6. Providers \subseteq loose' \/ Covered(c)'
    BY <1>1, <2>2, <2>3, <2>4, <2>5, InstallerAtWork DEF Covered
  <2>7. QED
    BY <1>1, <2>2, <2>3, <2>5, <2>6, InstallerAtWork, InstallerMoves DEF Settled
<1>4. CASE RemoveEntry(c)
  <2>1. PICK end \in CommandEnds :
          /\ entry' = IF end.done THEN [entry EXCEPT ![p] = "absent"] ELSE entry
          /\ Proceed(c, [inst[c] EXCEPT !.pc = "remove", !.at = "none",
                                        !.done = IF end.reported THEN @ \cup {p} ELSE @])
    BY <1>4 DEF RemoveEntry
  <2> DEFINE next == [inst[c] EXCEPT !.pc = "remove", !.at = "none",
                                     !.done = IF end.reported THEN inst[c].done \cup {p} ELSE inst[c].done]
  <2>2. /\ InstWellFormed(next) /\ next.pc = "remove" /\ next.op = "uninstall" /\ inst[c].op = "uninstall"
        /\ next.done = IF end.reported THEN inst[c].done \cup {p} ELSE inst[c].done
    BY <1>1, <1>4 DEF RemoveEntry, InstWellFormed, InstFields, Settled
  <2>3. end.reported => end.done
    BY DEF CommandEnds
  <2>4. /\ DOMAIN entry' = Providers
        /\ \A q \in Providers : entry'[q] \in Owned => entry[q] \in Owned
        /\ \A q \in Providers : q \in next.done \ inst[c].done => entry'[q] \notin Owned
    BY <1>1, <2>1, <2>2, <2>3 DEF Owned
  <2>5. UNCHANGED loose /\ Proceed(c, next)
    BY <1>4, <2>1 DEF RemoveEntry
  <2> HIDE DEF next
  <2>6. QED
    BY <1>1, <2>1, <2>2, <2>4, <2>5, InstallerProceeds DEF Settled
<1>5. QED
  BY <1>2, <1>3, <1>4

LEMMA RecordingAccounted ==
  ASSUME RegistrationInv, NEW c \in Calls, ReadManifest(c) \/ Record(c) \/ Forget(c)
  PROVE  RegistrationInv'
<1>1. UNCHANGED <<entry, edit>> /\ InstWellFormed(inst[c]) /\ DOMAIN entry = Providers /\ inst[c].pc \notin Settled
  BY InstallerAtWork DEF ReadManifest, Record, Forget, Settled, Proceed, confVars
<1>2. CASE ReadManifest(c)
  <2> DEFINE next == [inst[c] EXCEPT !.pc = IF inst[c].pc = "prepare" THEN "record" ELSE "unrecord", !.base = manifest]
  <2>1. Proceed(c, next) /\ UNCHANGED <<manifest, loose>> /\ inst[c].pc \in {"prepare", "forget"}
    BY <1>2 DEF ReadManifest
  <2>2. /\ InstWellFormed(next) /\ next.pc \in {"record", "unrecord"} /\ next.op = inst[c].op
        /\ next.done = inst[c].done /\ next.base = manifest
    BY <1>1, <2>1 DEF InstWellFormed, InstFields, Settled
  <2> HIDE DEF next
  <2>3. QED
    BY <1>1, <2>1, <2>2, InstallerProceeds DEF Settled
<1>3. CASE Record(c) \/ Forget(c)
  <2> DEFINE next == Finish(c, "ended")
  <2>1. inst' = [inst EXCEPT ![c] = next]
    BY <1>3 DEF Record, Forget, Proceed
  <2>2. InstWellFormed(next) /\ next.pc = "ended"
    BY DEF Finish, Unstarted, InstWellFormed, InstFields, Settled
  <2>3. ASSUME ~Alone(c) PROVE Providers \subseteq loose'
    BY <1>1, <1>3, <2>3, InstallerAtWork DEF Record, Forget
  <2>4. ASSUME Alone(c) PROVE Accounted'
    <3>1. Providers \subseteq loose \/ (Covered(c) /\ inst[c].base = manifest)
      BY <1>1, <1>3, InstallerAtWork DEF Covered, Record, Forget
    <3>2. CASE Record(c)
      <4>1. /\ manifest' = inst[c].base \cup inst[c].done /\ loose' = loose \ inst[c].done
            /\ inst[c].op = "install"
        BY <1>1, <2>4, <3>2 DEF Record, Recordable, InstWellFormed
      <4>2. QED
        BY <1>1, <3>1, <4>1 DEF Covered, Accounted
    <3>3. CASE Forget(c)
      <4>1. manifest' = inst[c].base \ inst[c].done /\ loose' = loose /\ inst[c].op = "uninstall"
        BY <1>1, <3>3 DEF Forget, InstWellFormed
      <4>2. QED
        BY <1>1, <3>1, <4>1 DEF Covered, Accounted
    <3>4. QED
      BY <1>3, <3>2, <3>3
  <2> HIDE DEF next
  <2>5. QED
    BY <1>1, <2>1, <2>2, <2>3, <2>4, InstallerMoves DEF Settled
<1>4. QED
  BY <1>2, <1>3

LEMMA PreparingAccounted ==
  ASSUME RegistrationInv, ContractInv, NEW c \in Calls, PrepareState(c),
         \A x \in Calls : edit[x].pc # "idle" => edit'[x].pc # "idle"
  PROVE  RegistrationInv'
<1> DEFINE next == [inst[c] EXCEPT !.pc = "prepare"]
<1>1. inst' = [inst EXCEPT ![c] = next] /\ UNCHANGED <<entry, manifest, loose>> /\ inst[c].pc = "apply"
  BY DEF PrepareState
<1>2. InstWellFormed(inst[c]) /\ DOMAIN entry = Providers /\ inst[c].pc \notin Settled /\ edit[c].pc # "idle"
  BY <1>1, InstallerAtWork DEF Settled
<1>3. /\ InstWellFormed(next) /\ next.pc = "prepare" /\ next.op = inst[c].op /\ next.done = inst[c].done
      /\ inst'[c] = next /\ next.op = "install"
  BY <1>1, <1>2 DEF InstWellFormed, InstFields, Settled, RegistrationInv
<1> HIDE DEF next
<1>4. Providers \subseteq loose' \/ Covered(c)'
  BY <1>1, <1>2, <1>3, InstallerAtWork DEF Covered
<1>5. QED
  BY <1>1, <1>2, <1>3, <1>4, InstallerAtWork, InstallerMoves DEF Settled

LEMMA InstallerDies ==
  ASSUME RegistrationInv, NEW c \in Calls, Installing(c), InsDies(c), UNCHANGED manifest,
         \A x \in Calls : edit[x].pc # "idle" => edit'[x].pc # "idle"
  PROVE  RegistrationInv'
<1> DEFINE next == Finish(c, "crashed")
<1>1. inst' = [inst EXCEPT ![c] = next] /\ inst[c].pc \notin Settled /\ loose \subseteq loose'
  BY DEF InsDies, Installing
<1>2. InstWellFormed(next) /\ next.pc = "crashed"
  BY DEF Finish, Unstarted, InstWellFormed, InstFields, Settled
(* A command of an uninstall under way registers nothing.                    *)
<1>3. /\ DOMAIN entry' = Providers
      /\ inst[c].op = "uninstall" => \A p \in Providers : entry'[p] \in Owned => entry[p] \in Owned
  BY <1>1, InstallerAtWork DEF InsDies, Underway, InstWellFormed, RegistrationInv, Owned
<1>4. ASSUME Alone(c) PROVE Accounted'
  <2>1. inst[c].op \in {"install", "uninstall"} /\ (Providers \subseteq loose \/ Covered(c))
    BY <1>1, InstallerAtWork DEF InstWellFormed
  <2>2. inst[c].op = "install" => loose' = loose \cup (inst[c].done \ manifest) \cup Added
    BY DEF InsDies
  <2>3. QED
    BY <1>1, <1>3, <2>1, <2>2 DEF Covered, Accounted, Added
<1> HIDE DEF next
<1>5. QED
  BY <1>1, <1>2, <1>3, <1>4, InstallerAtWork, InstallerMoves DEF Settled

LEMMA InsStepAccounted ==
  ASSUME RegistrationInv, ContractInv, NEW c \in Calls, InsStep(c),
         \A x \in Calls : edit[x].pc # "idle" => edit'[x].pc # "idle"
  PROVE  RegistrationInv'
<1>1. CASE Install(c)
  <2>1. PICK chosen : Engage(c, [Unstarted EXCEPT !.op = "install", !.pc = "plan", !.todo = chosen])
                      /\ UNCHANGED <<entry, manifest>>
    BY <1>1 DEF Install, Engage
  <2> DEFINE r == [Unstarted EXCEPT !.op = "install", !.pc = "plan", !.todo = chosen]
  <2>2. InstWellFormed(r) /\ r.pc = "plan" /\ r.done = {}
    BY DEF Unstarted, InstWellFormed, InstFields, Settled
  <2>3. QED
    BY <2>1, <2>2, EngageAccounted
<1>2. CASE Uninstall(c)
  <2> DEFINE r == [Unstarted EXCEPT !.op = "uninstall", !.pc = "remove",
                                    !.todo = IF manifest # {} THEN manifest ELSE Providers]
  <2>1. Engage(c, r) /\ UNCHANGED <<entry, manifest>>
    BY <1>2 DEF Uninstall, Engage
  <2>2. InstWellFormed(r) /\ r.pc = "remove" /\ r.done = {}
    BY DEF Unstarted, InstWellFormed, InstFields, Settled
  <2>3. QED
    BY <2>1, <2>2, EngageAccounted
<1>3. CASE ChangeHosts(c)
  <2>1. UNCHANGED <<manifest, inst, loose>>
    BY <1>3 DEF ChangeHosts
  <2>2. \/ \E p \in Providers, what \in {"absent", "foreign"} : entry' = [entry EXCEPT ![p] = what]
        \/ entry' = [p \in Providers |-> IF entry[p] = "current" THEN "outdated" ELSE entry[p]]
    BY <1>3 DEF ChangeHosts
  <2>3. DOMAIN entry' = Providers /\ \A p \in Providers : entry'[p] \in Owned => entry[p] \in Owned
    BY <2>2 DEF RegistrationInv, Owned
  <2>4. QED
    BY <2>1, <2>3, HostsOnly
<1>4. QED
  BY <1>1, <1>2, <1>3, PlanningAccounted, InspectingAccounted, CommandsAccounted, RecordingAccounted,
     PreparingAccounted DEF InsStep

LEMMA RegistrationStep == ContractInv /\ RegistrationInv /\ [Next]_vars => RegistrationInv'
<1> SUFFICES ASSUME ContractInv, RegistrationInv, [Next]_vars PROVE RegistrationInv'
  OBVIOUS
<1>1. \A x \in Calls : edit[x].pc # "idle" => edit'[x].pc # "idle"
  BY NeverIdleAgain
<1>2. ASSUME UNCHANGED insVars PROVE RegistrationInv'
  BY <1>1, <1>2, HostsOnly DEF insVars, RegistrationInv
<1>3. ASSUME NEW c \in Calls, RunStep(c) PROVE UNCHANGED insVars
  <2>1. Outside => UNCHANGED insVars
    BY DEF Outside
  <2>2. \A r : Started(c, r) => UNCHANGED insVars
    BY DEF Started
  <2>3. \A r : Shown(c, r) => UNCHANGED insVars
    BY <2>1 DEF Shown
  <2>4. Reopen(c) \/ Invoke(c) \/ InvokeOnProject(c) \/ UserCompletes(c) \/ MarkCompleted(c) => UNCHANGED insVars
    BY <2>2 DEF Reopen, Invoke, InvokeOnProject, UserCompletes, MarkCompleted
  <2>5. ForceRelease(c) \/ OpenTaskSession(c) \/ BindTask(c) \/ InvokeAfterOpening(c) \/ CaptureFence(c) \/ Commit(c)
          => UNCHANGED insVars
    BY <2>1 DEF ForceRelease, OpenTaskSession, BindTask, InvokeAfterOpening, CaptureFence, Commit
  <2>6. CheckFields(c) \/ ApplyExaminerIntent(c) \/ SaveRecord(c) \/ SaveQuestionerContext(c) \/ SaveDraft(c)
          \/ SaveReviewerReport(c) => UNCHANGED insVars
    BY <2>1 DEF CheckFields, ApplyExaminerIntent, SaveRecord, SaveQuestionerContext, SaveDraft, SaveReviewerReport
  <2>7. BuildMemory(c) \/ ReadGlobalRules(c) \/ ResolveCall(c) \/ BuildRules(c) \/ BuildBehavior(c) \/ BuildWorking(c)
          => UNCHANGED insVars
    BY <2>3 DEF BuildMemory, ReadGlobalRules, ResolveCall, BuildRules, BuildBehavior, BuildWorking
  <2>8. ASSUME NEW kind, BuildArtifacts(c, kind) PROVE UNCHANGED insVars
    BY <2>3, <2>8 DEF BuildArtifacts
  <2>9. QED
    BY <1>3, <2>4, <2>5, <2>6, <2>7, <2>8 DEF RunStep
<1>4. ASSUME NEW c \in Calls, Crash(c) PROVE RegistrationInv'
  <2>1. UNCHANGED insVars \/ (Installing(c) /\ InsDies(c) /\ UNCHANGED manifest)
    BY <1>4 DEF Crash
  <2>2. QED
    BY <1>1, <1>2, <1>4, <2>1, InstallerDies
<1>5. QED
  BY <1>1, <1>2, <1>3, <1>4, InsStepAccounted DEF Next, vars

(* However installs, uninstalls, edits of the hosts and deaths of installers *)
(* interleave: when none is at work, each registration of ours is recorded   *)
(* in the manifest, but for the ones history marks as loose.                 *)
THEOREM RegistrationsRecorded == Spec => []RegistrationAccountedFor
<1>1. RegistrationInv => RegistrationAccountedFor
  BY DEF RegistrationInv, Accounted, RegistrationAccountedFor
<1>2. QED
  BY <1>1, ContractInit, ContractStep, RegistrationInit, RegistrationStep, PTL DEF Spec

-----------------------------------------------------------------------------
(* Every call does one thing: it writes documents, works on the registry,    *)
(* installs or runs an agent, and never begins again.                        *)
WorkFields == {"op", "pc", "for", "from", "listed"}
Once(c) ==
  /\ work[c].op # "none" \/ run[c].pc # "idle" \/ inst[c].pc # "idle" => edit[c].pc # "idle"
  /\ work[c].op # "none" => run[c].pc = "idle" /\ inst[c].pc = "idle"
  /\ run[c].pc # "idle" => inst[c].pc = "idle"
OnceInv == DOMAIN work = Calls /\ \A c \in Calls : DOMAIN work[c] = WorkFields /\ Once(c)

(* At first no call has begun.                                               *)
LEMMA OnceInit == Init => OnceInv
BY DEF Init, RegInit, InsInit, RunInit, OnceInv, Once, Resting, WorkFields, Unstarted, NotRunning

(* A step of one call leaves what the others do as it is.                    *)
LEMMA OneOnce ==
  ASSUME OnceInv, ContractInv, RegistrationInv, [Next]_vars, NEW c \in Calls,
         work' = work \/ work' = [work EXCEPT ![c] = work'[c]],
         run' = run \/ run' = [run EXCEPT ![c] = run'[c]],
         inst' = inst \/ inst' = [inst EXCEPT ![c] = inst'[c]],
         DOMAIN work'[c] = WorkFields, Once(c)'
  PROVE  OnceInv'
<1>1. ASSUME NEW x \in Calls \ {c} PROVE DOMAIN work'[x] = WorkFields /\ Once(x)'
  <2>1. work'[x] = work[x] /\ run'[x] = run[x] /\ inst'[x] = inst[x]
    BY DEF OnceInv, ContractInv, RunsWithin, RegistrationInv
  <2>2. edit[x].pc # "idle" => edit'[x].pc # "idle" BY NeverIdleAgain
  <2>3. QED BY <2>1, <2>2 DEF OnceInv, Once
<1>2. QED BY <1>1 DEF OnceInv

(* A step that is of the documents alone starts nothing else.                *)
LEMMA OnceKept ==
  ASSUME OnceInv, ContractInv, [Next]_vars, UNCHANGED <<work, run, inst>>
  PROVE  OnceInv'
<1>1. \A x \in Calls : edit[x].pc # "idle" => edit'[x].pc # "idle" BY NeverIdleAgain
<1>2. QED BY <1>1 DEF OnceInv, Once

(* A step on the registry begins a call or is one of a call at work.         *)
LEMMA RegStepShape ==
  ASSUME OnceInv, NEW c \in Calls, RegStep(c)
  PROVE  /\ work' = [work EXCEPT ![c] = work'[c]] /\ DOMAIN work'[c] = WorkFields /\ work'[c].op # "none"
         /\ Occupy(c) \/ (work[c].op # "none" /\ work'[c].op = work[c].op)
<1>0. DOMAIN work = Calls /\ DOMAIN work[c] = WorkFields BY DEF OnceInv
<1>1. ASSUME NEW op, NEW pc, NEW for, NEW from, Take(c, op, pc, for, from), op # "none"
      PROVE  work' = [work EXCEPT ![c] = work'[c]] /\ DOMAIN work'[c] = WorkFields /\ work'[c].op # "none" /\ Occupy(c)
  BY <1>0, <1>1 DEF Take, Resting, WorkFields
<1>2. ASSUME NEW pc, Becomes(c, pc)
      PROVE  work' = [work EXCEPT ![c] = work'[c]] /\ DOMAIN work'[c] = WorkFields /\ work'[c].op = work[c].op
  BY <1>0, <1>2 DEF Becomes, Resting, WorkFields
<1>3. CASE CreateProject(c) \/ CreateTask(c) \/ Archive(c) \/ Load(c) \/ Unload(c)
  BY <1>1, <1>3 DEF CreateProject, CreateTask, Archive, Load, Unload
<1>4. CASE \/ SeedForProject(c) \/ RegisterProject(c) \/ RegisterTask(c) \/ CheckCompleted(c) \/ MarkArchived(c)
           \/ MoveArchived(c)
  BY <1>2, <1>4 DEF SeedForProject, RegisterProject, RegisterTask, CheckCompleted, MarkArchived, MoveArchived, At
<1>5. CASE LockMemory(c) \/ CheckLoad(c) \/ WriteReference(c) \/ RemoveReference(c)
  BY <1>2, <1>5 DEF LockMemory, CheckLoad, WriteReference, RemoveReference, At
<1>6. ASSUME NEW where, ListTasks(c, where)
      PROVE  /\ work' = [work EXCEPT ![c] = work'[c]] /\ DOMAIN work'[c] = WorkFields /\ work'[c].op # "none"
             /\ work[c].op # "none" /\ work'[c].op = work[c].op
  BY <1>0, <1>6 DEF ListTasks, At, WorkFields
<1>7. QED BY <1>3, <1>4, <1>5, <1>6 DEF RegStep

(* A step of an installer is of its own process, just begun or at work.      *)
LEMMA InsStepShape ==
  ASSUME RegistrationInv, NEW c \in Calls, InsStep(c)
  PROVE  /\ UNCHANGED work
         /\ \/ UNCHANGED inst
            \/ inst' = [inst EXCEPT ![c] = inst'[c]] /\ (Occupy(c) \/ inst[c].pc # "idle")
<1>1. ASSUME NEW r, Proceed(c, r)
      PROVE  UNCHANGED work /\ inst' = [inst EXCEPT ![c] = inst'[c]]
  BY <1>1 DEF Proceed, regVars, RegistrationInv
<1>2. ASSUME NEW r, Engage(c, r)
      PROVE  UNCHANGED work /\ inst' = [inst EXCEPT ![c] = inst'[c]] /\ Occupy(c)
  BY <1>2 DEF Engage, regVars, RegistrationInv
<1>3. CASE Install(c) \/ Uninstall(c)
  BY <1>2, <1>3 DEF Install, Uninstall
<1>4. CASE PlanHost(c) \/ Confirm(c) \/ InspectAgain(c)
  <2>1. \E r : Proceed(c, r) BY <1>4 DEF PlanHost, Confirm, InspectAgain
  <2>2. inst[c].pc # "idle" BY <1>4 DEF PlanHost, Confirm, InspectAgain
  <2>3. QED BY <1>1, <2>1, <2>2
<1>5. CASE RemoveStale(c) \/ AddEntry(c) \/ ReadManifest(c) \/ Record(c) \/ Forget(c)
  <2>1. \E r : Proceed(c, r) BY <1>5 DEF RemoveStale, AddEntry, ReadManifest, Record, Forget
  <2>2. inst[c].pc # "idle" BY <1>5 DEF RemoveStale, AddEntry, ReadManifest, Record, Forget
  <2>3. QED BY <1>1, <2>1, <2>2
<1>6. CASE InspectToRemove(c) \/ RemoveEntry(c) \/ RemovalsDone(c)
  <2>1. \E r : Proceed(c, r) BY <1>6 DEF InspectToRemove, RemoveEntry, RemovalsDone
  <2>2. inst[c].pc # "idle" BY <1>6 DEF InspectToRemove, RemoveEntry, RemovalsDone
  <2>3. QED BY <1>1, <2>1, <2>2
<1>7. CASE PrepareState(c) \/ ChangeHosts(c)
  BY <1>7 DEF PrepareState, ChangeHosts, regVars, RegistrationInv
<1>8. QED BY <1>3, <1>4, <1>5, <1>6, <1>7 DEF InsStep

(* A step of a run is of that run, just begun or at work.                    *)
LEMMA RunStepShape ==
  ASSUME ContractInv, NEW c \in Calls, RunStep(c), ~UserCompletes(c)
  PROVE  /\ run' = [run EXCEPT ![c] = run'[c]] /\ UNCHANGED <<work, inst>>
         /\ Occupy(c) \/ (run[c].pc \notin Settled /\ UNCHANGED edit)
<1>0. DOMAIN run = Calls BY DEF ContractInv, RunsWithin
<1>1. Outside => UNCHANGED <<work, inst, edit>> BY DEF Outside, insVars, confVars
<1>2. ASSUME NEW r, Started(c, r)
      PROVE  run' = [run EXCEPT ![c] = run'[c]] /\ UNCHANGED <<work, inst>> /\ Occupy(c)
  BY <1>0, <1>2 DEF Started, regVars, insVars
<1>3. ASSUME NEW pc, RunGoto(c, pc) PROVE run' = [run EXCEPT ![c] = run'[c]]
  BY <1>0, <1>3 DEF RunGoto
<1>4. ASSUME NEW r, Shown(c, r) PROVE run' = [run EXCEPT ![c] = run'[c]] /\ Outside
  BY <1>0, <1>4 DEF Shown
<1>5. CASE Reopen(c) \/ Invoke(c) \/ InvokeOnProject(c)
  BY <1>2, <1>5 DEF Reopen, Invoke, InvokeOnProject
<1>6. CASE ForceRelease(c) \/ OpenTaskSession(c) \/ BindTask(c) \/ CaptureFence(c) \/ Commit(c)
  <2>1. /\ run[c].pc \in {"release", "open", "bind", "context", "commit"} /\ Outside /\ \E pc : RunGoto(c, pc)
    BY <1>6 DEF ForceRelease, OpenTaskSession, BindTask, CaptureFence, Commit
  <2>2. QED BY <1>1, <1>3, <2>1 DEF Settled
<1>7. CASE InvokeAfterOpening(c)
  BY <1>0, <1>1, <1>7 DEF InvokeAfterOpening, Settled
<1>8. CASE CheckFields(c) \/ ApplyExaminerIntent(c) \/ SaveRecord(c) \/ SaveQuestionerContext(c) \/ SaveDraft(c)
  <2>1. run[c].pc \in {"apply", "save"} /\ Outside /\ \E pc : RunGoto(c, pc)
    BY <1>8 DEF CheckFields, ApplyExaminerIntent, SaveRecord, SaveQuestionerContext, SaveDraft
  <2>2. QED BY <1>1, <1>3, <2>1 DEF Settled
<1>9. CASE SaveReviewerReport(c) \/ MarkCompleted(c)
  <2>1. run[c].pc \in {"save", "complete"} /\ UNCHANGED <<work, inst, edit>> /\ \E pc : RunGoto(c, pc)
    BY <1>1, <1>9 DEF SaveReviewerReport, MarkCompleted, insVars, confVars
  <2>2. QED BY <1>3, <2>1 DEF Settled
<1>10. CASE \/ BuildMemory(c) \/ ReadGlobalRules(c) \/ ResolveCall(c) \/ BuildRules(c) \/ BuildBehavior(c)
            \/ BuildWorking(c) \/ \E i \in 2..4 : BuildArtifacts(c, ArtifactOrder[i])
  <2>1. run[c].pc = "context" /\ \E r : Shown(c, r)
    BY <1>10 DEF BuildMemory, ReadGlobalRules, ResolveCall, BuildRules, BuildBehavior, BuildWorking, BuildArtifacts,
         NextArtifacts, Building
  <2>2. QED BY <1>1, <1>4, <2>1 DEF Settled
<1>11. QED BY <1>5, <1>6, <1>7, <1>8, <1>9, <1>10 DEF RunStep

(* A process that ends does so in the one thing it does.                     *)
LEMMA CrashShape ==
  ASSUME OnceInv, NEW c \in Calls, Crash(c)
  PROVE  /\ edit[c].pc # "idle" /\ UNCHANGED <<docs, source, status, place, owner, refs>>
         /\ \/ work[c].op # "none" /\ RegDies(c) /\ UNCHANGED <<insVars, runVars>>
            \/ /\ work[c].op = "none" /\ Installing(c) /\ InsDies(c)
               /\ UNCHANGED <<manifest, work, mutex, bound, runVars>>
            \/ work[c].op = "none" /\ Running(c) /\ RunDies(c) /\ UNCHANGED <<work, mutex, insVars, memory, working, records>>
            \/ work[c].op = "none" /\ UNCHANGED <<work, mutex, bound, insVars, runVars>>
<1>1. Once(c) BY DEF OnceInv
<1>2. CASE work[c].op # "none"
  <2>1. ~Installing(c) /\ ~Running(c) BY <1>1, <1>2 DEF Once, Installing, Running, Settled
  <2>2. QED BY <1>2, <2>1 DEF Crash
<1>3. CASE work[c].op = "none" /\ Installing(c)
  <2>1. ~Running(c) BY <1>1, <1>3 DEF Once, Installing, Running, Settled
  <2>2. QED BY <1>3, <2>1 DEF Crash
<1>4. CASE work[c].op = "none" /\ ~Installing(c)
  BY <1>4 DEF Crash
<1>5. QED BY <1>2, <1>3, <1>4

(* No step lets a call do two things.                                        *)
LEMMA OnceStep == OnceInv /\ ContractInv /\ RegistrationInv /\ [Next]_vars => OnceInv'
<1> SUFFICES ASSUME OnceInv, ContractInv, RegistrationInv, [Next]_vars PROVE OnceInv' OBVIOUS
<1>0. \A c \in Calls : edit[c].pc # "idle" => edit'[c].pc # "idle" BY NeverIdleAgain
<1>1. ASSUME NEW c \in Calls, Occupy(c) PROVE edit'[c].pc # "idle" /\ edit[c].pc = "idle"
  BY <1>1 DEF Occupy, ContractInv, EditsWithin, EditWithin, EditFields
<1>2. ASSUME UNCHANGED <<work, run, inst>> PROVE OnceInv' BY <1>2, OnceKept
<1>3. ASSUME NEW c \in Calls, RegStep(c), UNCHANGED <<insVars, runVars>> PROVE OnceInv'
  <2>1. UNCHANGED <<run, inst>> BY <1>3 DEF insVars, runVars
  <2>2. Once(c)' BY <1>0, <1>1, <1>3, <2>1, RegStepShape DEF OnceInv, Once
  <2>3. QED BY <1>3, <2>1, <2>2, RegStepShape, OneOnce
<1>4. ASSUME NEW c \in Calls, InsStep(c), UNCHANGED runVars PROVE OnceInv'
  <2>1. UNCHANGED run BY <1>4 DEF runVars
  <2>2. CASE UNCHANGED inst BY <1>2, <1>4, <2>1, <2>2, InsStepShape
  <2>3. CASE ~UNCHANGED inst
    <3>1. Once(c)' BY <1>0, <1>1, <1>4, <2>1, <2>3, InsStepShape DEF OnceInv, Once
    <3>2. QED BY <1>4, <2>1, <2>3, <3>1, InsStepShape, OneOnce DEF OnceInv
  <2>4. QED BY <2>2, <2>3
<1>5. ASSUME NEW c \in Calls, RunStep(c) PROVE OnceInv'
  <2>1. CASE UserCompletes(c)
    <3>1. /\ UNCHANGED <<run, inst>> /\ Occupy(c) /\ work' = [work EXCEPT ![c] = work'[c]]
          /\ DOMAIN work'[c] = WorkFields /\ work'[c].op = "archive"
      BY <2>1 DEF UserCompletes, Resting, WorkFields, insVars, runVars, OnceInv
    <3>2. Once(c)' BY <1>1, <3>1 DEF OnceInv, Once
    <3>3. QED BY <3>1, <3>2, OneOnce
  <2>2. CASE ~UserCompletes(c)
    <3>1. Once(c)' BY <1>0, <1>1, <1>5, <2>2, RunStepShape DEF OnceInv, Once, Settled
    <3>2. QED BY <1>5, <2>2, <3>1, RunStepShape, OneOnce DEF OnceInv
  <2>3. QED BY <2>1, <2>2
<1>6. ASSUME NEW c \in Calls, Crash(c) PROVE OnceInv'
  <2>1. CASE work[c].op # "none" /\ RegDies(c) /\ UNCHANGED <<insVars, runVars>>
    <3>1. UNCHANGED <<run, inst>> /\ work' = [work EXCEPT ![c] = [Resting EXCEPT !.op = work[c].op, !.pc = "crashed"]]
      BY <2>1 DEF RegDies, insVars, runVars
    <3>2. work' = [work EXCEPT ![c] = work'[c]] /\ DOMAIN work'[c] = WorkFields /\ work'[c].op = work[c].op
      BY <3>1 DEF OnceInv, Resting, WorkFields
    <3>3. Once(c)' BY <1>0, <2>1, <3>1, <3>2 DEF OnceInv, Once
    <3>4. QED BY <3>1, <3>2, <3>3, OneOnce
  <2>2. CASE work[c].op = "none" /\ Installing(c) /\ InsDies(c) /\ UNCHANGED <<manifest, work, mutex, bound, runVars>>
    <3>1. UNCHANGED <<run, work>> /\ inst' = [inst EXCEPT ![c] = inst'[c]]
      BY <2>2 DEF InsDies, runVars, RegistrationInv
    <3>2. Once(c)' BY <1>0, <2>2, <3>1 DEF OnceInv, Once, Installing, Settled
    <3>3. QED BY <3>1, <3>2, OneOnce DEF OnceInv
  <2>3. CASE work[c].op = "none" /\ Running(c) /\ RunDies(c) /\ UNCHANGED <<work, mutex, insVars, memory, working, records>>
    <3>1. UNCHANGED <<work, inst>> /\ run' = [run EXCEPT ![c] = run'[c]]
      BY <2>3 DEF RunDies, RunGoto, insVars, ContractInv, RunsWithin
    <3>2. Once(c)' BY <1>0, <2>3, <3>1 DEF OnceInv, Once, Running, Settled
    <3>3. QED BY <3>1, <3>2, OneOnce DEF OnceInv
  <2>4. CASE UNCHANGED <<work, mutex, bound, insVars, runVars>>
    BY <1>2, <2>4 DEF insVars, runVars
  <2>5. QED BY <1>6, <2>1, <2>2, <2>3, <2>4, CrashShape
<1>7. QED BY <1>2, <1>3, <1>4, <1>5, <1>6 DEF Next, ConfStep, vars, confVars, regVars, insVars, runVars

-----------------------------------------------------------------------------
(* The task-binding lock.  A run that may still write holds it while its     *)
(* session owns the task and the task is not archived; so does an archive    *)
(* between the check of the status and the move.                             *)
Committing == {"apply", "save", "complete"}
Placed(c) ==
  /\ run[c].task \in Tasks \cup {"none"}
  /\ ActiveRequired(run[c].agent) \/ run[c].pc \in {"release", "open", "bind", "bound", "commit", "complete"} =>
       run[c].task \in Tasks
Holding(c) ==
  /\ run[c].pc \in Committing /\ run[c].task # "none" =>
       bound = c /\ owner[run[c].task] = run[c].session /\ status[run[c].task] \in {"active", "completed"}
  /\ work[c].op = "archive" /\ work[c].pc \in {"check", "mark", "move"} => work[c].for \in Tasks
  /\ work[c].op = "archive" /\ work[c].pc \in {"mark", "move"} =>
       bound = c /\ status[work[c].for] = (IF work[c].pc = "mark" THEN "completed" ELSE "archived")
LockInv ==
  /\ DOMAIN source = Projects /\ DOMAIN status = Tasks /\ DOMAIN owner = Tasks /\ DOMAIN place = Tasks
  /\ \A c \in Calls : Placed(c) /\ Holding(c)
  /\ \A t \in Tasks : place[t] = "archive" => status[t] = "archived"

(* At first the lock is free, and nobody is committing.                      *)
LEMMA LockInit == Init => LockInv
BY FirstAssumption, ScopesAssumption
   DEF Init, RegInit, RunInit, LockInv, Placed, Holding, NotRunning, Resting, ActiveRequired, Committing

(* Whoever does not hold the lock disturbs nobody who does.                  *)
LEMMA OneLock ==
  ASSUME LockInv, OnceInv, ContractInv, NEW c \in Calls,
         work' = work \/ work' = [work EXCEPT ![c] = work'[c]],
         run' = run \/ run' = [run EXCEPT ![c] = run'[c]],
         DOMAIN source' = Projects, DOMAIN status' = Tasks, DOMAIN owner' = Tasks, DOMAIN place' = Tasks,
         bound \in Calls \ {c} =>
           bound' = bound /\ owner' = owner /\ \A t \in Tasks : status[t] # "none" => status'[t] = status[t],
         \A t \in Tasks : place'[t] = "archive" => status'[t] = "archived",
         Placed(c)', Holding(c)'
  PROVE  LockInv'
<1>1. ASSUME NEW x \in Calls \ {c} PROVE Placed(x)' /\ Holding(x)'
  <2>1. run'[x] = run[x] /\ work'[x] = work[x] BY DEF OnceInv, ContractInv, RunsWithin
  <2>2. Placed(x) /\ Holding(x) BY DEF LockInv
  <2>3. Placed(x)' BY <2>1, <2>2 DEF Placed
  <2>4. CASE run[x].pc \in Committing /\ run[x].task # "none"
    <3>1. bound = x /\ run[x].task \in Tasks BY <2>2, <2>4 DEF Holding, Placed
    <3>2. ~(work[x].op = "archive" /\ work[x].pc \in {"check", "mark", "move"})
      BY <2>4 DEF OnceInv, Once, Committing
    <3>3. QED BY <2>1, <2>2, <2>3, <3>1, <3>2 DEF Holding
  <2>5. CASE work[x].op = "archive" /\ work[x].pc \in {"mark", "move"}
    <3>1. bound = x /\ work[x].for \in Tasks BY <2>2, <2>5 DEF Holding
    <3>2. run[x].pc \notin Committing BY <2>5 DEF OnceInv, Once, Committing
    <3>3. QED BY <2>1, <2>2, <2>3, <2>5, <3>1, <3>2 DEF Holding
  <2>6. QED BY <2>1, <2>2, <2>3, <2>4, <2>5 DEF Holding
<1>2. QED BY <1>1 DEF LockInv

(* Nothing of the lock changes where nothing it is about does.               *)
LEMMA LockKept ==
  ASSUME LockInv, UNCHANGED <<source, status, owner, place, bound, run, work>>
  PROVE  LockInv'
BY DEF LockInv, Placed, Holding

(* Installers do not touch the registry.                                     *)
LEMMA InstallersStayOut == ASSUME NEW c \in Calls, InsStep(c) PROVE UNCHANGED regVars
<1>1. \A r : Proceed(c, r) \/ Engage(c, r) => UNCHANGED regVars BY DEF Proceed, Engage
<1>2. Install(c) \/ Uninstall(c) \/ PlanHost(c) \/ Confirm(c) \/ InspectAgain(c) => UNCHANGED regVars
  BY <1>1 DEF Install, Uninstall, PlanHost, Confirm, InspectAgain
<1>3. RemoveStale(c) \/ AddEntry(c) \/ ReadManifest(c) \/ Record(c) \/ Forget(c) => UNCHANGED regVars
  BY <1>1 DEF RemoveStale, AddEntry, ReadManifest, Record, Forget
<1>4. InspectToRemove(c) \/ RemoveEntry(c) \/ RemovalsDone(c) => UNCHANGED regVars
  BY <1>1 DEF InspectToRemove, RemoveEntry, RemovalsDone
<1>5. PrepareState(c) \/ ChangeHosts(c) => UNCHANGED regVars BY DEF PrepareState, ChangeHosts
<1>6. QED BY <1>2, <1>3, <1>4, <1>5 DEF InsStep

(* A call of the registry runs no agent.                                     *)
LEMMA RegistryRunsNone ==
  ASSUME OnceInv, ContractInv, NEW c \in Calls, work[c].op # "none" \/ Occupy(c)
  PROVE  run[c].pc = "idle"
BY DEF OnceInv, Once, Occupy

(* What Becomes makes of a call.                                             *)
LEMMA BecomesFields ==
  ASSUME OnceInv, NEW c \in Calls, NEW pc, Becomes(c, pc)
  PROVE  /\ work' = [work EXCEPT ![c] = work'[c]] /\ work'[c].pc = pc /\ work'[c].op = work[c].op
         /\ pc \notin Over => \A f \in WorkFields \ {"pc"} : work'[c][f] = work[c][f]
<1>1. DOMAIN work = Calls /\ DOMAIN work[c] = WorkFields BY DEF OnceInv
<1>2. QED BY <1>1 DEF Becomes, Resting, WorkFields

(* The steps of the registry: an archive takes the lock, and only the one    *)
(* that has it marks and moves.                                              *)
LEMMA RegLock ==
  ASSUME LockInv, OnceInv, ContractInv, NEW c \in Calls, RegStep(c), UNCHANGED runVars
  PROVE  LockInv'
<1>0. /\ UNCHANGED run /\ run[c].pc = "idle" /\ Placed(c) /\ Holding(c)
      /\ work' = [work EXCEPT ![c] = work'[c]]
  BY RegStepShape, RegistryRunsNone DEF runVars, LockInv
<1>1. Placed(c)' /\ run'[c].pc \notin Committing BY <1>0 DEF Placed, Committing
<1>2. ASSUME UNCHANGED <<status, owner, place, bound>>, DOMAIN source' = Projects,
             work'[c].op = "archive" /\ work'[c].pc \in {"check", "mark", "move"} =>
               work'[c].for \in Tasks /\ work'[c].pc = "check"
      PROVE  LockInv'
  <2>1. Holding(c)' BY <1>0, <1>1, <1>2 DEF Holding
  <2>2. QED BY <1>0, <1>1, <1>2, <2>1, OneLock DEF LockInv
<1>3. ASSUME NEW op, NEW pc, NEW for, NEW from, Take(c, op, pc, for, from), op = "archive" => for \in Tasks /\ pc = "check"
      PROVE  LockInv'
  <2>1. work'[c] = [Resting EXCEPT !.op = op, !.pc = pc, !.for = for, !.from = from]
    BY <1>3 DEF Take, OnceInv
  <2>2. work'[c].op = op /\ work'[c].pc = pc /\ work'[c].for = for BY <2>1 DEF Resting
  <2>3. QED BY <1>2, <1>3, <2>2 DEF Take, LockInv
<1>4. CASE CreateProject(c) \/ CreateTask(c) \/ Archive(c) \/ Load(c) \/ Unload(c)
  BY <1>3, <1>4 DEF CreateProject, CreateTask, Archive, Load, Unload
<1>5. CASE SeedForProject(c) \/ RegisterProject(c)
  <2>1. work'[c].op = "create" BY <1>5, BecomesFields DEF SeedForProject, RegisterProject, At
  <2>2. UNCHANGED <<status, owner, place, bound>> /\ DOMAIN source' = Projects
    BY <1>5 DEF SeedForProject, RegisterProject, LockInv
  <2>3. QED BY <1>2, <2>1, <2>2
<1>6. CASE RegisterTask(c)
  <2>1. work'[c].op = "task" /\ UNCHANGED <<source, owner, place, bound>>
    BY <1>6, BecomesFields DEF RegisterTask, At
  <2>2. status' = [status EXCEPT ![work[c].for] = "active"] /\ status[work[c].for] = "none"
    BY <1>6 DEF RegisterTask
  <2>3. \A t \in Tasks : status[t] # "none" => status'[t] = status[t] BY <2>2 DEF LockInv
  <2>4. \A t \in Tasks : place'[t] = "archive" => status'[t] = "archived" BY <2>1, <2>3 DEF LockInv
  <2>5. DOMAIN status' = Tasks BY <2>2 DEF LockInv
  <2>6. Holding(c)' BY <1>1, <2>1 DEF Holding
  <2>7. QED BY <1>0, <1>1, <2>1, <2>3, <2>4, <2>5, <2>6, OneLock DEF LockInv
<1>7. CASE CheckCompleted(c)
  <2>1. At(c, "archive", "check") /\ bound = NoCall /\ UNCHANGED <<source, status, place>> /\ work[c].for \in Tasks
    BY <1>0, <1>7 DEF CheckCompleted, Holding, At
  <2>2. CASE status[work[c].for] = "completed"
    <3>1. /\ Becomes(c, "mark") /\ bound' = c /\ owner' = [owner EXCEPT ![work[c].for] = "none"]
      BY <1>7, <2>2 DEF CheckCompleted
    <3>2. work'[c].pc = "mark" /\ work'[c].for = work[c].for
      BY <3>1, BecomesFields DEF Over, WorkFields
    <3>3. Holding(c)' BY <1>1, <2>1, <2>2, <3>1, <3>2 DEF Holding
    <3>4. bound \notin Calls BY <2>1, ScopesAssumption
    <3>5. QED BY <1>0, <1>1, <2>1, <3>1, <3>3, <3>4, OneLock DEF LockInv
  <2>3. CASE status[work[c].for] # "completed"
    <3>1. Becomes(c, "failed") /\ UNCHANGED <<bound, owner>> BY <1>7, <2>3 DEF CheckCompleted
    <3>2. work'[c].pc = "failed" BY <3>1, BecomesFields
    <3>3. QED BY <1>2, <2>1, <3>1, <3>2 DEF LockInv
  <2>4. QED BY <2>2, <2>3
<1>8. CASE MarkArchived(c)
  <2>1. /\ At(c, "archive", "mark") /\ UNCHANGED <<source, place, owner, bound>> /\ bound = c /\ work[c].for \in Tasks
        /\ status' = [status EXCEPT ![work[c].for] = "archived"] /\ Becomes(c, "move")
    BY <1>0, <1>8 DEF MarkArchived, Holding, At
  <2>2. work'[c].pc = "move" /\ work'[c].for = work[c].for BY <2>1, BecomesFields DEF Over, WorkFields
  <2>3. status'[work[c].for] = "archived" BY <2>1 DEF LockInv
  <2>4. Holding(c)' BY <1>1, <2>1, <2>2, <2>3 DEF Holding
  <2>5. \A t \in Tasks : place'[t] = "archive" => status'[t] = "archived" BY <2>1 DEF LockInv
  <2>6. DOMAIN status' = Tasks BY <2>1 DEF LockInv
  <2>7. QED BY <1>0, <1>1, <2>1, <2>4, <2>5, <2>6, OneLock DEF LockInv
<1>9. CASE MoveArchived(c)
  <2>1. /\ At(c, "archive", "move") /\ UNCHANGED <<source, status, owner>> /\ bound = c /\ bound' = NoCall
        /\ place' = [place EXCEPT ![work[c].for] = "archive"] /\ Becomes(c, "ended")
        /\ status[work[c].for] = "archived"
    BY <1>0, <1>9 DEF MoveArchived, Holding, At
  <2>2. work'[c].pc = "ended" BY <2>1, BecomesFields
  <2>3. Holding(c)' BY <1>1, <2>2 DEF Holding
  <2>4. \A t \in Tasks : place'[t] = "archive" => status'[t] = "archived" BY <2>1 DEF LockInv
  <2>5. QED BY <1>0, <1>1, <2>1, <2>3, <2>4, OneLock DEF LockInv
<1>10. CASE \/ LockMemory(c) \/ CheckLoad(c) \/ WriteReference(c) \/ RemoveReference(c)
            \/ \E where \in {"open", "archive"} : ListTasks(c, where)
  <2>1. UNCHANGED <<source, status, owner, place, bound>> /\ work[c].op \in {"load", "unload"}
    BY <1>10 DEF LockMemory, CheckLoad, WriteReference, RemoveReference, ListTasks, At
  <2>2. work'[c].op = work[c].op BY <2>1, RegStepShape, <1>0, <1>10, BecomesFields
         DEF LockMemory, CheckLoad, WriteReference, RemoveReference, ListTasks, OnceInv, WorkFields
  <2>3. QED BY <1>2, <2>1, <2>2 DEF LockInv
<1>11. QED BY <1>4, <1>5, <1>6, <1>7, <1>8, <1>9, <1>10 DEF RegStep

-----------------------------------------------------------------------------
(* What RunGoto makes of a run.                                              *)
LEMMA GotoFields ==
  ASSUME ContractInv, NEW c \in Calls, NEW pc, RunGoto(c, pc)
  PROVE  /\ run' = [run EXCEPT ![c] = run'[c]] /\ run'[c].pc = pc /\ run'[c].session = run[c].session
         /\ pc \in Settled => run'[c].task = "none" /\ run'[c].agent = "none" /\ run'[c].todo = {} /\ run'[c].seen = {}
         /\ pc \notin Settled => \A f \in RunFields \ {"pc"} : run'[c][f] = run[c][f]
<1>1. DOMAIN run = Calls /\ DOMAIN run[c] = RunFields BY DEF ContractInv, RunsWithin, RunWithin
<1>2. run'[c] = IF pc \in Settled THEN [NotRunning EXCEPT !.pc = pc, !.session = run[c].session]
                ELSE [run[c] EXCEPT !.pc = pc]
  BY <1>1 DEF RunGoto
<1>3. run' = [run EXCEPT ![c] = run'[c]] BY <1>1, <1>2 DEF RunGoto
<1>4. CASE pc \in Settled BY <1>2, <1>3, <1>4 DEF NotRunning
<1>5. CASE pc \notin Settled BY <1>1, <1>2, <1>3, <1>5 DEF RunFields
<1>6. QED BY <1>4, <1>5

(* The steps in which a run reads its context.                               *)
BuildsContext(c) ==
  \/ BuildMemory(c) \/ ReadGlobalRules(c) \/ ResolveCall(c) \/ BuildRules(c) \/ BuildBehavior(c)
  \/ BuildWorking(c) \/ \E i \in 2..4 : BuildArtifacts(c, ArtifactOrder[i])
Steady == {"pc", "agent", "task", "session", "known"}

(* A section that is done is no longer to do; nothing else of the run        *)
(* changes.                                                                  *)
LEMMA DoneFields ==
  ASSUME ContractInv, NEW c \in Calls, NEW section
  PROVE  /\ DOMAIN Done(c, section) = RunFields /\ Done(c, section).todo = run[c].todo \ {section}
         /\ \A f \in RunFields \ {"todo"} : Done(c, section)[f] = run[c][f]
BY DEF ContractInv, RunsWithin, RunWithin, RunFields, Done

(* A step in which a run reads its context changes that run alone, and of it *)
(* neither task nor session.                                                 *)
LEMMA ContextFields ==
  ASSUME ContractInv, NEW c \in Calls, BuildsContext(c)
  PROVE  /\ run' = [run EXCEPT ![c] = run'[c]] /\ run[c].pc = "context"
         /\ UNCHANGED <<confVars, regVars, insVars, memory, working, records>>
         /\ \/ run'[c] = Refused
            \/ (\A f \in Steady : run'[c][f] = run[c][f]) /\ run'[c].todo \subseteq run[c].todo
<1>0. DOMAIN run = Calls /\ DOMAIN run[c] = RunFields BY DEF ContractInv, RunsWithin, RunWithin
<1> DEFINE Kind(r) == \/ r = Refused
                      \/ (\A f \in Steady : r[f] = run[c][f]) /\ r.todo \subseteq run[c].todo
<1>1. ASSUME NEW r, Shown(c, r)
      PROVE  /\ run' = [run EXCEPT ![c] = run'[c]] /\ run'[c] = r
             /\ UNCHANGED <<confVars, regVars, insVars, memory, working, records>>
  BY <1>0, <1>1 DEF Shown, Outside, regVars
<1>2. run[c].pc = "context"
  BY DEF BuildsContext, BuildMemory, ReadGlobalRules, ResolveCall, BuildRules, BuildBehavior, BuildWorking, BuildArtifacts,
         NextArtifacts, Building
<1>3. ASSUME NEW section, NEW x
      PROVE  /\ Kind(Done(c, section)) /\ Kind([Done(c, section) EXCEPT !.shown = x])
             /\ Kind([Done(c, section) EXCEPT !.held = x]) /\ Kind([Done(c, section) EXCEPT !.report = x])
             /\ Kind([Done(c, section) EXCEPT !.seen = Done(c, section).seen \cup x])
  <2>1. /\ DOMAIN Done(c, section) = RunFields /\ Done(c, section).todo \subseteq run[c].todo
        /\ \A f \in RunFields \ {"todo"} : Done(c, section)[f] = run[c][f]
    BY DoneFields
  <2>2. QED BY <2>1 DEF RunFields, Steady
<1>4. CASE BuildMemory(c)
  <2>1. PICK r : Shown(c, r) /\ (r = Refused \/ \E text : r = [Done(c, "memory") EXCEPT !.shown = text])
    BY <1>4 DEF BuildMemory
  <2>2. \A text : Kind([Done(c, "memory") EXCEPT !.shown = text]) BY <1>3
  <2>3. Kind(Refused) OBVIOUS
  <2> HIDE DEF Kind
  <2>4. Kind(r) BY <2>1, <2>2, <2>3
  <2>5. QED BY <1>1, <1>2, <2>1, <2>4 DEF Kind
<1>5. CASE ReadGlobalRules(c)
  <2>1. \E e : Shown(c, IF Unreadable("rules") THEN Refused ELSE [run[c] EXCEPT !.global[e] = docs["rules"].at[e]])
    BY <1>5 DEF ReadGlobalRules
  <2>2. PICK x : Shown(c, x) /\ (x = Refused \/ \E g : x = [run[c] EXCEPT !.global = g])
    BY <2>1
  <2>3. Kind(x) BY <1>0, <2>2 DEF RunFields, Steady
  <2>4. QED BY <1>1, <1>2, <2>2, <2>3
<1>6. CASE ResolveCall(c)
  <2>1. \E e : Shown(c, IF Unreadable("project_rules") THEN Refused
                        ELSE [run[c] EXCEPT !.calls[e] = Resolved(run[c].global[e], docs["project_rules"].at[e])])
    BY <1>6 DEF ResolveCall
  <2>2. PICK x : Shown(c, x) /\ (x = Refused \/ \E g : x = [run[c] EXCEPT !.calls = g])
    BY <2>1
  <2>3. Kind(x) BY <1>0, <2>2 DEF RunFields, Steady
  <2>4. QED BY <1>1, <1>2, <2>2, <2>3
<1>7. CASE BuildRules(c) \/ BuildBehavior(c)
  <2>1. PICK x : Shown(c, x) /\ (x = Refused \/ \E s : x = Done(c, s))
    BY <1>7 DEF BuildRules, BuildBehavior
  <2>2. \A s : Kind(Done(c, s)) BY <1>3
  <2>3. Kind(Refused) OBVIOUS
  <2> HIDE DEF Kind
  <2>4. Kind(x) BY <2>1, <2>2, <2>3
  <2>5. QED BY <1>1, <1>2, <2>1, <2>4 DEF Kind
<1>8. CASE BuildWorking(c)
  <2>1. PICK text : Shown(c, [Done(c, "working") EXCEPT !.held = text]) BY <1>8 DEF BuildWorking
  <2>2. Kind([Done(c, "working") EXCEPT !.held = text]) BY <1>3
  <2>3. QED BY <1>1, <1>2, <2>1, <2>2
<1>9. ASSUME NEW kind, BuildArtifacts(c, kind)
      PROVE  \E x : Shown(c, x) /\ Kind(x)
  BY <1>3, <1>9 DEF BuildArtifacts
<1>10. CASE \E i \in 2..4 : BuildArtifacts(c, ArtifactOrder[i])
  <2>1. PICK x : Shown(c, x) /\ Kind(x) BY <1>9, <1>10
  <2>2. QED BY <1>1, <1>2, <2>1
<1>11. QED BY <1>4, <1>5, <1>6, <1>7, <1>8, <1>10 DEF BuildsContext

(* A call that runs an agent is at nothing of the registry.                  *)
LEMMA RunnersDoNoWork ==
  ASSUME OnceInv, ContractInv, NEW c \in Calls, RunStep(c), ~UserCompletes(c)
  PROVE  work[c].op = "none" /\ UNCHANGED work /\ run' = [run EXCEPT ![c] = run'[c]]
<1>1. Occupy(c) \/ run[c].pc \notin Settled BY RunStepShape
<1>2. QED BY <1>1, RunStepShape DEF OnceInv, Once, Occupy, Settled

(* What Started makes of a call, and what it leaves alone.                   *)
LEMMA StartedFields ==
  ASSUME ContractInv, NEW c \in Calls, NEW r, Started(c, r)
  PROVE  run'[c] = r /\ UNCHANGED <<regVars, insVars, memory, working, records, docs>> /\ Occupy(c)
BY DEF Started, ContractInv, RunsWithin

(* Of Begun all that matters is what it is asked for.                        *)
LEMMA BegunFields ==
  ASSUME NEW agent, NEW t, NEW session
  PROVE  LET r == Begun(agent, t, session) IN
         /\ r.pc = "context" /\ r.agent = agent /\ r.task = t /\ r.session = session
         /\ r.todo = Sections(agent, t # "none") /\ r.known = (IF t = "none" THEN {} ELSE records[t])
         /\ r.shown = "none" /\ r.held = "none" /\ r.seen = {} /\ r.report = NoReport
BY DEF Begun, NotRunning

(* The steps of the runs: who commits takes the lock and holds it to the     *)
(* end.                                                                      *)
LEMMA RunLock ==
  ASSUME LockInv, OnceInv, ContractInv, NEW c \in Calls, RunStep(c), ~UserCompletes(c)
  PROVE  LockInv'
<1>0. /\ work[c].op = "none" /\ UNCHANGED work /\ run' = [run EXCEPT ![c] = run'[c]]
      /\ Placed(c) /\ Holding(c) /\ NoCall \notin Calls
  BY RunnersDoNoWork, ScopesAssumption DEF LockInv
(* Nothing of the lock changes, and the run is not yet committing.           *)
<1>1. ASSUME UNCHANGED <<source, status, place, owner, bound>>, run'[c].pc \notin Committing, Placed(c)'
      PROVE  LockInv'
  <2>1. Holding(c)' BY <1>0, <1>1 DEF Holding
  <2>2. QED BY <1>0, <1>1, <2>1, OneLock DEF LockInv
(* The run is over, and lets go of the lock if it held it.                   *)
<1>2. ASSUME UNCHANGED <<source, status, place, owner>>, Release(c), NEW pc \in Settled, RunGoto(c, pc)
      PROVE  LockInv'
  <2>1. run'[c].pc = pc /\ run'[c].task = "none" /\ run'[c].agent = "none" BY <1>2, GotoFields
  <2>2. Placed(c)' BY <2>1, <1>2 DEF Placed, ActiveRequired, Settled
  <2>3. Holding(c)' BY <1>0, <1>2, <2>1 DEF Holding, Committing, Settled
  <2>4. bound \in Calls \ {c} => bound' = bound BY <1>2 DEF Release
  <2>5. QED BY <1>0, <1>2, <2>2, <2>3, <2>4, OneLock DEF LockInv
<1>3. CASE Reopen(c) \/ Invoke(c) \/ InvokeOnProject(c)
  <2>1. CASE Reopen(c)
    <3>1. PICK t \in Tasks : Started(c, [NotRunning EXCEPT !.pc = "release", !.task = t]) BY <2>1 DEF Reopen
    <3>2. run'[c] = [NotRunning EXCEPT !.pc = "release", !.task = t] /\ UNCHANGED regVars BY <3>1, StartedFields
    <3>3. run'[c].pc = "release" /\ run'[c].task = t BY <3>2 DEF NotRunning
    <3>4. QED BY <1>1, <3>2, <3>3 DEF Placed, Committing, regVars
  <2>2. CASE Invoke(c)
    <3>1. PICK agent \in RunAgents, t \in Tasks : Started(c, Begun(agent, t, owner[t])) BY <2>2 DEF Invoke
    <3>2. run'[c].pc = "context" /\ run'[c].task = t /\ UNCHANGED regVars BY <3>1, StartedFields, BegunFields
    <3>3. QED BY <1>1, <3>2 DEF Placed, Committing, regVars
  <2>3. CASE InvokeOnProject(c)
    <3>1. PICK agent : ~ActiveRequired(agent) /\ Started(c, Begun(agent, "none", c)) BY <2>3 DEF InvokeOnProject
    <3>2. /\ run'[c].pc = "context" /\ run'[c].task = "none" /\ run'[c].agent = agent /\ UNCHANGED regVars
      BY <3>1, StartedFields, BegunFields
    <3>3. QED BY <1>1, <3>1, <3>2 DEF Placed, Committing, regVars, ActiveRequired
  <2>4. QED BY <1>3, <2>1, <2>2, <2>3
<1>4. CASE ForceRelease(c)
  <2>1. /\ run[c].pc = "release" /\ bound = NoCall /\ owner' = [owner EXCEPT ![run[c].task] = "none"]
        /\ RunGoto(c, "open") /\ UNCHANGED <<source, status, place, bound>>
    BY <1>4 DEF ForceRelease, Outside
  <2>2. run'[c].pc = "open" /\ run'[c].task = run[c].task BY <2>1, GotoFields DEF Settled, RunFields
  <2>3. Placed(c)' BY <1>0, <2>1, <2>2 DEF Placed
  <2>4. Holding(c)' BY <1>0, <2>2 DEF Holding, Committing
  <2>5. QED BY <1>0, <2>1, <2>3, <2>4, OneLock DEF LockInv
<1>5. CASE OpenTaskSession(c)
  <2>1. PICK pc \in {"bind", "failed"} : RunGoto(c, pc) /\ run[c].pc = "open" /\ UNCHANGED <<source, status, place, owner, bound>>
    BY <1>5 DEF OpenTaskSession, Outside
  <2>2. /\ run'[c].pc = pc
        /\ pc = "bind" => run'[c].task = run[c].task
        /\ pc = "failed" => run'[c].task = "none" /\ run'[c].agent = "none"
    BY <2>1, GotoFields DEF Settled, RunFields
  <2>3. Placed(c)' BY <1>0, <2>1, <2>2 DEF Placed, ActiveRequired
  <2>4. QED BY <1>1, <2>1, <2>2, <2>3 DEF Committing
<1>6. CASE BindTask(c)
  <2>1. /\ run[c].pc = "bind" /\ bound = NoCall /\ UNCHANGED <<source, status, place, bound>>
        /\ DOMAIN owner' = Tasks
    BY <1>6 DEF BindTask, Outside, LockInv
  <2>2. PICK pc \in {"bound", "failed"} : RunGoto(c, pc) BY <1>6 DEF BindTask
  <2>3. /\ run'[c].pc = pc
        /\ pc = "bound" => run'[c].task = run[c].task
        /\ pc = "failed" => run'[c].task = "none" /\ run'[c].agent = "none"
    BY <2>2, GotoFields DEF Settled, RunFields
  <2>4. Placed(c)' BY <1>0, <2>1, <2>2, <2>3 DEF Placed, ActiveRequired
  <2>5. Holding(c)' BY <1>0, <2>2, <2>3 DEF Holding, Committing
  <2>6. QED BY <1>0, <2>1, <2>4, <2>5, OneLock DEF LockInv
<1>7. CASE InvokeAfterOpening(c)
  <2>1. PICK agent : run' = [run EXCEPT ![c] = Begun(agent, run[c].task, c)] BY <1>7 DEF InvokeAfterOpening
  <2>2. run'[c] = Begun(agent, run[c].task, c) BY <2>1 DEF ContractInv, RunsWithin
  <2>3. run'[c].pc = "context" /\ run'[c].task = run[c].task BY <2>2, BegunFields
  <2>4. UNCHANGED <<source, status, place, owner, bound>> /\ run[c].pc = "bound"
    BY <1>7 DEF InvokeAfterOpening, Outside
  <2>5. Placed(c)' BY <1>0, <2>3, <2>4 DEF Placed
  <2>6. QED BY <1>1, <2>3, <2>4, <2>5 DEF Committing
<1>8. CASE BuildsContext(c)
  <2>1. /\ UNCHANGED <<source, status, place, owner, bound>> /\ run[c].pc = "context"
        /\ \/ run'[c] = Refused
           \/ \A f \in Steady : run'[c][f] = run[c][f]
    BY <1>8, ContextFields DEF regVars
  <2>2. Placed(c)' /\ run'[c].pc \notin Committing
    BY <1>0, <2>1 DEF Placed, Steady, Refused, NotRunning, Committing, ActiveRequired
  <2>3. QED BY <1>1, <2>1, <2>2
<1>9. CASE CaptureFence(c)
  <2>1. /\ run[c].pc = "context" /\ UNCHANGED <<source, status, place, owner, bound>>
        /\ \E pc \in {"apply", "commit", "failed"} : RunGoto(c, pc) /\ (pc = "apply" <=> run[c].task = "none")
    BY <1>9 DEF CaptureFence, Outside
  <2>2. PICK pc \in {"apply", "commit", "failed"} : RunGoto(c, pc) /\ (pc = "apply" <=> run[c].task = "none")
    BY <2>1
  <2>3. /\ run'[c].pc = pc
        /\ pc # "failed" => run'[c].task = run[c].task /\ run'[c].agent = run[c].agent
        /\ pc = "failed" => run'[c].task = "none" /\ run'[c].agent = "none"
    BY <2>2, GotoFields DEF Settled, RunFields
  <2>4. Placed(c)' BY <1>0, <2>1, <2>2, <2>3 DEF Placed, ActiveRequired
  <2>5. Holding(c)' BY <1>0, <2>2, <2>3 DEF Holding, Committing
  <2>6. QED BY <1>0, <2>1, <2>4, <2>5, OneLock DEF LockInv
<1>10. CASE Commit(c)
  <2>1. run[c].pc = "commit" /\ bound = NoCall /\ UNCHANGED <<source, status, place, owner>> /\ run[c].task \in Tasks
    BY <1>0, <1>10 DEF Commit, Outside, Placed
  <2>2. CASE MayCommit(c)
    <3>1. bound' = c /\ RunGoto(c, "apply") BY <1>10, <2>2 DEF Commit
    <3>2. /\ run'[c].pc = "apply" /\ run'[c].task = run[c].task /\ run'[c].agent = run[c].agent
          /\ run'[c].session = run[c].session
      BY <3>1, GotoFields DEF Settled, RunFields
    <3>3. Placed(c)' BY <2>1, <3>2 DEF Placed
    <3>4. Holding(c)' BY <1>0, <2>1, <2>2, <3>1, <3>2 DEF Holding, MayCommit, Eligible
    <3>5. QED BY <1>0, <2>1, <3>3, <3>4, OneLock DEF LockInv
  <2>3. CASE ~MayCommit(c)
    <3>1. UNCHANGED bound /\ RunGoto(c, "failed") BY <1>10, <2>3 DEF Commit
    <3>2. QED BY <1>0, <1>2, <2>1, <3>1 DEF Release, Settled
  <2>4. QED BY <2>2, <2>3
<1>11. CASE CheckFields(c)
  <2>1. run[c].pc = "apply" /\ UNCHANGED <<source, status, place, owner>> BY <1>11 DEF CheckFields, Outside
  <2>2. CASE Release(c) /\ RunGoto(c, "failed") BY <1>2, <2>1, <2>2 DEF Settled
  <2>3. CASE UNCHANGED bound /\ RunGoto(c, "save")
    <3>1. /\ run'[c].pc = "save" /\ run'[c].task = run[c].task /\ run'[c].agent = run[c].agent
          /\ run'[c].session = run[c].session
      BY <2>3, GotoFields DEF Settled, RunFields
    <3>2. Placed(c)' BY <1>0, <2>1, <3>1 DEF Placed
    <3>3. Holding(c)' BY <1>0, <2>1, <2>3, <3>1 DEF Holding, Committing
    <3>4. QED BY <1>0, <2>1, <2>3, <3>2, <3>3, OneLock DEF LockInv
  <2>4. QED BY <1>11, <2>2, <2>3 DEF CheckFields
<1>12. CASE ApplyExaminerIntent(c) \/ SaveRecord(c) \/ SaveQuestionerContext(c) \/ SaveDraft(c)
  <2>1. Release(c) /\ RunGoto(c, "ended") /\ UNCHANGED <<source, status, place, owner>>
    BY <1>12 DEF ApplyExaminerIntent, SaveRecord, SaveQuestionerContext, SaveDraft, Outside
  <2>2. QED BY <1>2, <2>1 DEF Settled
<1>13. CASE SaveReviewerReport(c)
  <2>1. /\ run[c].pc = "save" /\ run[c].agent = "reviewer" /\ UNCHANGED <<source, status, place, owner>>
        /\ run[c].task \in Tasks
    BY <1>0, <1>13 DEF SaveReviewerReport, Outside, Placed, ActiveRequired
  <2>2. CASE Release(c) /\ RunGoto(c, "ended") BY <1>2, <2>1, <2>2 DEF Settled
  <2>3. CASE UNCHANGED bound /\ RunGoto(c, "complete")
    <3>1. /\ run'[c].pc = "complete" /\ run'[c].task = run[c].task /\ run'[c].agent = run[c].agent
          /\ run'[c].session = run[c].session
      BY <2>3, GotoFields DEF Settled, RunFields
    <3>2. Placed(c)' BY <1>0, <2>1, <3>1 DEF Placed
    <3>3. Holding(c)' BY <1>0, <2>1, <2>3, <3>1 DEF Holding, Committing
    <3>4. QED BY <1>0, <2>1, <2>3, <3>2, <3>3, OneLock DEF LockInv
  <2>4. QED BY <1>13, <2>2, <2>3 DEF SaveReviewerReport
<1>14. CASE MarkCompleted(c)
  <2>1. /\ run[c].pc = "complete" /\ Release(c) /\ RunGoto(c, "ended") /\ UNCHANGED <<source, place, owner>>
        /\ status' = [status EXCEPT ![run[c].task] = "completed"]
    BY <1>14 DEF MarkCompleted
  <2>2. run[c].task \in Tasks /\ run[c].task # "none" /\ bound = c /\ status[run[c].task] \in {"active", "completed"}
    BY <1>0, <2>1, ScopesAssumption DEF Placed, Holding, Committing, Scopes
  <2>3. run'[c].pc = "ended" /\ run'[c].task = "none" /\ run'[c].agent = "none" BY <2>1, GotoFields DEF Settled
  <2>4. Placed(c)' BY <2>3 DEF Placed, ActiveRequired
  <2>5. Holding(c)' BY <1>0, <2>3 DEF Holding, Committing
  <2>6. DOMAIN status' = Tasks /\ \A t \in Tasks : place'[t] = "archive" => status'[t] = "archived"
    BY <2>1, <2>2 DEF LockInv
  <2>7. QED BY <1>0, <2>1, <2>2, <2>4, <2>5, <2>6, OneLock DEF LockInv
<1>15. QED BY <1>3, <1>4, <1>5, <1>6, <1>7, <1>8, <1>9, <1>10, <1>11, <1>12, <1>13, <1>14 DEF RunStep, BuildsContext

(* The user completes a task while no one holds the lock.                    *)
LEMMA UserLock ==
  ASSUME LockInv, OnceInv, ContractInv, NEW c \in Calls, UserCompletes(c)
  PROVE  LockInv'
<1>1. /\ Occupy(c) /\ bound = NoCall /\ UNCHANGED <<source, place, owner, bound, run>> BY DEF UserCompletes, runVars
<1>2. PICK t \in Tasks : /\ status[t] = "active" /\ status' = [status EXCEPT ![t] = "completed"]
                         /\ work' = [work EXCEPT ![c] = [Resting EXCEPT !.op = "archive", !.pc = "check", !.for = t]]
  BY DEF UserCompletes
<1>3. /\ work' = [work EXCEPT ![c] = work'[c]] /\ work'[c].op = "archive" /\ work'[c].pc = "check" /\ work'[c].for = t
  BY <1>2 DEF OnceInv, Resting
<1>4. run[c].pc = "idle" /\ Placed(c) /\ NoCall \notin Calls BY <1>1, RegistryRunsNone, ScopesAssumption DEF LockInv
<1>5. Placed(c)' BY <1>1, <1>4 DEF Placed
<1>6. Holding(c)' BY <1>1, <1>3, <1>4 DEF Holding, Committing
<1>7. DOMAIN status' = Tasks /\ \A u \in Tasks : place'[u] = "archive" => status'[u] = "archived"
  BY <1>1, <1>2 DEF LockInv
<1>8. QED BY <1>1, <1>2, <1>3, <1>4, <1>5, <1>6, <1>7, OneLock DEF LockInv

(* A process that ends lets go of the lock, if it was the one that held it.  *)
LEMMA CrashLock ==
  ASSUME LockInv, OnceInv, ContractInv, NEW c \in Calls, Crash(c)
  PROVE  LockInv'
<1>1. /\ UNCHANGED <<source, status, place, owner>> /\ Placed(c) /\ Holding(c) /\ DOMAIN run = Calls /\ DOMAIN work = Calls
  BY CrashShape DEF LockInv, ContractInv, RunsWithin, OnceInv
<1>2. CASE work[c].op # "none" /\ RegDies(c) /\ UNCHANGED <<insVars, runVars>>
  <2>1. /\ UNCHANGED run /\ bound' = IF bound = c THEN NoCall ELSE bound
        /\ work' = [work EXCEPT ![c] = [Resting EXCEPT !.op = work[c].op, !.pc = "crashed"]]
    BY <1>2 DEF RegDies, runVars
  <2>2. work' = [work EXCEPT ![c] = work'[c]] /\ work'[c].pc = "crashed" BY <1>1, <2>1 DEF Resting
  <2>3. run[c].pc = "idle" BY <1>2, RegistryRunsNone
  <2>4. Placed(c)' /\ Holding(c)' BY <1>1, <2>1, <2>2, <2>3 DEF Placed, Holding, Committing
  <2>5. QED BY <1>1, <2>1, <2>2, <2>4, OneLock DEF LockInv
<1>3. CASE work[c].op = "none" /\ Running(c) /\ RunDies(c) /\ UNCHANGED <<work, mutex, insVars, memory, working, records>>
  <2>1. RunGoto(c, "crashed") /\ (bound' = IF bound = c THEN NoCall ELSE bound) BY <1>3 DEF RunDies
  <2>2. /\ run' = [run EXCEPT ![c] = run'[c]] /\ run'[c].pc = "crashed" /\ run'[c].task = "none" /\ run'[c].agent = "none"
    BY <2>1, GotoFields DEF Settled
  <2>3. Placed(c)' /\ Holding(c)' BY <1>3, <2>2 DEF Placed, Holding, Committing, ActiveRequired
  <2>4. QED BY <1>1, <1>3, <2>1, <2>2, <2>3, OneLock DEF LockInv
<1>4. CASE UNCHANGED <<work, bound, run>> BY <1>1, <1>4, LockKept
<1>5. QED BY <1>2, <1>3, <1>4, CrashShape DEF runVars

(* Every step keeps who holds the lock entitled to it.                       *)
LEMMA LockStep == LockInv /\ OnceInv /\ ContractInv /\ [Next]_vars => LockInv'
<1> SUFFICES ASSUME LockInv, OnceInv, ContractInv, [Next]_vars PROVE LockInv' OBVIOUS
<1>1. ASSUME UNCHANGED <<regVars, runVars>> PROVE LockInv' BY <1>1, LockKept DEF regVars, runVars
<1>2. ASSUME NEW c \in Calls, RegStep(c), UNCHANGED <<insVars, runVars>> PROVE LockInv' BY <1>2, RegLock
<1>3. ASSUME NEW c \in Calls, InsStep(c), UNCHANGED runVars PROVE LockInv' BY <1>1, <1>3, InstallersStayOut
<1>4. ASSUME NEW c \in Calls, RunStep(c) PROVE LockInv' BY <1>4, RunLock, UserLock
<1>5. ASSUME NEW c \in Calls, Crash(c) PROVE LockInv' BY <1>5, CrashLock
<1>6. QED BY <1>1, <1>2, <1>3, <1>4, <1>5 DEF Next, vars

-----------------------------------------------------------------------------
(* The graph of the memory references.  What is not archived only shrinks,   *)
(* and a load that may still add a reference has the lock, has seen every    *)
(* reference of a live task, and would close no cycle among them.            *)
Live == {s \in Scopes : s \in Projects \/ status[s] # "archived"}
LiveGraph == {r \in refs : r[1] \in Live /\ r[2] \in Live}
Loading(c) ==
  /\ work[c].op = "load" /\ work[c].pc \notin Over =>
       work[c].for \in Scopes /\ work[c].from \in Scopes /\ Found(work[c].for)
  /\ At(c, "load", "list") \/ At(c, "load", "write") \/ At(c, "unload", "remove") => mutex = c
  /\ At(c, "load", "lock") => work[c].listed = {}
  /\ At(c, "unload", "lock") \/ At(c, "unload", "remove") => work[c].for \in Scopes
  /\ At(c, "load", "list") /\ "open" \in work[c].listed =>
       \A r \in refs : r[1] \in Tasks /\ status[r[1]] # "archived" => r[1] \in work[c].listed
  /\ At(c, "load", "write") => ~Leads(work[c].from, work[c].for, LiveGraph)
RefsFound == refs \subseteq Scopes \X Scopes /\ \A r \in refs : Found(r[1])
NoCycle == \A r \in LiveGraph : ~Leads(r[2], r[1], LiveGraph)
GraphInv ==
  /\ RefsFound /\ NoCycle
  /\ \A t \in Tasks : place[t] \in {"open", "archive"}
  /\ \A c \in Calls : Loading(c)

(* With fewer references less leads anywhere.                                *)
LEMMA LeadsLess ==
  ASSUME NEW G, NEW H, G \subseteq H, NEW a, NEW b, ~Leads(a, b, H)
  PROVE  ~Leads(a, b, G)
BY DEF Leads

(* A reference closes a cycle only if its source already leads to its target.*)
LEMMA ReferenceClosesNoCycle ==
  ASSUME NEW G, \A r \in G : r \in Scopes \X Scopes /\ ~Leads(r[2], r[1], G),
         NEW t \in Scopes, NEW s \in Scopes, ~Leads(s, t, G)
  PROVE  LET H == G \cup {<<t, s>>} IN \A r \in H : ~Leads(r[2], r[1], H)
<1> DEFINE H == G \cup {<<t, s>>}
<1>1. PICK S \in SUBSET Scopes : s \in S /\ t \notin S /\ \A r \in G : r[1] \in S => r[2] \in S
  BY DEF Leads
<1>2. ~Leads(s, t, H)
  <2>1. \A r \in H : r[1] \in S => r[2] \in S BY <1>1
  <2>2. QED BY <1>1, <2>1 DEF Leads
<1>3. ASSUME NEW r \in G PROVE ~Leads(r[2], r[1], H)
  <2>1. PICK T \in SUBSET Scopes : r[2] \in T /\ r[1] \notin T /\ \A q \in G : q[1] \in T => q[2] \in T
    BY <1>3 DEF Leads
  <2> DEFINE W == IF r[1] \in S THEN S \cap T ELSE IF t \in T THEN S \cup T ELSE T
  <2>2. W \in SUBSET Scopes OBVIOUS
  <2>3. r[2] \in W /\ r[1] \notin W BY <1>1, <2>1
  <2>4. \A q \in H : q[1] \in W => q[2] \in W
    <3>1. ASSUME NEW q \in G, q[1] \in W PROVE q[2] \in W BY <1>1, <2>1, <3>1
    <3>2. t \in W => s \in W BY <1>1, <2>1
    <3>3. QED BY <3>1, <3>2
  <2> HIDE DEF W, H
  <2>5. QED BY <2>2, <2>3, <2>4 DEF Leads
<1>4. QED BY <1>2, <1>3

(* The references of an installed machine close no cycle.                    *)
LEMMA GraphInit == Init => GraphInv
<1> SUFFICES ASSUME Init PROVE GraphInv OBVIOUS
<1>1. PICK installed \in BOOLEAN : RegInit(installed) BY DEF Init
<1>2. RefsFound BY <1>1, FirstAssumption, ScopesAssumption DEF RefsFound, RegInit, Found, Scopes
<1>3. NoCycle
  <2>1. LiveGraph \subseteq References BY <1>1 DEF LiveGraph, RegInit
  <2>2. QED BY <2>1, ReferencesAssumption, LeadsLess DEF NoCycle
<1>4. \A t \in Tasks : place[t] \in {"open", "archive"} BY <1>1 DEF RegInit
<1>5. ASSUME NEW c \in Calls PROVE Loading(c) BY <1>1 DEF RegInit, Resting, Loading, At
<1>6. QED BY <1>2, <1>3, <1>4, <1>5 DEF GraphInv

(* What is found stays, and what is archived stays archived.                 *)
Grows ==
  /\ \A s \in Scopes : Found(s) => Found(s)'
  /\ \A t \in Tasks : status[t] = "archived" => status'[t] = "archived"
  /\ \A t \in Tasks : place'[t] \in {"open", "archive"}

(* The registry loses no record and brings no task back from the archive.    *)
LEMMA RegGrows ==
  ASSUME LockInv, GraphInv, NEW c \in Calls, RegStep(c)
  PROVE  Grows
<1>0. /\ DOMAIN source = Projects /\ DOMAIN status = Tasks /\ DOMAIN place = Tasks /\ Holding(c)
      /\ \A t \in Tasks : place[t] \in {"open", "archive"}
  BY DEF LockInv, GraphInv
<1>1. CASE UNCHANGED <<source, status, place>> BY <1>0, <1>1 DEF Grows, Found
<1>2. CASE RegisterProject(c)
  BY <1>0, <1>2 DEF RegisterProject, Grows, Found, Scopes
<1>3. CASE RegisterTask(c)
  BY <1>0, <1>3 DEF RegisterTask, Grows, Found, Scopes
<1>4. CASE MarkArchived(c)
  BY <1>0, <1>4 DEF MarkArchived, Grows, Found, Scopes
<1>5. CASE MoveArchived(c)
  BY <1>0, <1>5 DEF MoveArchived, Grows, Found, Scopes
<1>6. QED
  BY <1>1, <1>2, <1>3, <1>4, <1>5
     DEF RegStep, CreateProject, SeedForProject, CreateTask, Archive, CheckCompleted, Load, Unload, LockMemory, CheckLoad,
         WriteReference, RemoveReference, ListTasks, Take

(* A run changes of the registry the status of a task it may complete.       *)
LEMMA RunStatus ==
  ASSUME LockInv, ContractInv, NEW c \in Calls, RunStep(c)
  PROVE  /\ UNCHANGED <<source, place, refs, mutex>>
         /\ \/ UNCHANGED status
            \/ \E t \in Tasks : status[t] \in {"active", "completed"} /\ status' = [status EXCEPT ![t] = "completed"]
<1>1. CASE Reopen(c) \/ Invoke(c) \/ InvokeOnProject(c)
  BY <1>1 DEF Reopen, Invoke, InvokeOnProject, Started, regVars
<1>2. CASE \/ ForceRelease(c) \/ OpenTaskSession(c) \/ BindTask(c) \/ InvokeAfterOpening(c) \/ CaptureFence(c) \/ Commit(c)
           \/ CheckFields(c) \/ ApplyExaminerIntent(c) \/ SaveRecord(c) \/ SaveQuestionerContext(c) \/ SaveDraft(c)
           \/ SaveReviewerReport(c)
  BY <1>2 DEF ForceRelease, OpenTaskSession, BindTask, InvokeAfterOpening, CaptureFence, Commit, CheckFields,
     ApplyExaminerIntent, SaveRecord, SaveQuestionerContext, SaveDraft, SaveReviewerReport, Outside
<1>3. CASE UserCompletes(c) BY <1>3 DEF UserCompletes
<1>4. CASE MarkCompleted(c)
  <2>1. run[c].task \in Tasks /\ status[run[c].task] \in {"active", "completed"}
    BY <1>4, ScopesAssumption DEF MarkCompleted, LockInv, Placed, Holding, Committing, Scopes
  <2>2. QED BY <1>4, <2>1 DEF MarkCompleted
<1>5. CASE BuildsContext(c) BY <1>5, ContextFields DEF regVars
<1>6. QED BY <1>1, <1>2, <1>3, <1>4, <1>5 DEF RunStep, BuildsContext

(* Nor does any other step.                                                  *)
LEMMA NextGrows == LockInv /\ GraphInv /\ OnceInv /\ ContractInv /\ [Next]_vars => Grows
<1> SUFFICES ASSUME LockInv, GraphInv, OnceInv, ContractInv, [Next]_vars PROVE Grows OBVIOUS
<1>1. ASSUME UNCHANGED <<source, status, place>> PROVE Grows BY <1>1 DEF Grows, Found, GraphInv
<1>2. ASSUME NEW c \in Calls, InsStep(c) PROVE Grows BY <1>1, <1>2, InstallersStayOut DEF regVars
<1>3. ASSUME NEW c \in Calls, RunStep(c) PROVE Grows
  BY <1>3, RunStatus DEF Grows, Found, GraphInv, LockInv, Scopes
<1>4. ASSUME NEW c \in Calls, Crash(c) PROVE Grows BY <1>1, <1>4 DEF Crash
<1>5. QED BY <1>1, <1>2, <1>3, <1>4, RegGrows DEF Next, vars, regVars

(* A scope that is archived is live no more.                                 *)
LEMMA LiveShrinks == ASSUME Grows PROVE Live' \subseteq Live
BY DEF Grows, Live, Scopes

(* Where no reference is added, no cycle is closed.                          *)
LEMMA GraphShrinks == ASSUME GraphInv, Grows, refs' \subseteq refs PROVE RefsFound' /\ NoCycle' /\ LiveGraph' \subseteq LiveGraph
<1>1. LiveGraph' \subseteq LiveGraph BY LiveShrinks DEF LiveGraph
<1>2. RefsFound' BY DEF GraphInv, RefsFound, Grows, Scopes
<1>3. NoCycle' BY <1>1, LeadsLess DEF GraphInv, NoCycle, LiveGraph
<1>4. QED BY <1>1, <1>2, <1>3

(* Who is not in the lock of the references changes none of them.            *)
LEMMA OneGraph ==
  ASSUME GraphInv, OnceInv, Grows, NEW c \in Calls,
         work' = work \/ work' = [work EXCEPT ![c] = work'[c]],
         refs' = refs \/ mutex = c,
         mutex \in Calls \ {c} => mutex' = mutex,
         RefsFound', NoCycle', Loading(c)'
  PROVE  GraphInv'
<1>1. ASSUME NEW x \in Calls \ {c} PROVE Loading(x)'
  <2>1. Loading(x) /\ work'[x] = work[x] BY DEF GraphInv, OnceInv
  <2>2. CASE mutex = x
    <3>1. refs' = refs /\ mutex' = x BY <2>2
    <3>2. LiveGraph' \subseteq LiveGraph BY <3>1, GraphShrinks
    <3>3. At(x, "load", "write")' => ~Leads(work'[x].from, work'[x].for, LiveGraph)
      BY <2>1 DEF Loading, At
    <3>4. At(x, "load", "write")' => ~Leads(work'[x].from, work'[x].for, LiveGraph')
      BY <3>2, <3>3, LeadsLess DEF Leads
    <3>5. QED BY <2>1, <3>1, <3>4 DEF Loading, At, Grows
  <2>3. CASE mutex # x
    BY <2>1, <2>3 DEF Loading, At, Grows
  <2>4. QED BY <2>2, <2>3
<1>2. QED BY <1>1 DEF GraphInv, Grows

(* The steps of the registry: only the load in the lock adds a reference,    *)
(* and it has looked for the cycle among all live ones.                      *)
LEMMA RegGraph ==
  ASSUME GraphInv, LockInv, OnceInv, Grows, NEW c \in Calls, RegStep(c)
  PROVE  GraphInv'
<1>0. work' = [work EXCEPT ![c] = work'[c]] /\ Loading(c) /\ DOMAIN work = Calls /\ DOMAIN work[c] = WorkFields
  BY RegStepShape DEF GraphInv, OnceInv
<1>1. ASSUME UNCHANGED <<refs, mutex>>, Loading(c)' PROVE GraphInv'
  BY <1>0, <1>1, GraphShrinks, OneGraph
<1>2. ASSUME NEW op, NEW pc, NEW for, NEW from, Take(c, op, pc, for, from), op \notin {"load", "unload"}
      PROVE  GraphInv'
  <2>1. work'[c] = [Resting EXCEPT !.op = op, !.pc = pc, !.for = for, !.from = from] BY <1>0, <1>2 DEF Take
  <2>2. work'[c].op = op BY <2>1 DEF Resting
  <2>3. QED BY <1>1, <1>2, <2>2 DEF Take, Loading, At
<1>3. CASE CreateProject(c) \/ CreateTask(c) \/ Archive(c)
  BY <1>2, <1>3 DEF CreateProject, CreateTask, Archive
<1>4. CASE \/ SeedForProject(c) \/ RegisterProject(c) \/ RegisterTask(c) \/ CheckCompleted(c) \/ MarkArchived(c)
           \/ MoveArchived(c)
  <2>1. work[c].op \in {"create", "task", "archive"} /\ UNCHANGED <<refs, mutex>> /\ \E pc : Becomes(c, pc)
    BY <1>4 DEF SeedForProject, RegisterProject, RegisterTask, CheckCompleted, MarkArchived, MoveArchived, At
  <2>2. work'[c].op = work[c].op BY <2>1, BecomesFields
  <2>3. QED BY <1>1, <2>1, <2>2 DEF Loading, At
<1>5. CASE Load(c) \/ Unload(c)
  <2>1. PICK op \in {"load", "unload"}, t \in Scopes, s \in Scopes : Target(t) /\ Take(c, op, "lock", t, s)
    BY <1>5 DEF Load, Unload
  <2>2. work'[c] = [Resting EXCEPT !.op = op, !.pc = "lock", !.for = t, !.from = s] BY <1>0, <2>1 DEF Take
  <2>3. work'[c].op = op /\ work'[c].pc = "lock" /\ work'[c].for = t /\ work'[c].from = s /\ work'[c].listed = {}
    BY <2>2 DEF Resting
  <2>4. Found(t)' BY <2>1 DEF Target, Grows
  <2>5. Loading(c)' BY <2>3, <2>4 DEF Loading, At
  <2>6. QED BY <1>1, <2>1, <2>5 DEF Take
<1>6. CASE LockMemory(c)
  <2>1. /\ work[c].op \in {"load", "unload"} /\ work[c].pc = "lock" /\ mutex = NoCall /\ mutex' = c /\ UNCHANGED refs
        /\ Becomes(c, IF work[c].op = "load" THEN "list" ELSE "remove")
    BY <1>6 DEF LockMemory
  <2>2. /\ work'[c].pc = (IF work[c].op = "load" THEN "list" ELSE "remove") /\ work'[c].op = work[c].op
        /\ work'[c].for = work[c].for /\ work'[c].from = work[c].from /\ work'[c].listed = work[c].listed
    BY <2>1, BecomesFields DEF Over, WorkFields
  <2>3. Loading(c)' BY <1>0, <2>1, <2>2 DEF Loading, At, Over, Grows
  <2>4. mutex \notin Calls BY <2>1, ScopesAssumption
  <2>5. QED BY <1>0, <2>1, <2>3, <2>4, GraphShrinks, OneGraph
<1>7. ASSUME NEW where \in {"open", "archive"}, ListTasks(c, where) PROVE GraphInv'
  <2>1. /\ At(c, "load", "list") /\ UNCHANGED <<source, status, place, refs, mutex>>
        /\ work' = [work EXCEPT ![c].listed = @ \cup {where} \cup {t \in Tasks : Found(t) /\ place[t] = where}]
    BY <1>7 DEF ListTasks
  <2>2. /\ \A f \in WorkFields \ {"listed"} : work'[c][f] = work[c][f]
        /\ work'[c].listed = work[c].listed \cup {where} \cup {t \in Tasks : Found(t) /\ place[t] = where}
    BY <1>0, <2>1 DEF WorkFields
  <2>3. ASSUME "open" \in work'[c].listed, NEW r \in refs, r[1] \in Tasks, status[r[1]] # "archived"
        PROVE  r[1] \in work'[c].listed
    <3>1. CASE "open" \in work[c].listed BY <1>0, <2>1, <2>2, <2>3, <3>1 DEF Loading
    <3>2. CASE "open" \notin work[c].listed
      <4>1. where = "open" BY <2>2, <2>3, <3>2, ScopesAssumption DEF Scopes
      <4>2. place[r[1]] = "open" /\ Found(r[1]) BY <2>3 DEF LockInv, GraphInv, RefsFound
      <4>3. QED BY <2>2, <2>3, <4>1, <4>2
    <3>3. QED BY <3>1, <3>2
  <2>4. Loading(c)' BY <1>0, <2>1, <2>2, <2>3 DEF Loading, At, WorkFields, Over, Grows
  <2>5. QED BY <1>1, <2>1, <2>4
<1>8. CASE CheckLoad(c)
  <2>1. At(c, "load", "list") /\ {"open", "archive"} \subseteq work[c].listed /\ UNCHANGED <<source, status, refs>> /\ mutex = c
    BY <1>0, <1>8 DEF CheckLoad, Loading
  <2>2. CASE MayLoad(c)
    <3>1. Becomes(c, "write") /\ UNCHANGED mutex BY <1>8, <2>2 DEF CheckLoad
    <3>2. work'[c].pc = "write" /\ \A f \in WorkFields \ {"pc"} : work'[c][f] = work[c][f]
      BY <3>1, BecomesFields DEF Over
    <3>3. LiveGraph \subseteq Listed(c)
      <4>1. ASSUME NEW r \in LiveGraph PROVE r[1] \in work[c].listed \/ (r[1] \in Projects /\ Found(r[1]))
        BY <1>0, <2>1, <4>1 DEF LiveGraph, Live, Loading, GraphInv, RefsFound, Scopes
      <4>2. QED BY <4>1 DEF LiveGraph, Listed
    <3>4. ~Leads(work[c].from, work[c].for, LiveGraph) BY <2>2, <3>3, LeadsLess DEF MayLoad
    <3>5. LiveGraph' = LiveGraph BY <2>1 DEF LiveGraph, Live
    <3>6. ~Leads(work'[c].from, work'[c].for, LiveGraph') BY <3>2, <3>4, <3>5 DEF Leads, WorkFields
    <3>7. Loading(c)' BY <1>0, <2>1, <3>1, <3>2, <3>6 DEF Loading, At, WorkFields, Over, Grows
    <3>8. QED BY <1>1, <2>1, <3>1, <3>7
  <2>3. CASE ~MayLoad(c)
    <3>1. Becomes(c, "failed") BY <1>8, <2>3 DEF CheckLoad
    <3>2. work'[c].pc = "failed" BY <3>1, BecomesFields
    <3>3. Loading(c)' BY <3>2 DEF Loading, At, Over
    <3>4. QED BY <1>0, <2>1, <3>3, GraphShrinks, OneGraph
  <2>4. QED BY <2>2, <2>3
<1>9. CASE WriteReference(c)
  <2> DEFINE t == work[c].for
             s == work[c].from
  <2>1. /\ At(c, "load", "write") /\ refs' = refs \cup {<<t, s>>} /\ Becomes(c, "ended") /\ UNCHANGED <<source, status>>
        /\ mutex = c /\ t \in Scopes /\ s \in Scopes /\ Found(t) /\ ~Leads(s, t, LiveGraph)
    BY <1>0, <1>9 DEF WriteReference, Loading, At, Over
  <2>2. work'[c].pc = "ended" BY <2>1, BecomesFields
  <2>3. Loading(c)' BY <2>2 DEF Loading, At, Over
  <2>4. RefsFound' BY <2>1 DEF GraphInv, RefsFound, Grows
  <2>5. \A r \in LiveGraph : r \in Scopes \X Scopes /\ ~Leads(r[2], r[1], LiveGraph)
    BY DEF GraphInv, RefsFound, NoCycle, LiveGraph
  <2>6. LiveGraph' \subseteq LiveGraph \cup {<<t, s>>} BY <2>1 DEF LiveGraph, Live
  <2>7. \A r \in LiveGraph \cup {<<t, s>>} : ~Leads(r[2], r[1], LiveGraph \cup {<<t, s>>})
    BY <2>1, <2>5, ReferenceClosesNoCycle
  <2>8. NoCycle' BY <2>6, <2>7, LeadsLess DEF NoCycle
  <2>9. QED BY <1>0, <2>1, <2>3, <2>4, <2>8, OneGraph
<1>10. CASE RemoveReference(c)
  <2>1. /\ At(c, "unload", "remove") /\ mutex = c /\ refs' \subseteq refs
        /\ \E pc \in {"ended", "failed"} : Becomes(c, pc)
    BY <1>0, <1>10 DEF RemoveReference, Loading
  <2>2. work'[c].pc \in {"ended", "failed"} BY <2>1, BecomesFields
  <2>3. Loading(c)' BY <2>2 DEF Loading, At, Over
  <2>4. QED BY <1>0, <2>1, <2>3, GraphShrinks, OneGraph
<1>11. QED BY <1>3, <1>4, <1>5, <1>6, <1>7, <1>8, <1>9, <1>10 DEF RegStep

(* Every step keeps the live references free of cycles.                      *)
LEMMA GraphStep == GraphInv /\ LockInv /\ OnceInv /\ ContractInv /\ [Next]_vars => GraphInv'
<1> SUFFICES ASSUME GraphInv, LockInv, OnceInv, ContractInv, [Next]_vars PROVE GraphInv' OBVIOUS
<1>0. Grows BY NextGrows
<1>1. ASSUME NEW c \in Calls, UNCHANGED <<refs, mutex>>, work' = work \/ work' = [work EXCEPT ![c] = work'[c]],
             work' = work \/ work'[c].op \notin {"load", "unload"}
      PROVE  GraphInv'
  <2>1. RefsFound' /\ NoCycle' /\ LiveGraph' \subseteq LiveGraph BY <1>0, <1>1, GraphShrinks
  <2>2. CASE work' = work
    <3>1. At(c, "load", "write")' => ~Leads(work'[c].from, work'[c].for, LiveGraph')
      BY <2>1, <2>2, LeadsLess DEF GraphInv, Loading, At, Leads
    <3>2. Loading(c)' BY <1>0, <1>1, <2>2, <3>1 DEF GraphInv, Loading, At, Grows
    <3>3. QED BY <1>0, <1>1, <2>1, <3>2, OneGraph
  <2>3. CASE work'[c].op \notin {"load", "unload"}
    <3>1. Loading(c)' BY <2>3 DEF Loading, At
    <3>2. QED BY <1>0, <1>1, <2>1, <3>1, OneGraph
  <2>4. QED BY <1>1, <2>2, <2>3
<1>2. ASSUME NEW c \in Calls, RunStep(c) PROVE GraphInv'
  <2>1. UNCHANGED <<refs, mutex>> BY <1>2, RunStatus
  <2>2. CASE UserCompletes(c)
    <3>1. \E t : work' = [work EXCEPT ![c] = [Resting EXCEPT !.op = "archive", !.pc = "check", !.for = t]]
      BY <2>2 DEF UserCompletes
    <3>2. work' = [work EXCEPT ![c] = work'[c]] /\ work'[c].op = "archive" BY <3>1 DEF OnceInv, Resting
    <3>3. QED BY <1>1, <2>1, <3>2
  <2>3. CASE ~UserCompletes(c) BY <1>1, <1>2, <2>1, <2>3, RunStepShape
  <2>4. QED BY <2>2, <2>3
<1>3. ASSUME NEW c \in Calls, Crash(c) PROVE GraphInv'
  <2>1. CASE RegDies(c)
    <3>1. /\ work' = [work EXCEPT ![c] = [Resting EXCEPT !.op = work[c].op, !.pc = "crashed"]]
          /\ mutex' = IF mutex = c THEN NoCall ELSE mutex
      BY <2>1 DEF RegDies
    <3>2. work' = [work EXCEPT ![c] = work'[c]] /\ work'[c].pc = "crashed" BY <3>1 DEF OnceInv, Resting
    <3>3. Loading(c)' BY <3>2 DEF Loading, At, Over
    <3>4. UNCHANGED refs BY <1>3 DEF Crash
    <3>5. QED BY <1>0, <3>1, <3>2, <3>3, <3>4, GraphShrinks, OneGraph
  <2>2. CASE UNCHANGED <<work, mutex>>
    <3>1. UNCHANGED refs BY <1>3 DEF Crash
    <3>2. QED BY <1>1, <1>3, <2>2, <3>1
  <2>3. QED BY <1>3, <2>1, <2>2, CrashShape
<1>4. ASSUME NEW c \in Calls, InsStep(c) PROVE GraphInv'
  BY <1>1, <1>4, InstallersStayOut DEF regVars
<1>5. ASSUME NEW c \in Calls, UNCHANGED regVars PROVE GraphInv'
  BY <1>1, <1>5 DEF regVars
<1>6. ASSUME UNCHANGED vars PROVE GraphInv'
  <2>1. RefsFound' /\ NoCycle' BY <1>0, <1>6, GraphShrinks DEF vars, regVars
  <2>2. QED BY <1>6, <2>1 DEF vars, regVars, GraphInv, Loading, At, Found, Leads, LiveGraph, Live
<1>7. QED BY <1>0, <1>2, <1>3, <1>4, <1>5, <1>6, RegGraph DEF Next

(* The live references are those MemoryAcyclic speaks of.                    *)
LEMMA GraphAcyclic == GraphInv => MemoryAcyclic
BY DEF GraphInv, NoCycle, MemoryAcyclic, LiveGraph, Live

(* MemoryAcyclic: however loads, unloads, archives and ends of processes     *)
(* interleave, a cycle of memory references passes through an archived task. *)
THEOREM MemoryIsAcyclic == Spec => []MemoryAcyclic
<1> DEFINE Inv == GraphInv /\ LockInv /\ OnceInv /\ RegistrationInv /\ ContractInv
<1>1. Init => Inv BY GraphInit, LockInit, OnceInit, RegistrationInit, ContractInit
<1>2. Inv /\ [Next]_vars => Inv' BY GraphStep, LockStep, OnceStep, RegistrationStep, ContractStep
<1>3. Inv => MemoryAcyclic BY GraphAcyclic
<1>4. QED BY <1>1, <1>2, <1>3, PTL DEF Spec

-----------------------------------------------------------------------------
(* What the steps of a run that reads its context add to what it was shown.  *)
ReadsMemory(c) ==
  IF "memory" \in run[c].todo /\ "memory" \notin run'[c].todo
  THEN run'[c].shown = CanonicalMemory(run[c].task)
  ELSE run'[c].shown = run[c].shown
ReadsWorking(c) ==
  IF "working" \in run[c].todo /\ "working" \notin run'[c].todo
  THEN run'[c].held \in Lookup(run[c].task, working[run[c].task], "none")
  ELSE run'[c].held = run[c].held
FoundOfKind(c, kind) == Lookup(run[c].task, OfKind(run[c].task, kind), {})
ReadsSeen(c) ==
  \/ run'[c].seen = run[c].seen /\ \A kind \in {"research", "work"} : kind \in run[c].todo => kind \in run'[c].todo
  \/ \E kind \in {"research", "work"} : \E found \in FoundOfKind(c, kind) :
       kind \in run[c].todo /\ run'[c].todo = run[c].todo \ {kind} /\ run'[c].seen = run[c].seen \cup found
ReadsReport(c) ==
  IF "report" \in run[c].todo /\ "report" \notin run'[c].todo
  THEN \E found \in FoundOfKind(c, "report") : run'[c].report = Newest(found)
  ELSE run'[c].report = run[c].report

(* A run that reads its context reads one section at a time, from what its   *)
(* task holds or from where its directory no longer is.                      *)
LEMMA ContextDetail ==
  ASSUME ContractInv, NEW c \in Calls, BuildsContext(c)
  PROVE  \/ run'[c] = Refused
         \/ ReadsMemory(c) /\ ReadsWorking(c) /\ ReadsSeen(c) /\ ReadsReport(c)
<1>0. DOMAIN run = Calls /\ DOMAIN run[c] = RunFields BY DEF ContractInv, RunsWithin, RunWithin
<1> DEFINE Reads == ReadsMemory(c) /\ ReadsWorking(c) /\ ReadsSeen(c) /\ ReadsReport(c)
<1>1. ASSUME NEW r, Shown(c, r) PROVE run'[c] = r BY <1>0, <1>1 DEF Shown
<1>2. \A section : /\ DOMAIN Done(c, section) = RunFields /\ Done(c, section).todo = run[c].todo \ {section}
                   /\ \A f \in RunFields \ {"todo"} : Done(c, section)[f] = run[c][f]
  BY DoneFields
(* Of a section without a text only that it is done.                         *)
<1>3. ASSUME NEW section \in {"rules", "behavior"}, run'[c] = Done(c, section)
      PROVE  Reads
  BY <1>2, <1>3 DEF ReadsMemory, ReadsWorking, ReadsSeen, ReadsReport, RunFields
<1>4. ASSUME NEW r, run'[c] = r, r.todo = run[c].todo, r.shown = run[c].shown, r.held = run[c].held, r.seen = run[c].seen,
             r.report = run[c].report
      PROVE  Reads
  BY <1>4 DEF ReadsMemory, ReadsWorking, ReadsSeen, ReadsReport
<1>5. CASE BuildMemory(c)
  <2>0. Shown(c, Refused) => run'[c] = Refused BY <1>1
  <2> SUFFICES ASSUME NEW text, text = CanonicalMemory(run[c].task), Shown(c, [Done(c, "memory") EXCEPT !.shown = text])
               PROVE  Reads
    BY <1>5, <2>0 DEF BuildMemory
  <2>1. Shown(c, [Done(c, "memory") EXCEPT !.shown = text]) OBVIOUS
  <2> DEFINE r == [Done(c, "memory") EXCEPT !.shown = text]
  <2>2. /\ r.shown = text /\ r.todo = run[c].todo \ {"memory"} /\ r.held = run[c].held /\ r.seen = run[c].seen
        /\ r.report = run[c].report
    BY <1>2 DEF RunFields
  <2>3. run'[c] = r /\ "memory" \in run[c].todo BY <1>1, <1>5, <2>1 DEF BuildMemory, Building
  <2> HIDE DEF r
  <2>4. QED BY <2>1, <2>2, <2>3 DEF ReadsMemory, ReadsWorking, ReadsSeen, ReadsReport
<1>6. CASE BuildWorking(c)
  <2>1. PICK text \in Lookup(run[c].task, working[run[c].task], "none") : Shown(c, [Done(c, "working") EXCEPT !.held = text])
    BY <1>6 DEF BuildWorking
  <2> DEFINE r == [Done(c, "working") EXCEPT !.held = text]
  <2>2. /\ r.held = text /\ r.todo = run[c].todo \ {"working"} /\ r.shown = run[c].shown /\ r.seen = run[c].seen
        /\ r.report = run[c].report
    BY <1>2 DEF RunFields
  <2>3. run'[c] = r /\ "working" \in run[c].todo BY <1>1, <1>6, <2>1 DEF BuildWorking, NextArtifacts, Building
  <2> HIDE DEF r
  <2>4. QED BY <2>1, <2>2, <2>3 DEF ReadsMemory, ReadsWorking, ReadsSeen, ReadsReport
<1>7. CASE ReadGlobalRules(c) \/ ResolveCall(c)
  <2>1. CASE ReadGlobalRules(c)
    <3>1. \E e : Shown(c, IF Unreadable("rules") THEN Refused ELSE [run[c] EXCEPT !.global[e] = docs["rules"].at[e]])
      BY <2>1 DEF ReadGlobalRules
    <3>2. PICK r : Shown(c, r) /\ (r = Refused \/ \E g : r = [run[c] EXCEPT !.global = g]) BY <3>1
    <3>3. r = Refused \/ (/\ r.todo = run[c].todo /\ r.shown = run[c].shown /\ r.held = run[c].held
                          /\ r.seen = run[c].seen /\ r.report = run[c].report)
      BY <1>0, <3>2 DEF RunFields
    <3>4. run'[c] = r BY <1>1, <3>2
    <3> HIDE DEF Reads
    <3>5. QED BY <1>4, <3>3, <3>4 DEF Reads
  <2>2. CASE ResolveCall(c)
    <3>1. \E e : Shown(c, IF Unreadable("project_rules") THEN Refused
                          ELSE [run[c] EXCEPT !.calls[e] = Resolved(run[c].global[e], docs["project_rules"].at[e])])
      BY <2>2 DEF ResolveCall
    <3>2. PICK r : Shown(c, r) /\ (r = Refused \/ \E g : r = [run[c] EXCEPT !.calls = g]) BY <3>1
    <3>3. r = Refused \/ (/\ r.todo = run[c].todo /\ r.shown = run[c].shown /\ r.held = run[c].held
                          /\ r.seen = run[c].seen /\ r.report = run[c].report)
      BY <1>0, <3>2 DEF RunFields
    <3>4. run'[c] = r BY <1>1, <3>2
    <3> HIDE DEF Reads
    <3>5. QED BY <1>4, <3>3, <3>4 DEF Reads
  <2>3. QED BY <1>7, <2>1, <2>2
<1>8. CASE BuildRules(c) \/ BuildBehavior(c)
  <2>1. PICK r : Shown(c, r) /\ (r = Refused \/ r = Done(c, "rules") \/ r = Done(c, "behavior"))
    BY <1>8 DEF BuildRules, BuildBehavior
  <2>2. QED BY <1>1, <1>3, <2>1
<1>9. ASSUME NEW kind \in {"research", "work", "report"}, BuildArtifacts(c, kind) PROVE Reads
  <2>1. PICK found \in FoundOfKind(c, kind) :
          Shown(c, IF kind = "report" THEN [Done(c, kind) EXCEPT !.report = Newest(found)]
                   ELSE [Done(c, kind) EXCEPT !.seen = @ \cup found])
    BY <1>9 DEF BuildArtifacts, FoundOfKind
  <2>2. kind \in run[c].todo BY <1>9 DEF BuildArtifacts, NextArtifacts, Building
  <2>3. CASE kind = "report"
    <3> DEFINE r == [Done(c, kind) EXCEPT !.report = Newest(found)]
    <3>1. run'[c] = r BY <1>1, <2>1, <2>3
    <3>2. /\ r.report = Newest(found) /\ r.todo = run[c].todo \ {kind} /\ r.shown = run[c].shown /\ r.held = run[c].held
          /\ r.seen = run[c].seen
      BY <1>2 DEF RunFields
    <3> HIDE DEF r
    <3>3. QED BY <2>1, <2>2, <2>3, <3>1, <3>2 DEF ReadsMemory, ReadsWorking, ReadsSeen, ReadsReport
  <2>4. CASE kind # "report"
    <3> DEFINE r == [Done(c, kind) EXCEPT !.seen = @ \cup found]
    <3>1. run'[c] = r BY <1>1, <2>1, <2>4
    <3>2. /\ r.seen = run[c].seen \cup found /\ r.todo = run[c].todo \ {kind} /\ r.shown = run[c].shown
          /\ r.held = run[c].held /\ r.report = run[c].report
      BY <1>2 DEF RunFields
    <3> HIDE DEF r
    <3>3. QED BY <2>1, <2>2, <2>4, <3>1, <3>2 DEF ReadsMemory, ReadsWorking, ReadsSeen, ReadsReport
  <2>5. QED BY <2>3, <2>4
<1>10. \A i \in 2..4 : ArtifactOrder[i] \in {"research", "work", "report"} BY DEF ArtifactOrder
<1> HIDE DEF Reads
<1>11. QED BY <1>5, <1>6, <1>7, <1>8, <1>9, <1>10 DEF BuildsContext, Reads

-----------------------------------------------------------------------------
(* Sessions.  A call that has not bound its task yet is nobody's session;    *)
(* and what a task holds is what its own session was shown, or what a run of *)
(* that session, now over, put there.                                        *)
Before == {"idle", "release", "open", "bind"}
Finished == Settled \ {"idle"}
Sessions(c) ==
  /\ run[c].session \in Calls => run[run[c].session].pc \notin Before
  /\ run[c].pc \in {"context", "commit"} \cup Committing => run[c].session # "none"
  /\ run[c].pc \in {"commit"} \cup Committing => run[c].todo = {}
Kept(c, text, shown) ==
  text = shown \/ (text \in Calls /\ run[text].pc \in Finished /\ run[text].session = run[c].session)
Reading == {"context", "commit", "apply"}
ShownMemory(c) ==
  LET t == run[c].task IN
  run[c].pc \in Reading /\ t \in Tasks /\ owner[t] = run[c].session /\ status[t] # "archived" =>
    /\ "memory" \notin run[c].todo => Kept(c, memory[t], run[c].shown)
    /\ "working" \notin run[c].todo /\ run[c].agent = "questioner" => Kept(c, working[t], run[c].held)
SessionInv ==
  /\ DOMAIN memory = Scopes /\ DOMAIN working = Tasks
  /\ \A t \in Tasks : owner[t] \in Calls => run[owner[t]].pc \notin Before
  /\ \A c \in Calls : Sessions(c) /\ ShownMemory(c)

(* At first the user is the only session.                                    *)
LEMMA SessionInit == Init => SessionInv
BY ScopesAssumption
   DEF Init, RegInit, RunInit, NotRunning, SessionInv, Sessions, ShownMemory, Before, Reading, Committing

(* A step of one run, seen from the sessions of the others.                  *)
Past(c) ==
  /\ run[c].pc \in Finished => run'[c] = run[c]
  /\ run[c].pc \notin Before => run'[c].pc \notin Before
Owners(c) == \A t \in Tasks : \/ owner'[t] = owner[t] \/ owner'[t] = "none"
                              \/ owner'[t] = c /\ run[c].pc \in Before /\ run'[c].pc \notin Before
Replaces(c, old, new) == \A t \in Tasks : \/ new[t] = old[t]
                                          \/ new[t] = c /\ run'[c].pc \in Finished /\ run'[c].session = owner[t]

(* A step of one run leaves what the others know of their sessions true.     *)
LEMMA OneSession ==
  ASSUME SessionInv, ContractInv, Grows, NEW c \in Calls, Past(c), Owners(c),
         run' = run \/ run' = [run EXCEPT ![c] = run'[c]],
         DOMAIN memory' = Scopes, DOMAIN working' = Tasks,
         Replaces(c, memory, memory'), Replaces(c, working, working'),
         Sessions(c)', ShownMemory(c)'
  PROVE  SessionInv'
<1>0. \A x \in Calls \ {c} : run'[x] = run[x] BY DEF ContractInv, RunsWithin
<1>1. \A x \in Calls : run[x].pc \notin Before => run'[x].pc \notin Before BY <1>0 DEF Past
<1>2. \A x \in Calls : run[x].pc \in Finished => run'[x] = run[x] BY <1>0 DEF Past
<1>3. ASSUME NEW t \in Tasks, owner'[t] \in Calls PROVE run'[owner'[t]].pc \notin Before
  BY <1>1, <1>3, ScopesAssumption DEF SessionInv, Owners
<1>4. ASSUME NEW x \in Calls \ {c} PROVE Sessions(x)' /\ ShownMemory(x)'
  <2> DEFINE t == run[x].task
  <2>1. Sessions(x)' BY <1>0, <1>1 DEF SessionInv, Sessions
  <2>2. ASSUME run[x].pc \in Reading, t \in Tasks, owner'[t] = run[x].session, status'[t] # "archived"
        PROVE  owner[t] = run[x].session /\ status[t] # "archived"
    <3>1. run[x].session # "none" /\ (run[x].session \in Calls => run[run[x].session].pc \notin Before)
      BY <2>2 DEF SessionInv, Sessions, Reading, Committing
    <3>2. QED BY <2>2, <3>1 DEF Owners, Grows
  <2>3. ASSUME NEW old, NEW new, NEW shown, Kept(x, old[t], shown), owner[t] = run[x].session, t \in Tasks, Replaces(c, old, new)
        PROVE  new[t] = shown \/ (new[t] \in Calls /\ run'[new[t]].pc \in Finished /\ run'[new[t]].session = run[x].session)
    BY <1>2, <2>3 DEF Kept, Replaces
  <2>4. ShownMemory(x) BY DEF SessionInv
  <2>5. ASSUME NEW shown, Kept(x, memory[t], shown), owner[t] = run[x].session, t \in Tasks PROVE Kept(x, memory[t], shown)'
    BY <1>0, <2>3, <2>5 DEF Kept
  <2>6. ASSUME NEW shown, Kept(x, working[t], shown), owner[t] = run[x].session, t \in Tasks PROVE Kept(x, working[t], shown)'
    BY <1>0, <2>3, <2>6 DEF Kept
  <2>7. ShownMemory(x)'
    <3> SUFFICES ASSUME run[x].pc \in Reading, t \in Tasks, owner'[t] = run[x].session, status'[t] # "archived"
                 PROVE  /\ "memory" \notin run[x].todo => Kept(x, memory[t], run[x].shown)'
                        /\ "working" \notin run[x].todo /\ run[x].agent = "questioner" => Kept(x, working[t], run[x].held)'
      BY <1>0 DEF ShownMemory
    <3>1. QED BY <1>0, <2>2, <2>4, <2>5, <2>6 DEF ShownMemory
  <2>8. QED BY <2>1, <2>7
<1>5. QED BY <1>3, <1>4 DEF SessionInv

(* What a run was shown stays what it is while nothing of its task changes.  *)
LEMMA ShownStays ==
  ASSUME SessionInv, ContractInv, NEW c \in Calls, Past(c),
         run' = [run EXCEPT ![c] = run'[c]], UNCHANGED <<owner, status, memory, working>>,
         run[c].pc \in Reading,
         run'[c].task = run[c].task, run'[c].session = run[c].session, run'[c].agent = run[c].agent,
         run'[c].shown = run[c].shown, run'[c].held = run[c].held,
         \A section \in {"memory", "working"} : section \in run[c].todo => section \in run'[c].todo
  PROVE  ShownMemory(c)'
<1>1. \A x \in Calls : run[x].pc \in Finished => run'[x] = run[x] BY DEF Past, ContractInv, RunsWithin
<1>2. \A text, shown : Kept(c, text, shown) =>
        text = shown \/ (text \in Calls /\ run'[text].pc \in Finished /\ run'[text].session = run'[c].session)
  BY <1>1 DEF Kept
<1>3. ShownMemory(c) BY DEF SessionInv
<1>4. QED BY <1>2, <1>3 DEF ShownMemory, Kept

(* The steps of the runs: a session begins with its binding, and only a run  *)
(* of the session that owns the task replaces what it holds.                 *)
LEMMA RunSession ==
  ASSUME SessionInv, LockInv, OnceInv, ContractInv, Grows, NEW c \in Calls, RunStep(c), ~UserCompletes(c)
  PROVE  SessionInv'
<1>0. /\ run' = [run EXCEPT ![c] = run'[c]] /\ DOMAIN run = Calls /\ \A x \in Calls \ {c} : run'[x] = run[x]
      /\ Placed(c) /\ Holding(c) /\ Sessions(c) /\ ShownMemory(c) /\ DOMAIN memory = Scopes /\ DOMAIN working = Tasks
      /\ DOMAIN owner = Tasks
  BY RunnersDoNoWork DEF LockInv, ContractInv, RunsWithin, SessionInv
<1>1. ASSUME Past(c), Owners(c), UNCHANGED <<memory, working>>, Sessions(c)', ShownMemory(c)' PROVE SessionInv'
  BY <1>0, <1>1, OneSession DEF Replaces
<1>2. ASSUME Past(c) PROVE run[c].session \in Calls => run'[run[c].session].pc \notin Before
  BY <1>0, <1>2 DEF Sessions, Past
(* The run is over.                                                          *)
<1>3. ASSUME NEW pc \in Finished, RunGoto(c, pc), run[c].pc \notin Settled, UNCHANGED owner,
             DOMAIN memory' = Scopes, DOMAIN working' = Tasks, Replaces(c, memory, memory'), Replaces(c, working, working')
      PROVE  SessionInv'
  <2>1. run'[c].pc = pc /\ run'[c].session = run[c].session BY <1>3, GotoFields
  <2>2. Past(c) BY <1>3, <2>1 DEF Past, Finished, Settled, Before
  <2>3. Sessions(c)' /\ ShownMemory(c)'
    BY <1>2, <1>3, <2>1, <2>2 DEF Sessions, ShownMemory, Finished, Settled, Committing, Reading
  <2>4. Owners(c) BY <1>3 DEF Owners
  <2>5. QED BY <1>0, <1>3, <2>2, <2>3, <2>4, OneSession
(* A run begins: of what its task holds it was shown nothing yet.            *)
<1>4. ASSUME run[c].pc \in {"idle", "bound"}, NEW agent, NEW t \in Tasks \cup {"none"}, NEW session, run'[c] = Begun(agent, t, session),
             UNCHANGED <<owner, memory, working>>, session # "none",
             session \in Calls => session = c \/ run[session].pc \notin Before
      PROVE  SessionInv'
  <2>1. /\ run'[c].pc = "context" /\ run'[c].agent = agent /\ run'[c].task = t /\ run'[c].session = session
        /\ run'[c].todo = Sections(agent, t # "none")
    BY <1>4, BegunFields
  <2>2. Past(c) BY <1>4, <2>1 DEF Past, Finished, Settled, Before
  <2>3. session \in Calls => run'[session].pc \notin Before BY <1>0, <1>4, <2>1 DEF Before
  <2>4. Sessions(c)' BY <1>4, <2>1, <2>3 DEF Sessions, Committing
  <2>5. t \in Tasks => t # "none" BY ScopesAssumption DEF Scopes
  <2>6. ShownMemory(c)' BY <2>1, <2>5 DEF ShownMemory, Sections
  <2>7. QED BY <1>1, <1>4, <2>2, <2>4, <2>6 DEF Owners
(* The run goes on, and is shown nothing.                                    *)
<1>5. ASSUME NEW pc \in {"commit", "apply", "save", "complete"}, RunGoto(c, pc), run[c].pc \in {"context", "commit", "apply", "save"},
             run[c].todo = {}, UNCHANGED <<owner, status, memory, working>>,
             pc \in Reading => run[c].pc \in Reading
      PROVE  SessionInv'
  <2>1. run'[c].pc = pc /\ \A f \in RunFields \ {"pc"} : run'[c][f] = run[c][f] BY <1>5, GotoFields DEF Settled
  <2>2. Past(c) BY <1>5, <2>1 DEF Past, Finished, Settled, Before
  <2>3. Sessions(c)'
    BY <1>2, <1>0, <1>5, <2>1, <2>2 DEF Sessions, Committing, RunFields
  <2>4. ShownMemory(c)'
    <3>1. CASE pc \in Reading BY <1>0, <1>5, <2>1, <2>2, <3>1, ShownStays DEF RunFields
    <3>2. CASE pc \notin Reading BY <2>1, <3>2 DEF ShownMemory
    <3>3. QED BY <3>1, <3>2
  <2>5. QED BY <1>1, <1>5, <2>2, <2>3, <2>4 DEF Owners
<1>6. CASE Reopen(c)
  <2>1. PICK t \in Tasks : Started(c, [NotRunning EXCEPT !.pc = "release", !.task = t]) BY <1>6 DEF Reopen
  <2>2. run'[c] = [NotRunning EXCEPT !.pc = "release", !.task = t] /\ UNCHANGED <<regVars, memory, working>> /\ Occupy(c)
    BY <2>1, StartedFields
  <2>3. run'[c].pc = "release" /\ run'[c].session = "none" /\ run[c].pc = "idle" /\ UNCHANGED owner
    BY <2>2, RegistryRunsNone DEF NotRunning, regVars
  <2>4. Past(c) BY <2>3 DEF Past, Finished, Settled, Before
  <2>5. Sessions(c)' /\ ShownMemory(c)' BY <2>3, ScopesAssumption DEF Sessions, ShownMemory, Committing, Reading
  <2>6. QED BY <1>1, <2>2, <2>3, <2>4, <2>5 DEF Owners
<1>7. CASE Invoke(c)
  <2>1. PICK agent \in RunAgents, t \in Tasks : owner[t] # "none" /\ Started(c, Begun(agent, t, owner[t])) BY <1>7 DEF Invoke
  <2>2. run'[c] = Begun(agent, t, owner[t]) /\ UNCHANGED <<owner, memory, working>> /\ run[c].pc = "idle"
    BY <2>1, StartedFields, RegistryRunsNone DEF regVars
  <2>3. owner[t] \in Calls => run[owner[t]].pc \notin Before BY DEF SessionInv
  <2>4. QED BY <1>4, <2>1, <2>2, <2>3
<1>8. CASE InvokeOnProject(c)
  <2>1. PICK agent : Started(c, Begun(agent, "none", c)) BY <1>8 DEF InvokeOnProject
  <2>2. run'[c] = Begun(agent, "none", c) /\ UNCHANGED <<owner, memory, working>> /\ run[c].pc = "idle"
    BY <2>1, StartedFields, RegistryRunsNone DEF regVars
  <2>3. QED BY <1>4, <2>2, ScopesAssumption
<1>9. CASE InvokeAfterOpening(c)
  <2>1. PICK agent : run' = [run EXCEPT ![c] = Begun(agent, run[c].task, c)] BY <1>9 DEF InvokeAfterOpening
  <2>2. /\ run'[c] = Begun(agent, run[c].task, c) /\ UNCHANGED <<owner, memory, working>> /\ run[c].pc = "bound"
    BY <1>0, <1>9, <2>1 DEF InvokeAfterOpening
  <2>3. QED BY <1>0, <1>4, <2>2, ScopesAssumption DEF Placed
<1>10. CASE ForceRelease(c)
  <2>1. /\ run[c].pc = "release" /\ owner' = [owner EXCEPT ![run[c].task] = "none"] /\ RunGoto(c, "open")
        /\ UNCHANGED <<memory, working>>
    BY <1>10 DEF ForceRelease
  <2>2. run'[c].pc = "open" /\ run'[c].session = run[c].session BY <2>1, GotoFields
  <2>3. Past(c) BY <2>1, <2>2 DEF Past, Finished, Settled, Before
  <2>4. Owners(c) BY <1>0, <2>1 DEF Owners
  <2>5. Sessions(c)' /\ ShownMemory(c)' BY <1>2, <2>2, <2>3 DEF Sessions, ShownMemory, Committing, Reading
  <2>6. QED BY <1>1, <2>1, <2>3, <2>4, <2>5
<1>11. CASE OpenTaskSession(c)
  <2>1. PICK pc \in {"bind", "failed"} : RunGoto(c, pc) /\ run[c].pc = "open" /\ UNCHANGED <<owner, memory, working>>
    BY <1>11 DEF OpenTaskSession
  <2>2. CASE pc = "failed" BY <1>0, <1>3, <2>1, <2>2 DEF Finished, Settled, Replaces
  <2>3. CASE pc = "bind"
    <3>1. run'[c].pc = "bind" /\ run'[c].session = run[c].session BY <2>1, <2>3, GotoFields
    <3>2. Past(c) BY <2>1, <3>1 DEF Past, Finished, Settled, Before
    <3>3. Sessions(c)' /\ ShownMemory(c)' BY <1>2, <3>1, <3>2 DEF Sessions, ShownMemory, Committing, Reading
    <3>4. QED BY <1>1, <2>1, <3>2, <3>3 DEF Owners
  <2>4. QED BY <2>2, <2>3
<1>12. CASE BindTask(c)
  <2>1. run[c].pc = "bind" /\ UNCHANGED <<memory, working>> BY <1>12 DEF BindTask
  <2>2. CASE owner[run[c].task] = "none"
    <3>1. owner' = [owner EXCEPT ![run[c].task] = c] /\ RunGoto(c, "bound") BY <1>12, <2>2 DEF BindTask
    <3>2. run'[c].pc = "bound" /\ run'[c].session = run[c].session BY <3>1, GotoFields
    <3>3. Past(c) BY <2>1, <3>2 DEF Past, Finished, Settled, Before
    <3>4. Owners(c) BY <1>0, <2>1, <3>1, <3>2 DEF Owners, Before
    <3>5. Sessions(c)' /\ ShownMemory(c)' BY <1>2, <3>2, <3>3 DEF Sessions, ShownMemory, Committing, Reading
    <3>6. QED BY <1>1, <2>1, <3>3, <3>4, <3>5
  <2>3. CASE owner[run[c].task] # "none"
    <3>1. UNCHANGED owner /\ RunGoto(c, "failed") BY <1>12, <2>3 DEF BindTask
    <3>2. QED BY <1>0, <1>3, <2>1, <3>1 DEF Finished, Settled, Replaces
  <2>4. QED BY <2>2, <2>3
<1>13. CASE BuildsContext(c)
  <2>1. /\ run[c].pc = "context" /\ UNCHANGED <<owner, status, place, memory, working>>
        /\ \/ run'[c] = Refused
           \/ (\A f \in Steady : run'[c][f] = run[c][f]) /\ run'[c].todo \subseteq run[c].todo
    BY <1>13, ContextFields DEF regVars
  <2>2. CASE run'[c] = Refused
    <3>1. run'[c].pc = "failed" /\ run'[c].session = "none" BY <2>2 DEF Refused, NotRunning
    <3>2. Past(c) BY <2>1, <3>1 DEF Past, Finished, Settled, Before
    <3>3. Sessions(c)' /\ ShownMemory(c)' BY <3>1, ScopesAssumption DEF Sessions, ShownMemory, Committing, Reading
    <3>4. QED BY <1>1, <2>1, <3>2, <3>3 DEF Owners
  <2>3. CASE run'[c] # Refused
    <3>1. /\ run'[c].pc = "context" /\ run'[c].session = run[c].session /\ run'[c].task = run[c].task
          /\ run'[c].agent = run[c].agent /\ run'[c].todo \subseteq run[c].todo /\ ReadsMemory(c) /\ ReadsWorking(c)
      BY <1>13, <2>1, <2>3, ContextDetail DEF Steady
    <3>2. Past(c) BY <2>1, <3>1 DEF Past, Finished, Settled, Before
    <3>3. Sessions(c)' BY <1>0, <1>2, <2>1, <3>1, <3>2 DEF Sessions, Committing
    <3> DEFINE t == run[c].task
    <3>4. ASSUME t \in Tasks, status[t] # "archived", NEW text, NEW found \in Lookup(t, text, "none") PROVE found = text
      BY <3>4 DEF Lookup, LockInv
    <3>5. \A text, shown : Kept(c, text, shown) =>
            text = shown \/ (text \in Calls /\ run'[text].pc \in Finished /\ run'[text].session = run'[c].session)
      BY <1>0, <2>1, <3>1, <3>2 DEF Kept, Past
    <3>6. ShownMemory(c)'
      <4> SUFFICES ASSUME t \in Tasks, owner[t] = run[c].session, status[t] # "archived"
                   PROVE  /\ "memory" \notin run'[c].todo => Kept(c, memory[t], run[c].shown)'
                          /\ "working" \notin run'[c].todo /\ run[c].agent = "questioner" => Kept(c, working[t], run[c].held)'
        BY <2>1, <3>1 DEF ShownMemory
      <4>1. ASSUME "memory" \notin run'[c].todo PROVE Kept(c, memory[t], run[c].shown)'
        <5>1. CASE "memory" \in run[c].todo
          <6>1. run'[c].shown = memory[t] BY <3>1, <3>4, <4>1, <5>1 DEF ReadsMemory, CanonicalMemory
          <6>2. QED BY <2>1, <3>1, <6>1 DEF Kept
        <5>2. CASE "memory" \notin run[c].todo
          <6>1. run'[c].shown = run[c].shown BY <3>1, <5>2 DEF ReadsMemory
          <6>2. Kept(c, memory[t], run[c].shown) BY <1>0, <2>1, <5>2 DEF ShownMemory, Reading
          <6>3. QED BY <2>1, <3>1, <3>5, <6>1, <6>2 DEF Kept
        <5>3. QED BY <5>1, <5>2
      <4>2. ASSUME "working" \notin run'[c].todo, run[c].agent = "questioner" PROVE Kept(c, working[t], run[c].held)'
        <5>1. CASE "working" \in run[c].todo
          <6>1. run'[c].held = working[t] BY <3>1, <3>4, <4>2, <5>1 DEF ReadsWorking
          <6>2. QED BY <2>1, <3>1, <6>1 DEF Kept
        <5>2. CASE "working" \notin run[c].todo
          <6>1. run'[c].held = run[c].held BY <3>1, <5>2 DEF ReadsWorking
          <6>2. Kept(c, working[t], run[c].held) BY <1>0, <2>1, <4>2, <5>2 DEF ShownMemory, Reading
          <6>3. QED BY <2>1, <3>1, <3>5, <6>1, <6>2 DEF Kept
        <5>3. QED BY <5>1, <5>2
      <4>3. QED BY <4>1, <4>2
    <3>7. QED BY <1>1, <2>1, <3>2, <3>3, <3>6 DEF Owners
  <2>4. QED BY <2>2, <2>3
<1>14. CASE CaptureFence(c)
  <2>1. PICK pc \in {"apply", "commit", "failed"} : RunGoto(c, pc) BY <1>14 DEF CaptureFence
  <2>2. run[c].pc = "context" /\ run[c].todo = {} /\ UNCHANGED <<owner, status, memory, working>>
    BY <1>14 DEF CaptureFence, Outside
  <2>3. CASE pc = "failed" BY <1>0, <1>3, <2>1, <2>2, <2>3 DEF Finished, Settled, Replaces
  <2>4. CASE pc # "failed" BY <1>5, <2>1, <2>2, <2>4 DEF Reading
  <2>5. QED BY <2>3, <2>4
<1>15. CASE Commit(c) \/ CheckFields(c)
  <2>1. PICK pc \in {"apply", "save", "failed"} : RunGoto(c, pc) /\ (pc = "apply" => Commit(c))
    BY <1>15 DEF Commit, CheckFields
  <2>2. /\ run[c].pc \in {"commit", "apply"} /\ UNCHANGED <<owner, status, memory, working>> /\ run[c].todo = {}
        /\ Commit(c) => run[c].pc = "commit"
    BY <1>0, <1>15 DEF Commit, CheckFields, Outside, Sessions, Committing
  <2>3. CASE pc = "failed" BY <1>0, <1>3, <2>1, <2>2, <2>3 DEF Finished, Settled, Replaces
  <2>4. CASE pc # "failed" BY <1>5, <2>1, <2>2, <2>4 DEF Reading
  <2>5. QED BY <2>3, <2>4
<1>16. CASE ApplyExaminerIntent(c)
  <2>1. /\ run[c].pc = "apply" /\ RunGoto(c, "ended") /\ UNCHANGED <<owner, working>>
        /\ UNCHANGED memory \/ \E s \in IntentScopes(c) : memory' = [memory EXCEPT ![s] = c]
    BY <1>16 DEF ApplyExaminerIntent, ReplaceCanonicalMemory
  <2>2. run'[c].pc = "ended" /\ run'[c].session = run[c].session BY <2>1, GotoFields
  <2>3. \A t \in Tasks : t \in IntentScopes(c) => t = run[c].task /\ t # "none"
    BY ScopesAssumption DEF IntentScopes, Scopes
  <2>4. DOMAIN memory' = Scopes BY <1>0, <2>1
  <2>5. Replaces(c, memory, memory')
    <3> SUFFICES ASSUME NEW t \in Tasks, memory'[t] # memory[t]
                 PROVE  memory'[t] = c /\ run'[c].pc \in Finished /\ run'[c].session = owner[t]
      BY DEF Replaces
    <3>1. memory'[t] = c /\ t \in IntentScopes(c) BY <1>0, <2>1 DEF Scopes
    <3>2. owner[t] = run[c].session BY <1>0, <2>1, <2>3, <3>1 DEF Holding, Committing
    <3>3. QED BY <2>2, <3>1, <3>2 DEF Finished, Settled
  <2>6. QED BY <1>0, <1>3, <2>1, <2>4, <2>5 DEF Finished, Settled, Replaces
<1>17. CASE SaveQuestionerContext(c)
  <2>1. /\ run[c].pc = "apply" /\ run[c].agent = "questioner" /\ RunGoto(c, "ended") /\ UNCHANGED <<owner, memory>>
        /\ UNCHANGED working \/ working' = [working EXCEPT ![run[c].task] = c]
    BY <1>17 DEF SaveQuestionerContext
  <2>2. run'[c].pc = "ended" /\ run'[c].session = run[c].session BY <2>1, GotoFields
  <2>3. owner[run[c].task] = run[c].session
    BY <1>0, <2>1, ScopesAssumption DEF Holding, Placed, ActiveRequired, Committing, Scopes
  <2>4. DOMAIN working' = Tasks BY <1>0, <2>1
  <2>5. Replaces(c, working, working') BY <1>0, <2>1, <2>2, <2>3 DEF Replaces, Finished, Settled
  <2>6. QED BY <1>0, <1>3, <2>1, <2>4, <2>5 DEF Finished, Settled, Replaces
<1>18. CASE SaveRecord(c) \/ SaveDraft(c) \/ MarkCompleted(c)
  <2>1. run[c].pc \in {"apply", "save", "complete"} /\ RunGoto(c, "ended") /\ UNCHANGED <<owner, memory, working>>
    BY <1>18 DEF SaveRecord, SaveDraft, MarkCompleted
  <2>2. QED BY <1>0, <1>3, <2>1 DEF Finished, Settled, Replaces
<1>19. CASE SaveReviewerReport(c)
  <2>1. /\ run[c].pc = "save" /\ UNCHANGED <<owner, status, memory, working>> /\ run[c].todo = {}
        /\ \E pc \in {"ended", "complete"} : RunGoto(c, pc)
    BY <1>0, <1>19 DEF SaveReviewerReport, Outside, Sessions, Committing
  <2>2. PICK pc \in {"ended", "complete"} : RunGoto(c, pc) BY <2>1
  <2>3. CASE pc = "ended" BY <1>0, <1>3, <2>1, <2>2, <2>3 DEF Finished, Settled, Replaces
  <2>4. CASE pc = "complete" BY <1>5, <2>1, <2>2, <2>4 DEF Reading
  <2>5. QED BY <2>3, <2>4
<1>20. QED
  BY <1>6, <1>7, <1>8, <1>9, <1>10, <1>11, <1>12, <1>13, <1>14, <1>15, <1>16, <1>17, <1>18, <1>19 DEF RunStep, BuildsContext

(* The owner of a task changes at most to none outside the runs.             *)
LEMMA OwnerReleased ==
  ASSUME LockInv, OnceInv, NEW c \in Calls, RegStep(c) \/ InsStep(c) \/ Crash(c)
  PROVE  \A t \in Tasks : owner'[t] \in {owner[t], "none"}
<1>1. CASE InsStep(c) \/ Crash(c)
  BY <1>1, InstallersStayOut DEF Crash, regVars
<1>2. CASE CheckCompleted(c) BY <1>2 DEF CheckCompleted, LockInv
<1>3. CASE RegStep(c) /\ ~CheckCompleted(c)
  BY <1>3 DEF RegStep, CreateProject, SeedForProject, RegisterProject, CreateTask, RegisterTask, Archive, MarkArchived,
     MoveArchived, Load, Unload, LockMemory, CheckLoad, WriteReference, RemoveReference, ListTasks, Take
<1>4. QED BY <1>1, <1>2, <1>3

(* Every step keeps what a run was shown, or a run of its session has put    *)
(* there.                                                                    *)
LEMMA SessionStep == SessionInv /\ GraphInv /\ LockInv /\ OnceInv /\ ContractInv /\ [Next]_vars => SessionInv'
<1> SUFFICES ASSUME SessionInv, GraphInv, LockInv, OnceInv, ContractInv, [Next]_vars PROVE SessionInv' OBVIOUS
<1>0. Grows BY NextGrows
(* No run moves.                                                             *)
<1>1. ASSUME NEW c \in Calls, UNCHANGED runVars, \A t \in Tasks : owner'[t] \in {owner[t], "none"} PROVE SessionInv'
  <2>1. UNCHANGED <<run, memory, working>> BY <1>1 DEF runVars
  <2>2. Past(c) /\ Owners(c) /\ Replaces(c, memory, memory') /\ Replaces(c, working, working')
    BY <1>1, <2>1 DEF Past, Owners, Replaces
  <2>3. Sessions(c)' BY <2>1 DEF SessionInv, Sessions
  <2>4. ShownMemory(c)'
    <3>1. \A t \in Tasks : owner'[t] = run[c].session /\ run[c].pc \in Reading => owner[t] = run[c].session
      BY <1>1 DEF SessionInv, Sessions, Reading, Committing
    <3>2. QED BY <1>0, <2>1, <3>1 DEF SessionInv, ShownMemory, Kept, Grows
  <2>5. QED BY <1>0, <2>1, <2>2, <2>3, <2>4, OneSession DEF SessionInv
<1>2. ASSUME NEW c \in Calls, RegStep(c) \/ InsStep(c), UNCHANGED runVars PROVE SessionInv'
  BY <1>1, <1>2, OwnerReleased
<1>3. ASSUME NEW c \in Calls, RunStep(c) PROVE SessionInv'
  <2>1. UserCompletes(c) => UNCHANGED <<runVars, owner>> BY DEF UserCompletes
  <2>2. QED BY <1>0, <1>1, <1>3, <2>1, RunSession
<1>4. ASSUME NEW c \in Calls, Crash(c) PROVE SessionInv'
  <2>1. CASE UNCHANGED runVars BY <1>1, <1>4, <2>1, OwnerReleased
  <2>2. CASE Running(c) /\ RunDies(c) /\ UNCHANGED <<memory, working>>
    <3>1. RunGoto(c, "crashed") /\ run[c].pc \notin Settled /\ UNCHANGED owner BY <1>4, <2>2 DEF RunDies, Running, Crash
    <3>2. run' = [run EXCEPT ![c] = run'[c]] /\ run'[c].pc = "crashed" /\ run'[c].session = run[c].session
      BY <3>1, GotoFields
    <3>3. Past(c) /\ Owners(c) /\ Replaces(c, memory, memory') /\ Replaces(c, working, working')
      BY <2>2, <3>1, <3>2 DEF Past, Owners, Replaces, Finished, Settled, Before
    <3>4. \A x \in Calls \ {c} : run'[x] = run[x] BY <3>2 DEF ContractInv, RunsWithin
    <3>5. Sessions(c)' /\ ShownMemory(c)'
      BY <3>2, <3>4 DEF SessionInv, Sessions, ShownMemory, Committing, Reading, Before
    <3>6. QED BY <1>0, <2>2, <3>2, <3>3, <3>5, OneSession DEF SessionInv
  <2>3. QED BY <1>4, <2>1, <2>2, CrashShape
<1>5. ASSUME NEW c \in Calls, UNCHANGED <<regVars, runVars>> PROVE SessionInv'
  BY <1>1, <1>5 DEF regVars
<1>6. CASE UNCHANGED vars
  BY <1>6 DEF vars, regVars, runVars, SessionInv, Sessions, ShownMemory, Kept
<1>7. QED BY <1>2, <1>3, <1>4, <1>5, <1>6 DEF Next, vars

(* Only the two actions that replace a text change one.                      *)
LEMMA WhoReplaces ==
  ASSUME LockInv, ContractInv, SessionInv, [Next]_vars, NEW c \in Calls, NEW t \in Tasks
  PROVE  /\ memory'[t] = c /\ memory[t] # c =>
              run[c].pc = "apply" /\ run[c].task = t /\ Holding(c)
         /\ working'[t] = c /\ working[t] # c =>
              run[c].pc = "apply" /\ run[c].task = t /\ Holding(c) /\ run[c].agent = "questioner"
<1>0. /\ DOMAIN memory = Scopes /\ DOMAIN working = Tasks
      /\ \A x \in Calls : Holding(x)
  BY DEF SessionInv, LockInv
<1>1. ASSUME NEW x \in Calls, ApplyExaminerIntent(x), ~UNCHANGED memory
      PROVE  UNCHANGED working /\ run[x].pc = "apply" /\ \E s \in IntentScopes(x) : memory' = [memory EXCEPT ![s] = x]
  BY <1>1 DEF ApplyExaminerIntent, ReplaceCanonicalMemory
<1>2. ASSUME NEW x \in Calls, SaveQuestionerContext(x), ~UNCHANGED working
      PROVE  /\ UNCHANGED memory /\ run[x].pc = "apply" /\ run[x].agent = "questioner"
             /\ working' = [working EXCEPT ![run[x].task] = x]
  BY <1>2 DEF SaveQuestionerContext
<1>3. \A x \in Calls : t \in IntentScopes(x) => t = run[x].task
  BY ScopesAssumption DEF IntentScopes, Scopes
<1>4. \A x \in Calls : BuildsContext(x) => UNCHANGED <<memory, working>> BY ContextFields
<1>5. ASSUME NEW x \in Calls, RunStep(x), ~ApplyExaminerIntent(x), ~SaveQuestionerContext(x), ~BuildsContext(x)
      PROVE  UNCHANGED <<memory, working>>
  BY <1>5 DEF RunStep, BuildsContext, Reopen, Started, Invoke, InvokeOnProject, UserCompletes, runVars, ForceRelease, OpenTaskSession,
     BindTask, InvokeAfterOpening, CaptureFence, Commit, CheckFields, SaveRecord, SaveDraft, SaveReviewerReport, MarkCompleted
<1>6. \/ memory' = memory /\ working' = working
      \/ \E x \in Calls : ApplyExaminerIntent(x) \/ SaveQuestionerContext(x)
  BY <1>4, <1>5 DEF Next, vars, runVars, Crash
<1>7. ASSUME NEW x \in Calls, ApplyExaminerIntent(x), memory'[t] # memory[t]
      PROVE  run[x].pc = "apply" /\ run[x].task = t /\ memory'[t] = x
  <2>1. run[x].pc = "apply" /\ \E s \in IntentScopes(x) : memory' = [memory EXCEPT ![s] = x] BY <1>1, <1>7
  <2>2. QED BY <1>0, <1>3, <1>7, <2>1 DEF Scopes
<1>8. ASSUME NEW x \in Calls, SaveQuestionerContext(x), working'[t] # working[t]
      PROVE  run[x].pc = "apply" /\ run[x].task = t /\ working'[t] = x /\ run[x].agent = "questioner"
  <2>1. run[x].pc = "apply" /\ run[x].agent = "questioner" /\ working' = [working EXCEPT ![run[x].task] = x] BY <1>2, <1>8
  <2>2. QED BY <1>0, <1>8, <2>1
<1>9. ASSUME NEW x \in Calls PROVE /\ ApplyExaminerIntent(x) => working' = working
                                   /\ SaveQuestionerContext(x) => memory' = memory
  BY DEF ApplyExaminerIntent, SaveQuestionerContext
<1>10. ASSUME memory'[t] = c, memory[t] # c PROVE run[c].pc = "apply" /\ run[c].task = t
  <2>1. memory'[t] # memory[t] BY <1>10
  <2>2. PICK x \in Calls : ApplyExaminerIntent(x) BY <2>1, <1>6, <1>9
  <2>3. QED BY <2>1, <2>2, <1>7, <1>10
<1>11. ASSUME working'[t] = c, working[t] # c PROVE run[c].pc = "apply" /\ run[c].task = t /\ run[c].agent = "questioner"
  <2>1. working'[t] # working[t] BY <1>11
  <2>2. PICK x \in Calls : ApplyExaminerIntent(x) \/ SaveQuestionerContext(x) BY <2>1, <1>6
  <2>3. ~ApplyExaminerIntent(x) BY <2>1, <2>2, <1>9
  <2>4. QED BY <2>1, <2>2, <2>3, <1>8, <1>11
<1>12. QED BY <1>0, <1>10, <1>11

(* So a run replaces what it was shown, or what its own session wrote since. *)
LEMMA ReplacedByItsSession ==
  ASSUME SessionInv, LockInv, ContractInv, [Next]_vars, NEW c \in Calls, NEW t \in Tasks
  PROVE  /\ memory'[t] = c /\ memory[t] # c => ReplacedAsRead(c, memory[t], run[c].shown)
         /\ working'[t] = c /\ working[t] # c => ReplacedAsRead(c, working[t], run[c].held)
<1>1. Sessions(c) /\ ShownMemory(c) BY DEF SessionInv
<1>2. t # "none" BY ScopesAssumption DEF Scopes
<1>3. ASSUME run[c].pc = "apply", run[c].task = t, Holding(c)
      PROVE  Kept(c, memory[t], run[c].shown) /\ (run[c].agent = "questioner" => Kept(c, working[t], run[c].held))
  BY <1>1, <1>2, <1>3 DEF Holding, Sessions, ShownMemory, Reading, Committing
<1>4. \A text, shown : Kept(c, text, shown) => ReplacedAsRead(c, text, shown) BY DEF Kept, ReplacedAsRead
<1>5. QED BY <1>3, <1>4, WhoReplaces

(* MemoryReplacedAsRead: whatever runs, releases of tasks and ends of        *)
(* processes interleave, no run replaces a memory or a questioner context    *)
(* that another session has written since it read it.                        *)
THEOREM MemoryIsReplacedAsRead == Spec => MemoryReplacedAsRead
<1> DEFINE Inv == SessionInv /\ GraphInv /\ LockInv /\ OnceInv /\ RegistrationInv /\ ContractInv
           Step == [\A c \in Calls, t \in Tasks :
                      /\ memory'[t] = c /\ memory[t] # c => ReplacedAsRead(c, memory[t], run[c].shown)
                      /\ working'[t] = c /\ working[t] # c => ReplacedAsRead(c, working[t], run[c].held)]_<<memory, working, run>>
<1>1. Init => Inv BY SessionInit, GraphInit, LockInit, OnceInit, RegistrationInit, ContractInit
<1>2. Inv /\ [Next]_vars => Inv' BY SessionStep, GraphStep, LockStep, OnceStep, RegistrationStep, ContractStep
<1>3. Inv /\ [Next]_vars => Step BY ReplacedByItsSession
<1>4. QED
  <2> HIDE DEF Inv
  <2>1. QED BY <1>1, <1>2, <1>3, PTL DEF Spec, MemoryReplacedAsRead

-----------------------------------------------------------------------------
(* Records.  Their times have a bound, their ids are their own, and none is  *)
(* ever lost.                                                                *)
LEMMA Greatest ==
  ASSUME NEW S \in SUBSET Nat, S # {}, NEW b \in Nat, \A n \in S : n <= b
  PROVE  \E n \in S : \A m \in S : m <= n
<1> DEFINE T == {b - n : n \in S}
<1>1. T \in SUBSET Nat /\ T # {}
  <2>1. \A n \in S : n \in Nat /\ b - n \in Nat OBVIOUS
  <2>2. QED BY <2>1
<1>2. PICK x \in T : \A y \in T : ~(<<y, x>> \in OpToRel(<, Nat))
  BY <1>1, NatLessThanWellFounded, WFMin
<1>3. \A y \in T : ~(y < x) BY <1>1, <1>2 DEF OpToRel
<1>4. PICK n \in S : x = b - n BY <1>2
<1>5. ASSUME NEW m \in S PROVE m <= n BY <1>3, <1>4
<1>6. QED BY <1>5

Stamped(r) == r \in [kind : {"research", "work", "report"}, at : Nat, id : Ids]
RecordsInv ==
  /\ DOMAIN records = Tasks
  /\ \A t \in Tasks : \A r \in records[t] : Stamped(r)
  /\ \A t \in Tasks : \A r, s \in records[t] : r.id = s.id => r = s
  /\ \E b \in Nat : \A t \in Tasks : \A r \in records[t] : r.at <= b
Grow == \A t \in Tasks : records[t] \subseteq records'[t]

(* The first reports are of a bounded time, with ids of their own.           *)
LEMMA RecordsInit == Init => RecordsInv
<1> SUFFICES ASSUME Init PROVE RecordsInv OBVIOUS
<1>1. PICK installed \in BOOLEAN : RunInit(installed) BY DEF Init
<1>2. CASE ~installed BY <1>1, <1>2 DEF RunInit, RecordsInv
<1>3. CASE installed
  <2>1. records = FirstReports BY <1>1, <1>3, ReportsAssumption DEF RunInit
  <2>2. \A t \in Tasks : \A r \in records[t] : Stamped(r) BY <2>1, ReportsAssumption DEF Stamped
  <2> DEFINE first == UNION {FirstReports[t] : t \in Tasks}
  <2>3. \E b \in Nat : \A t \in Tasks : \A r \in records[t] : r.at <= b
    <3>1. CASE first = {}
      <4>1. \A t \in Tasks : records[t] = {} BY <2>1, <3>1
      <4>2. QED BY <4>1
    <3>2. CASE first # {}
      <4>1. PICK r \in first : \A s \in first : s.at <= r.at BY <3>2, ReportsAssumption
      <4>2. r.at \in Nat BY <2>1, <2>2 DEF Stamped
      <4>3. QED BY <2>1, <4>1, <4>2
    <3>3. QED BY <3>1, <3>2
  <2>4. QED BY <2>1, <2>2, <2>3, ReportsAssumption DEF RecordsInv
<1>4. QED BY <1>2, <1>3

(* A record is saved with an unused id and a time not before any other.      *)
LEMMA SavesRecord ==
  ASSUME RecordsInv, NEW c \in Calls, run[c].task \in Tasks, NEW kind \in {"research", "work", "report"},
         SaveRunArtifact(c, kind)
  PROVE  RecordsInv' /\ Grow
<1> DEFINE t == run[c].task
<1>1. PICK b \in Nat : \A u \in Tasks : \A r \in records[u] : r.at <= b BY DEF RecordsInv
<1>2. PICK at \in Stamps, id \in Unused :
        records' = [records EXCEPT ![t] = @ \cup {[kind |-> kind, at |-> at, id |-> id]}]
  BY DEF SaveRunArtifact
<1> DEFINE r == [kind |-> kind, at |-> at, id |-> id]
<1>3. at \in Nat /\ at <= b + 2
  <2>1. Clock \in SUBSET Nat /\ Clock # {} /\ \A n \in Clock : n <= b + 1
    BY <1>1 DEF Clock, RecordsInv, Stamped
  <2>2. \E now \in Clock : \A m \in Clock : m <= now
    <3>1. b + 1 \in Nat OBVIOUS
    <3>2. QED BY <2>1, <3>1, Greatest
  <2>3. \E now \in Clock : \A m \in Clock : now >= m BY <2>1, <2>2
  <2> DEFINE now == CHOOSE n \in Clock : \A m \in Clock : n >= m
  <2>4. now \in Clock BY <2>3
  <2> HIDE DEF now
  <2>5. now \in Nat /\ now <= b + 1 BY <2>1, <2>4
  <2>6. at \in {now, now + 1} BY <1>2 DEF Stamps, now
  <2>7. QED BY <2>5, <2>6
<1>4. id \in Ids /\ \A u \in Tasks : \A s \in records[u] : s.id # id BY <1>2 DEF Unused
<1>5. Stamped(r) BY <1>3, <1>4 DEF Stamped
<1>6. \A u \in Tasks : records'[u] = IF u = t THEN records[u] \cup {r} ELSE records[u]
  BY <1>2 DEF RecordsInv
<1>7. r.id = id /\ r.at = at OBVIOUS
<1> HIDE DEF r
<1>8. Grow BY <1>6 DEF Grow
<1>9. DOMAIN records' = Tasks BY <1>2 DEF RecordsInv
<1>10. \A u \in Tasks : \A s \in records'[u] : Stamped(s) /\ s.at <= b + 2
  <2>1. \A u \in Tasks : \A s \in records[u] : s.at \in Nat /\ s.at <= b BY <1>1 DEF RecordsInv, Stamped
  <2>2. \A u \in Tasks : \A s \in records[u] : s.at <= b + 2 BY <2>1
  <2>3. QED BY <1>3, <1>5, <1>6, <1>7, <2>2 DEF RecordsInv
<1>11. \A u \in Tasks : \A s, q \in records'[u] : s.id = q.id => s = q
  <2>1. \A u \in Tasks : \A s, q \in records[u] : s.id = q.id => s = q BY DEF RecordsInv
  <2> HIDE DEF t, RecordsInv
  <2>2. QED BY <1>4, <1>6, <1>7, <2>1
<1>12. \A u \in Tasks : \A s \in records'[u] : Stamped(s)' BY <1>10 DEF Stamped
<1>13. QED BY <1>8, <1>9, <1>10, <1>11, <1>12 DEF RecordsInv

(* Every step keeps the records, and their ids their own.                    *)
LEMMA RecordsStep ==
  RecordsInv /\ LockInv /\ ContractInv /\ [Next]_vars => RecordsInv' /\ Grow
<1> SUFFICES ASSUME RecordsInv, LockInv, ContractInv, [Next]_vars PROVE RecordsInv' /\ Grow OBVIOUS
<1>1. ASSUME UNCHANGED records PROVE RecordsInv' /\ Grow BY <1>1 DEF RecordsInv, Grow, Stamped
<1>2. ASSUME NEW c \in Calls, SaveRecord(c) PROVE RecordsInv' /\ Grow
  <2>1. run[c].agent \in {"researcher", "coder"} /\ run[c].task \in Tasks \cup {"none"}
    BY <1>2 DEF SaveRecord, LockInv, Placed
  <2>2. Kinds[run[c].agent] \in {"research", "work", "report"} BY <2>1 DEF Kinds
  <2>3. QED BY <1>1, <1>2, <2>1, <2>2, SavesRecord DEF SaveRecord
<1>3. ASSUME NEW c \in Calls, SaveReviewerReport(c) PROVE RecordsInv' /\ Grow
  <2>1. run[c].task \in Tasks BY <1>3 DEF SaveReviewerReport, LockInv, Placed, ActiveRequired
  <2>2. QED BY <1>3, <2>1, SavesRecord DEF SaveReviewerReport
<1>4. ASSUME NEW c \in Calls, RunStep(c), ~SaveRecord(c), ~SaveReviewerReport(c) PROVE UNCHANGED records
  <2>1. BuildsContext(c) => UNCHANGED records BY ContextFields
  <2>2. QED
    BY <1>4, <2>1 DEF RunStep, BuildsContext, Reopen, Started, Invoke, InvokeOnProject, UserCompletes, runVars, ForceRelease,
       OpenTaskSession, BindTask, InvokeAfterOpening, CaptureFence, Commit, CheckFields, ApplyExaminerIntent,
       SaveQuestionerContext, SaveDraft, MarkCompleted
<1>5. QED BY <1>1, <1>2, <1>3, <1>4 DEF Next, vars, runVars, Crash

(* Of the records of one kind the newest exists: with the latest time, and of*)
(* those of that time with the greatest id.                                  *)
LEMMA NewestExists ==
  ASSUME RecordsInv, NEW t \in Tasks, NEW kind, OfKind(t, kind) # {}
  PROVE  LET n == Newest(OfKind(t, kind)) IN n \in OfKind(t, kind) /\ \A s \in OfKind(t, kind) : s.at <= n.at
<1> DEFINE R == OfKind(t, kind)
<1>1. /\ \A r \in R : r.at \in Nat /\ r.id \in Nat /\ r.id \in Ids
      /\ \A r, s \in R : r.id = s.id => r = s
  BY IdsAssumption DEF OfKind, RecordsInv, Stamped
<1>2. PICK b \in Nat : \A r \in R : r.at <= b BY DEF OfKind, RecordsInv
<1>3. PICK last \in Nat : \A id \in Ids : id <= last BY IdsAssumption
<1> HIDE DEF R
<1>4. R # {} BY DEF R
<1> DEFINE A == {r.at : r \in R}
<1>5. A \in SUBSET Nat /\ A # {} /\ \A n \in A : n <= b BY <1>1, <1>2, <1>4
<1>6. PICK at \in A : \A n \in A : n <= at
  <2> HIDE DEF A
  <2>1. QED BY <1>5, Greatest
<1> DEFINE I == {r.id : r \in {q \in R : q.at = at}}
<1>7. I \in SUBSET Nat /\ I # {} /\ \A n \in I : n <= last BY <1>1, <1>3, <1>6
<1>8. PICK id \in I : \A n \in I : n <= id
  <2> HIDE DEF I
  <2>1. QED BY <1>7, Greatest
<1>9. PICK r \in R : r.at = at /\ r.id = id BY <1>8
<1>10. ASSUME NEW s \in R \ {r} PROVE Later(r, s)
  <2>1. s.at <= r.at /\ s.at \in Nat /\ r.at \in Nat BY <1>1, <1>6, <1>9, <1>10
  <2>2. CASE s.at = r.at
    <3>1. s.id <= r.id /\ s.id # r.id /\ s.id \in Nat /\ r.id \in Nat BY <1>1, <1>8, <1>9, <1>10, <2>2
    <3>2. QED BY <2>2, <3>1 DEF Later
  <2>3. QED BY <2>1, <2>2 DEF Later
<1> DEFINE n == CHOOSE q \in R : \A s \in R \ {q} : Later(q, s)
<1>11. n \in R /\ \A s \in R \ {n} : Later(n, s) BY <1>10
<1>12. n = Newest(R) BY <1>4 DEF Newest
<1> HIDE DEF n
<1>13. \A s \in R : s.at <= n.at BY <1>1, <1>11 DEF Later
<1>14. QED BY <1>11, <1>12, <1>13 DEF R

-----------------------------------------------------------------------------
(* What a run was shown of the records of its task: of every kind it has read*)
(* all that were there when it began.                                        *)
Shows(r) == r.pc \in {"context", "commit"} \cup Committing
Whole(c) ==
  LET t == run[c].task IN
  /\ run[c].seen \subseteq (IF t \in Tasks THEN records[t] ELSE {})
  /\ run[c].pc = "context" => run[c].todo \subseteq Sections(run[c].agent, t # "none")
  /\ Shows(run[c]) /\ t \in Tasks =>
       /\ run[c].known \subseteq records[t]
       /\ status[t] # "archived" =>
            \A r \in run[c].known : r.kind \in Sections(run[c].agent, TRUE) \ run[c].todo =>
               IF r.kind = "report" THEN r.at <= run[c].report.at ELSE r \in run[c].seen
WholeInv == \A c \in Calls : Whole(c)

(* At first no run was shown anything.                                       *)
LEMMA WholeInit == Init => WholeInv
<1> SUFFICES ASSUME Init, NEW c \in Calls PROVE Whole(c) BY DEF WholeInv
<1>1. run[c].pc = "idle" /\ run[c].seen = {} BY DEF Init, RunInit, NotRunning
<1>2. QED BY <1>1 DEF Whole, Shows, Committing

(* A run that does not move was shown no less as records are added.          *)
LEMMA WholeStays ==
  ASSUME NEW c, Whole(c), Grows, Grow, run'[c] = run[c]
  PROVE  Whole(c)'
<1>1. \A t \in Tasks : records[t] \subseteq records'[t] /\ (status'[t] # "archived" => status[t] # "archived")
  BY DEF Grow, Grows
<1>2. run'[c].seen \subseteq (IF run'[c].task \in Tasks THEN records'[run'[c].task] ELSE {})
  BY <1>1 DEF Whole
<1>3. QED BY <1>1, <1>2 DEF Whole, Shows

(* A step of one run takes nothing from what the others were shown.          *)
LEMMA OneWhole ==
  ASSUME WholeInv, ContractInv, Grows, Grow, NEW c \in Calls, run' = [run EXCEPT ![c] = run'[c]], Whole(c)'
  PROVE  WholeInv'
BY WholeStays DEF WholeInv, ContractInv, RunsWithin

(* A run that reads its context is shown all that is there of a kind.        *)
LEMMA ReadsWhole ==
  ASSUME WholeInv, RecordsInv, LockInv, ContractInv, NEW c \in Calls, BuildsContext(c)
  PROVE  Whole(c)'
<1> DEFINE t == run[c].task
<1>1. /\ run[c].pc = "context" /\ UNCHANGED <<status, place, records>>
      /\ \/ run'[c] = Refused
         \/ (\A f \in Steady : run'[c][f] = run[c][f]) /\ run'[c].todo \subseteq run[c].todo
  BY ContextFields DEF regVars
<1>2. CASE run'[c] = Refused
  <2>1. run'[c].pc = "failed" /\ run'[c].seen = {} BY <1>2 DEF Refused, NotRunning
  <2>2. QED BY <2>1 DEF Whole, Shows, Committing
<1>3. CASE run'[c] # Refused
  <2>1. /\ run'[c].pc = "context" /\ run'[c].task = t /\ run'[c].agent = run[c].agent /\ run'[c].known = run[c].known
        /\ run'[c].todo \subseteq run[c].todo /\ ReadsSeen(c) /\ ReadsReport(c)
    BY <1>1, <1>3, ContextDetail DEF Steady
  <2>2. Whole(c) /\ Placed(c) BY DEF WholeInv, LockInv
  <2>3. run'[c].todo \subseteq Sections(run[c].agent, t # "none") BY <1>1, <2>1, <2>2 DEF Whole
  <2>4. ASSUME NEW kind \in {"research", "work", "report"}, kind \in run[c].todo PROVE t \in Tasks
    <3>1. kind \in Sections(run[c].agent, t # "none") BY <1>1, <2>2, <2>4 DEF Whole
    <3>2. ActiveRequired(run[c].agent) BY <3>1 DEF Sections, ActiveRequired
    <3>3. QED BY <2>2, <3>2 DEF Placed
  <2>5. ASSUME NEW kind, NEW found \in FoundOfKind(c, kind), t \in Tasks
        PROVE  found \subseteq records[t] /\ (status[t] # "archived" => found = OfKind(t, kind))
    BY <2>5 DEF FoundOfKind, Lookup, OfKind, LockInv
  <2>6. run'[c].seen \subseteq (IF t \in Tasks THEN records[t] ELSE {})
    <3>1. CASE run'[c].seen = run[c].seen BY <2>2, <3>1 DEF Whole
    <3>2. CASE run'[c].seen # run[c].seen
      <4>1. PICK kind \in {"research", "work"} : \E found \in FoundOfKind(c, kind) :
                kind \in run[c].todo /\ run'[c].seen = run[c].seen \cup found
        BY <2>1, <3>2 DEF ReadsSeen
      <4>2. CASE t \in Tasks BY <2>2, <2>5, <4>1, <4>2 DEF Whole
      <4>3. CASE t \notin Tasks
        <5>1. kind \notin run[c].todo BY <2>4, <4>3
        <5>2. QED BY <4>1, <5>1
      <4>4. QED BY <4>2, <4>3
    <3>3. QED BY <3>1, <3>2
  <2>7. ASSUME t \in Tasks, status[t] # "archived", NEW r \in run[c].known,
               r.kind \in Sections(run[c].agent, TRUE) \ run'[c].todo
        PROVE  IF r.kind = "report" THEN r.at <= run'[c].report.at ELSE r \in run'[c].seen
    <3>1. /\ run[c].known \subseteq records[t]
          /\ r.kind \notin run[c].todo => IF r.kind = "report" THEN r.at <= run[c].report.at ELSE r \in run[c].seen
      BY <1>1, <2>2, <2>7 DEF Whole, Shows
    <3>2. r \in OfKind(t, r.kind) /\ r.kind \in {"research", "work", "report"}
      BY <2>7, <3>1 DEF OfKind, RecordsInv, Stamped
    <3>3. CASE r.kind = "report"
      <4>1. CASE "report" \in run[c].todo
        <5>1. PICK found \in FoundOfKind(c, "report") : run'[c].report = Newest(found)
          BY <2>1, <2>7, <3>3, <4>1 DEF ReadsReport
        <5>2. found = OfKind(t, "report") BY <2>5, <2>7, <5>1
        <5>3. QED BY <2>7, <3>2, <3>3, <5>1, <5>2, NewestExists
      <4>2. CASE "report" \notin run[c].todo BY <2>1, <3>1, <3>3, <4>2 DEF ReadsReport
      <4>3. QED BY <4>1, <4>2
    <3>4. CASE r.kind # "report"
      <4>1. r.kind \in {"research", "work"} BY <3>2, <3>4
      <4>2. run[c].seen \subseteq run'[c].seen BY <2>1 DEF ReadsSeen
      <4>3. CASE r.kind \notin run[c].todo BY <3>1, <3>4, <4>2, <4>3
      <4>4. CASE r.kind \in run[c].todo
        <5>1. PICK kind \in {"research", "work"} : \E found \in FoundOfKind(c, kind) :
                run'[c].todo = run[c].todo \ {kind} /\ run'[c].seen = run[c].seen \cup found
          BY <2>1, <2>7, <4>1, <4>4 DEF ReadsSeen
        <5>2. kind = r.kind BY <2>7, <4>4, <5>1
        <5>3. QED BY <2>5, <2>7, <3>2, <3>4, <5>1, <5>2
      <4>5. QED BY <4>3, <4>4
    <3>5. QED BY <3>3, <3>4
  <2>8. (\A r \in run[c].known : t \in Tasks => r \in records[t]) BY <1>1, <2>2 DEF Whole, Shows
  <2>9. QED BY <1>1, <2>1, <2>3, <2>6, <2>7, <2>8 DEF Whole
<1>4. QED BY <1>2, <1>3

(* The steps of the runs.                                                    *)
LEMMA RunWhole ==
  ASSUME WholeInv, RecordsInv, SessionInv, LockInv, OnceInv, ContractInv, Grows, Grow, NEW c \in Calls, RunStep(c), ~UserCompletes(c)
  PROVE  Whole(c)'
<1>0. Whole(c) /\ Placed(c) BY DEF WholeInv, LockInv
(* Nothing was shown to a run that is over, or has not begun.                *)
<1>1. ASSUME run'[c].seen = {}, ~Shows(run'[c]) PROVE Whole(c)' BY <1>1 DEF Whole, Shows
<1>2. ASSUME NEW pc, RunGoto(c, pc), pc \in Settled PROVE Whole(c)'
  <2>1. run'[c].pc = pc /\ run'[c].seen = {} BY <1>2, GotoFields
  <2>2. QED BY <1>1, <1>2, <2>1 DEF Shows, Settled, Committing
<1>3. ASSUME NEW pc, RunGoto(c, pc), pc \in {"open", "bind", "bound", "commit", "apply", "save", "complete"},
             pc \in {"open", "bind", "bound"} \/ Shows(run[c])
      PROVE  Whole(c)'
  <2>1. run'[c].pc = pc /\ \A f \in RunFields \ {"pc"} : run'[c][f] = run[c][f] BY <1>3, GotoFields DEF Settled
  <2>2. /\ run'[c].task = run[c].task /\ run'[c].agent = run[c].agent /\ run'[c].seen = run[c].seen
        /\ run'[c].known = run[c].known /\ run'[c].todo = run[c].todo /\ run'[c].report = run[c].report
    BY <2>1 DEF RunFields
  <2>3. \A t \in Tasks : records[t] \subseteq records'[t] /\ (status'[t] # "archived" => status[t] # "archived")
    BY DEF Grow, Grows
  <2>4. run'[c].seen \subseteq (IF run'[c].task \in Tasks THEN records'[run'[c].task] ELSE {})
    BY <1>0, <2>2, <2>3 DEF Whole
  <2>5. CASE pc \in {"open", "bind", "bound"} BY <2>1, <2>4, <2>5 DEF Whole, Shows, Committing
  <2>6. CASE Shows(run[c]) BY <1>0, <1>3, <2>1, <2>2, <2>3, <2>4, <2>6 DEF Whole
  <2>7. QED BY <1>3, <2>5, <2>6
(* A run that begins has read nothing yet, and what it knows is what is there.*)
<1>4. ASSUME NEW agent, NEW t \in Tasks \cup {"none"}, NEW session, run'[c] = Begun(agent, t, session), UNCHANGED records
      PROVE  Whole(c)'
  <2>1. /\ run'[c].pc = "context" /\ run'[c].agent = agent /\ run'[c].task = t /\ run'[c].seen = {}
        /\ run'[c].todo = Sections(agent, t # "none") /\ run'[c].known = (IF t = "none" THEN {} ELSE records[t])
    BY <1>4, BegunFields
  <2>2. t \in Tasks => t # "none" BY ScopesAssumption DEF Scopes
  <2>3. t \in Tasks => run'[c].todo = Sections(agent, TRUE) BY <2>1, <2>2
  <2>4. QED BY <1>4, <2>1, <2>2, <2>3 DEF Whole
<1>5. CASE Reopen(c)
  <2>1. PICK t \in Tasks : Started(c, [NotRunning EXCEPT !.pc = "release", !.task = t]) BY <1>5 DEF Reopen
  <2>2. run'[c] = [NotRunning EXCEPT !.pc = "release", !.task = t] BY <2>1, StartedFields
  <2>3. run'[c].pc = "release" /\ run'[c].seen = {} BY <2>2 DEF NotRunning
  <2>4. QED BY <1>1, <2>3 DEF Shows, Committing
<1>6. CASE Invoke(c)
  <2>1. PICK agent \in RunAgents, t \in Tasks : Started(c, Begun(agent, t, owner[t])) BY <1>6 DEF Invoke
  <2>2. QED BY <1>4, <2>1, StartedFields
<1>7. CASE InvokeOnProject(c)
  <2>1. PICK agent : Started(c, Begun(agent, "none", c)) BY <1>7 DEF InvokeOnProject
  <2>2. QED BY <1>4, <2>1, StartedFields
<1>8. CASE InvokeAfterOpening(c)
  <2>1. PICK agent : run' = [run EXCEPT ![c] = Begun(agent, run[c].task, c)] BY <1>8 DEF InvokeAfterOpening
  <2>2. run'[c] = Begun(agent, run[c].task, c) /\ UNCHANGED records
    BY <1>8, <2>1 DEF InvokeAfterOpening, ContractInv, RunsWithin
  <2>3. QED BY <1>0, <1>4, <2>2 DEF Placed
<1>9. CASE ForceRelease(c) \/ OpenTaskSession(c) \/ BindTask(c)
  <2>1. PICK pc \in {"open", "bind", "bound", "failed"} : RunGoto(c, pc)
    BY <1>9 DEF ForceRelease, OpenTaskSession, BindTask
  <2>2. QED BY <1>2, <1>3, <2>1 DEF Settled
<1>10. CASE CaptureFence(c) \/ Commit(c) \/ CheckFields(c)
  <2>1. PICK pc \in {"apply", "commit", "save", "failed"} : RunGoto(c, pc) BY <1>10 DEF CaptureFence, Commit, CheckFields
  <2>2. Shows(run[c]) BY <1>10 DEF CaptureFence, Commit, CheckFields, Shows, Committing
  <2>3. QED BY <1>2, <1>3, <2>1, <2>2 DEF Settled
<1>11. CASE SaveReviewerReport(c)
  <2>1. PICK pc \in {"complete", "ended"} : RunGoto(c, pc) BY <1>11 DEF SaveReviewerReport
  <2>2. Shows(run[c]) BY <1>11 DEF SaveReviewerReport, Shows, Committing
  <2>3. QED BY <1>2, <1>3, <2>1, <2>2 DEF Settled
<1>12. CASE ApplyExaminerIntent(c) \/ SaveRecord(c) \/ SaveQuestionerContext(c) \/ SaveDraft(c) \/ MarkCompleted(c)
  <2>1. RunGoto(c, "ended") BY <1>12 DEF ApplyExaminerIntent, SaveRecord, SaveQuestionerContext, SaveDraft, MarkCompleted
  <2>2. QED BY <1>2, <2>1 DEF Settled
<1>13. CASE BuildsContext(c) BY <1>13, ReadsWhole
<1>14. QED BY <1>5, <1>6, <1>7, <1>8, <1>9, <1>10, <1>11, <1>12, <1>13 DEF RunStep, BuildsContext

(* Every step keeps what the runs were shown whole.                          *)
LEMMA WholeStep ==
  WholeInv /\ RecordsInv /\ SessionInv /\ GraphInv /\ LockInv /\ OnceInv /\ ContractInv /\ [Next]_vars => WholeInv'
<1> SUFFICES ASSUME WholeInv, RecordsInv, SessionInv, GraphInv, LockInv, OnceInv, ContractInv, [Next]_vars
             PROVE  WholeInv'
  OBVIOUS
<1>0. Grows /\ Grow BY NextGrows, RecordsStep
<1>1. ASSUME UNCHANGED run PROVE WholeInv' BY <1>0, <1>1, WholeStays DEF WholeInv
<1>2. ASSUME NEW c \in Calls, RunStep(c) PROVE WholeInv'
  <2>1. CASE UserCompletes(c) BY <1>1, <2>1 DEF UserCompletes, runVars
  <2>2. CASE ~UserCompletes(c) BY <1>0, <1>2, <2>2, RunnersDoNoWork, RunWhole, OneWhole
  <2>3. QED BY <2>1, <2>2
<1>3. ASSUME NEW c \in Calls, Crash(c) PROVE WholeInv'
  <2>1. CASE RunGoto(c, "crashed")
    <3>1. run' = [run EXCEPT ![c] = run'[c]] /\ run'[c].pc = "crashed" /\ run'[c].seen = {}
      BY <2>1, GotoFields DEF Settled
    <3>2. Whole(c)' BY <3>1 DEF Whole, Shows, Committing
    <3>3. QED BY <1>0, <3>1, <3>2, OneWhole
  <2>2. CASE ~RunGoto(c, "crashed") BY <1>1, <1>3, <2>2, CrashShape DEF RunDies, runVars
  <2>3. QED BY <2>1, <2>2
<1>4. QED BY <1>1, <1>2, <1>3 DEF Next, vars, runVars

(* A run whose result counts holds the lock, so its task is not archived and *)
(* all it was to read has been read.                                         *)
LEMMA ShownWhole == WholeInv /\ RecordsInv /\ SessionInv /\ LockInv => ContextWhole
<1> SUFFICES ASSUME WholeInv, SessionInv, LockInv, NEW c \in Calls, run[c].pc \in Committing, run[c].task # "none"
             PROVE  LET shown == Sections(run[c].agent, TRUE) IN
                    /\ \A r \in run[c].known : r.kind \in shown \ {"report"} => r \in run[c].seen
                    /\ "report" \in shown => \A r \in run[c].known : r.kind = "report" => r.at <= run[c].report.at
  BY DEF ContextWhole, Committing
<1>1. Whole(c) /\ Holding(c) /\ Placed(c) /\ Sessions(c) BY DEF WholeInv, LockInv, SessionInv
<1>2. run[c].task \in Tasks /\ run[c].todo = {} /\ status[run[c].task] # "archived" /\ Shows(run[c])
  BY <1>1 DEF Placed, Sessions, Holding, Shows
<1>3. QED BY <1>1, <1>2 DEF Whole

(* ContextWhole: a run whose result counts was shown every record that its   *)
(* task held when it began, and as the newest report no older one, for any   *)
(* runs, records and archives at a time.                                     *)
THEOREM ContextIsWhole == Spec => []ContextWhole
<1> DEFINE Inv == /\ WholeInv /\ RecordsInv /\ SessionInv /\ GraphInv /\ LockInv /\ OnceInv
                  /\ RegistrationInv /\ ContractInv
<1>1. Init => Inv
  BY WholeInit, RecordsInit, SessionInit, GraphInit, LockInit, OnceInit, RegistrationInit, ContractInit
<1>2. Inv /\ [Next]_vars => Inv'
  BY WholeStep, RecordsStep, SessionStep, GraphStep, LockStep, OnceStep, RegistrationStep, ContractStep
<1>3. Inv => ContextWhole BY ShownWhole
<1>4. QED
  <2> HIDE DEF Inv
  <2>1. QED BY <1>1, <1>2, <1>3, PTL DEF Spec

-----------------------------------------------------------------------------
(* The types of the documents.  A call that writes an entry was asked for one*)
(* of its document, and a copy in flight is one of the document it was read  *)
(* from.                                                                     *)
Text(d) == [state : {"ok", "absent", "torn", "invalid"}, at : [Keys(d) -> Entries(d)], form : {"plain", "canonical", "hand"}]
Texts == UNION {Text(d) : d \in Documents}
Asked(e) == e.doc \in Editable /\ e.key \in Keys(e.doc) /\ e.val \in Entries(e.doc)
Ops == {"none", "page", "save", "rule", "install", "seed", "hand"}
Fits(op, pc) ==
  /\ pc \in {"agents", "ensure", "fill"} => op \in {"page", "save", "rule", "install", "seed"}
  /\ pc \in {"show", "open"} => op = "page"
  /\ pc = "check" => op = "save"
  /\ pc \in {"read", "write"} => op \in {"save", "rule"}
Editing == {"agents", "ensure", "fill", "show", "open", "check", "read", "write"}
EditTyped(e) ==
  /\ e.op \in Ops /\ e.digest \in Seq(Texts) /\ Fits(e.op, e.pc)
  /\ e.op \in {"page", "save", "rule"} /\ e.pc \in Editing => Asked(e)
  /\ e.pc = "write" => e.base \in Text(e.doc)
  /\ e.pc = "rewrite" => e.base \in Text(Managed[e.i])
DocsTyped == \A d \in Documents : docs[d] \in Text(d)
ConfTyped ==
  /\ DocsTyped /\ \A c \in Calls : EditTyped(edit[c])
  /\ slipped \in [Calls -> BOOLEAN] /\ byHand \in BOOLEAN

(* The entries a document starts with are entries of it.                     *)
LEMMA FirstTyped == \A d \in Documents : Initial(d) \in [Keys(d) -> Entries(d)] /\ Blank(d) \in [Keys(d) -> Entries(d)]
BY DEF Initial, Blank, Keys, Entries, Documents, RuleDocs, Decisions, AgentEntries, BehaviorEntries

(* What the managers write of a document is one.                             *)
LEMMA DocumentTyped ==
  ASSUME NEW d \in Documents
  PROVE  /\ \A at \in [Keys(d) -> Entries(d)], form \in {"plain", "canonical", "hand"} : Document(at, form) \in Text(d)
         /\ \A state \in {"absent", "torn", "invalid"} : Empty(d, state) \in Text(d)
BY FirstTyped DEF Document, Empty, Text

(* A call that is over asks for nothing.                                     *)
LEMMA EndTyped == ASSUME NEW c \in Calls, EditTyped(edit[c]), NEW pc \in Over PROVE EditTyped(Ended(c, pc))
<1>1. <<>> \in Seq(Texts) OBVIOUS
<1>2. /\ Ended(c, pc).pc = pc /\ Ended(c, pc).op = edit[c].op /\ Ended(c, pc).digest = <<>> BY DEF Ended, Idle
<1>3. QED BY <1>1, <1>2 DEF EditTyped, Over, Fits, Editing

(* The documents of a machine, installed or not, are typed.                  *)
LEMMA ConfTypedInit == Init => ConfTyped
<1> SUFFICES ASSUME Init PROVE ConfTyped OBVIOUS
<1>1. PICK installed \in BOOLEAN : ConfInit(installed) BY DEF Init
<1>2. ASSUME NEW c \in Calls PROVE EditTyped(edit[c])
  <2>1. <<>> \in Seq(Texts) OBVIOUS
  <2>2. edit[c].op = "none" /\ edit[c].pc = "idle" /\ edit[c].digest = <<>> BY <1>1 DEF ConfInit, Idle
  <2>3. QED BY <2>1, <2>2 DEF EditTyped, Fits, Editing, Ops
<1>3. ASSUME NEW d \in Documents PROVE docs[d] \in Text(d)
  BY <1>1, FirstTyped, DocumentTyped DEF ConfInit
<1>4. slipped \in [Calls -> BOOLEAN] /\ byHand \in BOOLEAN BY <1>1 DEF ConfInit
<1>5. QED BY <1>2, <1>3, <1>4 DEF ConfTyped, DocsTyped

(* What a call writes is typed if the document is; so is what others do.     *)
LEMMA PutTyped ==
  ASSUME ConfTyped, ContractInv, NEW c \in Calls, NEW d \in Documents, NEW doc \in Text(d), Put(c, d, doc)
  PROVE  DocsTyped' /\ slipped' \in [Calls -> BOOLEAN]
<1>1. DocsTyped' BY DEF Put, ConfTyped, DocsTyped, ContractInv, DocsWithin, Text
<1>2. QED BY <1>1 DEF Put, Slips, ConfTyped

(* One call changes at a time.                                               *)
LEMMA OneTyped ==
  ASSUME ConfTyped, ContractInv, NEW c \in Calls, NEW e, edit' = [edit EXCEPT ![c] = e], EditTyped(e),
         DocsTyped', slipped' \in [Calls -> BOOLEAN], byHand' \in BOOLEAN
  PROVE  ConfTyped'
<1>1. \A x \in Calls : EditTyped(edit'[x]) BY DEF ConfTyped, ContractInv, EditsWithin
<1>2. QED BY <1>1 DEF ConfTyped, EditTyped, Texts

(* Where nothing is written the documents stay typed.                        *)
LEMMA DiskTyped == ASSUME ConfTyped, StaysOnDisk PROVE DocsTyped' /\ slipped' \in [Calls -> BOOLEAN]
BY DEF ConfTyped, DocsTyped, StaysOnDisk

(* A call that goes on keeps what it was asked for.                          *)
LEMMA GotoTyped ==
  ASSUME ConfTyped, ContractInv, NEW c \in Calls, NEW pc, Goto(c, pc), Fits(edit[c].op, pc), pc \notin {"write", "rewrite"},
         edit[c].pc \in Editing,
         DocsTyped', slipped' \in [Calls -> BOOLEAN], byHand' \in BOOLEAN
  PROVE  ConfTyped'
<1>0. DOMAIN edit[c] = EditFields /\ EditTyped(edit[c]) BY DEF ConfTyped, ContractInv, EditsWithin, EditWithin
<1>1. CASE pc \in Over BY <1>0, <1>1, EndTyped, OneTyped DEF Goto
<1>2. CASE pc \notin Over
  <2> DEFINE e == [edit[c] EXCEPT !.pc = pc]
  <2>1. e.pc = pc /\ \A f \in EditFields \ {"pc"} : e[f] = edit[c][f] BY <1>0
  <2> HIDE DEF e
  <2>2. EditTyped(e) BY <1>0, <2>1 DEF EditTyped, EditFields, Asked
  <2>3. QED BY <1>2, <2>2, OneTyped DEF Goto, e
<1>3. QED BY <1>1, <1>2

(* A call that was just begun.                                               *)
LEMMA AskedTyped ==
  ASSUME ConfTyped, ContractInv, NEW c \in Calls, NEW op \in Ops, NEW pc \in {"agents", "ensure", "ended"}, NEW d, NEW k, NEW v,
         edit' = [edit EXCEPT ![c] = [Idle EXCEPT !.op = op, !.pc = pc, !.doc = d, !.key = k, !.val = v]],
         Fits(op, pc),
         op \in {"page", "save", "rule"} => d \in Editable /\ k \in Keys(d) /\ v \in Entries(d),
         DocsTyped', slipped' \in [Calls -> BOOLEAN], byHand' \in BOOLEAN
  PROVE  ConfTyped'
<1> DEFINE e == [Idle EXCEPT !.op = op, !.pc = pc, !.doc = d, !.key = k, !.val = v]
<1>1. <<>> \in Seq(Texts) OBVIOUS
<1>2. e.op = op /\ e.pc = pc /\ e.doc = d /\ e.key = k /\ e.val = v /\ e.digest = <<>> BY DEF Idle
<1> HIDE DEF e
<1>3. EditTyped(e) BY <1>1, <1>2 DEF EditTyped, Asked
<1>4. QED BY <1>3, OneTyped DEF e

(* A page is loaded, a rule is set, for an entry of its document.            *)
LEMMA BeginTyped ==
  ASSUME ConfTyped, ContractInv, NEW c \in Calls, OpenPage(c) \/ SetRule(c)
  PROVE  ConfTyped'
<1>1. \A d \in Editable : Choices(d) \subseteq Entries(d)
  BY DEF Editable, Choices, Entries, RuleDocs, RuleChoices, AgentChoices, AgentEntries, Decisions
<1>2. CASE OpenPage(c)
  <2>1. PICK d \in Editable : \E k \in Keys(d), v \in Choices(d) : Begin(c, "page", "agents", d, k, v)
    BY <1>2 DEF OpenPage
  <2>2. PICK k \in Keys(d), v \in Choices(d) : Begin(c, "page", "agents", d, k, v) BY <2>1
  <2>3. v \in Entries(d) BY <1>1
  <2>4. /\ edit' = [edit EXCEPT ![c] = [Idle EXCEPT !.op = "page", !.pc = "agents", !.doc = d, !.key = k, !.val = v]]
        /\ StaysOnDisk /\ byHand' \in BOOLEAN
    BY <2>2 DEF Begin, NotByHand, ConfTyped
  <2>5. QED BY <2>3, <2>4, DiskTyped, AskedTyped DEF Fits, Ops
<1>3. CASE SetRule(c)
  <2>1. PICK d \in RuleDocs : \E k \in Edges, v \in Choices(d) : Begin(c, "rule", "ensure", d, k, v)
    BY <1>3 DEF SetRule
  <2>2. PICK k \in Edges, v \in Choices(d) : Begin(c, "rule", "ensure", d, k, v) BY <2>1
  <2>3. v \in Entries(d) /\ d \in Editable /\ k \in Keys(d) BY <1>1 DEF Editable, Keys
  <2>4. /\ edit' = [edit EXCEPT ![c] = [Idle EXCEPT !.op = "rule", !.pc = "ensure", !.doc = d, !.key = k, !.val = v]]
        /\ StaysOnDisk /\ byHand' \in BOOLEAN
    BY <2>2 DEF Begin, NotByHand, ConfTyped
  <2>5. QED BY <2>3, <2>4, DiskTyped, AskedTyped DEF Fits, Ops
<1>4. QED BY <1>2, <1>3

(* The documents that are created are typed.                                 *)
LEMMA SeedTyped ==
  ASSUME ConfTyped, ContractInv, NEW c \in Calls, SeedAgents(c) \/ EnsureRules(c) \/ FillRules(c)
  PROVE  ConfTyped'
<1>0. byHand' \in BOOLEAN BY DEF SeedAgents, EnsureRules, FillRules, NotByHand, ConfTyped
<1>1. edit[c].pc \in Editing /\ edit[c].op \in {"page", "save", "rule", "install", "seed"}
  BY DEF SeedAgents, EnsureRules, FillRules, ConfTyped, EditTyped, Fits, Editing
<1>2. DocsTyped' /\ slipped' \in [Calls -> BOOLEAN]
  <2>1. /\ Document(Initial("agent_config"), "plain") \in Text("agent_config")
        /\ Document(Initial("rules"), "plain") \in Text("rules") /\ Empty("rules", "torn") \in Text("rules")
        /\ {"agent_config", "rules"} \subseteq Documents
    BY FirstTyped, DocumentTyped DEF Documents, RuleDocs
  <2>2. CASE StaysOnDisk BY <2>2, DiskTyped
  <2>3. CASE ~StaysOnDisk
    <3>1. \E d \in Documents : \E doc \in Text(d) : Put(c, d, doc)
      BY <2>1, <2>3 DEF SeedAgents, EnsureRules, FillRules
    <3>2. QED BY <3>1, PutTyped
  <2>4. QED BY <2>2, <2>3
<1>3. \E pc : Goto(c, pc) /\ Fits(edit[c].op, pc) /\ pc \notin {"write", "rewrite"}
  <2>1. CASE SeedAgents(c)
    <3>1. PICK next \in {"failed", "read", "show", "ensure"} :
            Goto(c, next) /\ (next = "read" => edit[c].op = "save") /\ (next = "show" => edit[c].op = "page")
      BY <2>1 DEF SeedAgents
    <3>2. QED BY <1>1, <3>1 DEF Fits
  <2>2. CASE EnsureRules(c) \/ FillRules(c)
    <3>1. Goto(c, "fill") \/ Goto(c, AfterEnsure(edit[c].op)) BY <2>2 DEF EnsureRules, FillRules
    <3>2. QED BY <1>1, <3>1 DEF Fits, AfterEnsure
  <2>3. QED BY <2>1, <2>2
<1>4. QED BY <1>0, <1>1, <1>2, <1>3, GotoTyped

(* A digest grows by the document that is next.                              *)
LEMMA DigestTyped ==
  ASSUME ConfTyped, NEW c \in Calls, Len(edit[c].digest) < Len(Managed)
  PROVE  /\ Digested(c) \in Seq(Texts) /\ Len(edit[c].digest) \in 0..2 /\ Len(Digested(c)) = Len(edit[c].digest) + 1
         /\ \A n \in 1..Len(edit[c].digest) : Digested(c)[n] = edit[c].digest[n]
         /\ Digested(c)[Len(edit[c].digest) + 1] = docs[Managed[Len(edit[c].digest) + 1]]
<1>1. edit[c].digest \in Seq(Texts) BY DEF ConfTyped, EditTyped
<1>2. Len(Managed) = 3 BY DEF Managed
<1>3. Len(edit[c].digest) \in 0..2
  <2> DEFINE length == Len(edit[c].digest)
  <2>1. length \in Nat BY <1>1
  <2>2. length < 3 BY <1>2
  <2> HIDE DEF length
  <2>3. length \in 0..2 BY <2>1, <2>2
  <2>4. QED BY <2>3 DEF length
<1> DEFINE n == Len(edit[c].digest) + 1
<1>4. n \in 1..3 /\ Managed[n] \in Documents BY <1>3 DEF Managed, Documents, RuleDocs
<1> DEFINE doc == docs[Managed[n]]
<1>5. doc \in Texts BY <1>4 DEF ConfTyped, DocsTyped, Texts
<1> HIDE DEF doc
<1>6. QED BY <1>1, <1>3, <1>5 DEF Digested, doc

(* The steps of a page and of the check of its version.                      *)
LEMMA PageTyped ==
  ASSUME ConfTyped, ContractInv, NEW c \in Calls, Digest(c) \/ ShowAgents(c) \/ ShowRules(c) \/ Save(c) \/ CheckFresh(c)
  PROVE  ConfTyped'
<1>0. /\ byHand' \in BOOLEAN /\ DocsTyped' /\ slipped' \in [Calls -> BOOLEAN]
      /\ DOMAIN edit[c] = EditFields /\ DOMAIN edit = Calls /\ EditTyped(edit[c])
  BY DiskTyped DEF Digest, ShowAgents, ShowRules, Show, Save, CheckFresh, NotByHand, ConfTyped, ContractInv, EditsWithin, EditWithin
<1>1. ASSUME NEW e, edit' = [edit EXCEPT ![c] = e], DOMAIN e = EditFields, edit[c].pc \in Editing, edit[c].op \in {"page", "save"},
             e.op \in {"page", "save"}, Fits(e.op, e.pc), e.pc \notin {"write", "rewrite"}, e.digest \in Seq(Texts),
             e.doc = edit[c].doc, e.key = edit[c].key, e.val = edit[c].val
      PROVE  ConfTyped'
  <2>1. EditTyped(e) BY <1>0, <1>1 DEF EditTyped, Asked, Ops
  <2>2. QED BY <1>0, <1>1, <2>1, OneTyped
<1>2. CASE Digest(c)
  <2> DEFINE e == [edit[c] EXCEPT !.digest = Digested(c)]
  <2>1. edit' = [edit EXCEPT ![c] = e] /\ edit[c].op = "page" /\ edit[c].pc \in Fetching /\ Len(edit[c].digest) < Len(Managed)
    BY <1>0, <1>2 DEF Digest
  <2>2. Digested(c) \in Seq(Texts) BY <2>1, DigestTyped
  <2>3. /\ DOMAIN e = EditFields /\ e.op = edit[c].op /\ e.pc = edit[c].pc /\ e.digest = Digested(c)
        /\ e.doc = edit[c].doc /\ e.key = edit[c].key /\ e.val = edit[c].val
    BY <1>0 DEF EditFields
  <2> HIDE DEF e
  <2>4. QED BY <1>0, <1>1, <2>1, <2>2, <2>3 DEF EditTyped, Fetching, Editing
<1>3. CASE Show(c)
  <2>1. edit[c].pc = "show" /\ edit[c].op = "page" BY <1>0, <1>3 DEF Show, EditTyped, Fits
  <2>2. CASE Goto(c, "failed") BY <1>0, <2>1, <2>2, GotoTyped DEF Editing, Fits
  <2>3. CASE ~Goto(c, "failed")
    <3> DEFINE e == [edit[c] EXCEPT !.pc = "open", !.shown = docs[edit[c].doc].at[edit[c].key]]
    <3>1. edit' = [edit EXCEPT ![c] = e] BY <1>0, <1>3, <2>3 DEF Show
    <3>2. /\ DOMAIN e = EditFields /\ e.op = edit[c].op /\ e.pc = "open" /\ e.digest = edit[c].digest
          /\ e.doc = edit[c].doc /\ e.key = edit[c].key /\ e.val = edit[c].val
      BY <1>0 DEF EditFields
    <3> HIDE DEF e
    <3>3. QED BY <1>0, <1>1, <2>1, <3>1, <3>2 DEF EditTyped, Editing, Fits
  <2>4. QED BY <2>2, <2>3
<1>4. CASE Save(c)
  <2>1. edit[c].pc = "open" /\ edit[c].op = "page" BY <1>0, <1>4 DEF Save, Waiting, EditTyped, Fits
  <2> DEFINE e == [edit[c] EXCEPT !.op = "save", !.pc = "check", !.version = edit[c].digest, !.digest = <<>>]
  <2>2. edit' = [edit EXCEPT ![c] = e] BY <1>0, <1>4 DEF Save
  <2>3. /\ DOMAIN e = EditFields /\ e.op = "save" /\ e.pc = "check" /\ e.digest = <<>>
        /\ e.doc = edit[c].doc /\ e.key = edit[c].key /\ e.val = edit[c].val
    BY <1>0 DEF EditFields
  <2>4. <<>> \in Seq(Texts) OBVIOUS
  <2> HIDE DEF e
  <2>5. QED BY <1>0, <1>1, <2>1, <2>2, <2>3, <2>4 DEF Editing, Fits
<1>5. CASE CheckFresh(c)
  <2>1. edit[c].pc = "check" /\ edit[c].op = "save" BY <1>0, <1>5 DEF CheckFresh, EditTyped, Fits
  <2>2. CASE Goto(c, "refused") \/ Goto(c, "failed") BY <1>0, <2>1, <2>2, GotoTyped DEF Editing, Fits
  <2>3. CASE Len(edit[c].digest) + 1 < Len(Managed) /\ edit' = [edit EXCEPT ![c].digest = Digested(c)]
    <3> DEFINE e == [edit[c] EXCEPT !.digest = Digested(c)]
    <3>1. edit' = [edit EXCEPT ![c] = e] BY <1>0, <2>3
    <3>2. Len(edit[c].digest) \in Nat /\ Len(Managed) = 3 BY <1>0 DEF EditTyped, Managed
    <3>3. Digested(c) \in Seq(Texts) BY <2>3, <3>2, DigestTyped
    <3>4. /\ DOMAIN e = EditFields /\ e.op = edit[c].op /\ e.pc = edit[c].pc /\ e.digest = Digested(c)
          /\ e.doc = edit[c].doc /\ e.key = edit[c].key /\ e.val = edit[c].val
      BY <1>0 DEF EditFields
    <3> HIDE DEF e
    <3>5. QED BY <1>0, <1>1, <2>1, <3>1, <3>3, <3>4 DEF EditTyped, Editing
  <2>4. CASE edit' = [edit EXCEPT ![c].digest = <<>>, ![c].version = <<>>,
                                  ![c].pc = IF edit[c].doc = "agent_config" THEN "agents" ELSE "ensure"]
    <3> DEFINE e == [edit[c] EXCEPT !.digest = <<>>, !.version = <<>>,
                                    !.pc = IF edit[c].doc = "agent_config" THEN "agents" ELSE "ensure"]
    <3>1. edit' = [edit EXCEPT ![c] = e] BY <1>0, <2>4
    <3>2. /\ DOMAIN e = EditFields /\ e.op = edit[c].op /\ e.pc \in {"agents", "ensure"} /\ e.digest = <<>>
          /\ e.doc = edit[c].doc /\ e.key = edit[c].key /\ e.val = edit[c].val
      BY <1>0 DEF EditFields
    <3>3. <<>> \in Seq(Texts) OBVIOUS
    <3> HIDE DEF e
    <3>4. QED BY <1>0, <1>1, <2>1, <3>1, <3>2, <3>3 DEF Editing, Fits
  <2>5. QED BY <1>5, <2>2, <2>3, <2>4 DEF CheckFresh
<1>6. QED BY <1>2, <1>3, <1>4, <1>5 DEF ShowAgents, ShowRules

(* The document that is written is the one that was read, but for one entry. *)
LEMMA WriteTyped ==
  ASSUME ConfTyped, ContractInv, NEW c \in Calls, ReadDocument(c) \/ WriteDocument(c)
  PROVE  ConfTyped'
<1>0. DOMAIN edit[c] = EditFields /\ EditTyped(edit[c]) /\ byHand' \in BOOLEAN
  BY DEF ConfTyped, ContractInv, EditsWithin, EditWithin, ReadDocument, WriteDocument, NotByHand
<1>1. edit[c].pc \in Editing /\ edit[c].op \in {"save", "rule"} /\ Asked(edit[c])
  BY <1>0 DEF ReadDocument, WriteDocument, EditTyped, Fits, Editing
<1>2. edit[c].doc \in Documents BY <1>1 DEF Asked, Editable, Documents
<1>3. CASE ReadDocument(c)
  <2>1. DocsTyped' /\ slipped' \in [Calls -> BOOLEAN] BY <1>3, DiskTyped DEF ReadDocument
  <2>2. CASE Goto(c, "failed") BY <1>0, <1>1, <2>1, <2>2, GotoTyped DEF Fits
  <2>3. CASE ~Goto(c, "failed")
    <3> DEFINE e == [edit[c] EXCEPT !.pc = "write", !.base = docs[edit[c].doc]]
    <3>1. edit' = [edit EXCEPT ![c] = e] BY <1>3, <2>3 DEF ReadDocument, ContractInv, EditsWithin
    <3>2. /\ e.op = edit[c].op /\ e.pc = "write" /\ e.digest = edit[c].digest /\ e.base = docs[edit[c].doc]
          /\ e.doc = edit[c].doc /\ e.key = edit[c].key /\ e.val = edit[c].val
      BY <1>0 DEF EditFields
    <3>3. docs[edit[c].doc] \in Text(edit[c].doc) BY <1>2 DEF ConfTyped, DocsTyped
    <3> HIDE DEF e
    <3>4. EditTyped(e) BY <1>0, <1>1, <3>2, <3>3 DEF EditTyped, Fits, Asked
    <3>5. QED BY <1>0, <2>1, <3>1, <3>4, OneTyped
  <2>4. QED BY <2>2, <2>3
<1>4. CASE WriteDocument(c)
  <2>1. edit[c].base \in Text(edit[c].doc) BY <1>0, <1>4 DEF WriteDocument, EditTyped
  <2>2. Changed(c) \in [Keys(edit[c].doc) -> Entries(edit[c].doc)]
    BY <1>1, <2>1 DEF Changed, Text, Asked
  <2>3. Document(Changed(c), "plain") \in Text(edit[c].doc) BY <1>2, <2>2, DocumentTyped
  <2>4. DocsTyped' /\ slipped' \in [Calls -> BOOLEAN] BY <1>2, <1>4, <2>3, PutTyped DEF WriteDocument
  <2>5. edit' = [edit EXCEPT ![c] = AfterWrite(c)] BY <1>4 DEF WriteDocument
  <2>6. EditTyped(AfterWrite(c))
    <3>1. EditTyped(Ended(c, "ended")) BY <1>0, EndTyped DEF Over
    <3>2. <<>> \in Seq(Texts) OBVIOUS
    <3> DEFINE e == [Idle EXCEPT !.op = "save", !.pc = "render"]
    <3>3. e.op = "save" /\ e.pc = "render" /\ e.digest = <<>> BY DEF Idle
    <3> HIDE DEF e
    <3>4. EditTyped(e) BY <3>2, <3>3 DEF EditTyped, Fits, Ops, Editing
    <3>5. QED BY <3>1, <3>4 DEF AfterWrite, e
  <2>7. QED BY <1>0, <2>4, <2>5, <2>6, OneTyped
<1>5. QED BY <1>3, <1>4

(* The document that is rendered is the one that was read, or a first one.   *)
LEMMA RenderTyped ==
  ASSUME ConfTyped, ContractInv, NEW c \in Calls, ReadToRender(c) \/ Rewrite(c)
  PROVE  ConfTyped'
<1>0. DOMAIN edit[c] = EditFields /\ EditTyped(edit[c]) /\ byHand' \in BOOLEAN /\ edit[c].i \in 1..3
  BY DEF ConfTyped, ContractInv, EditsWithin, EditWithin, ReadToRender, Rewrite, NotByHand
<1>1. Rendering(c) \in Documents BY <1>0 DEF Rendering, Managed, Documents, RuleDocs
<1>2. EditTyped(NextToRender(c))
  <2>1. EditTyped(Ended(c, "ended")) BY <1>0, EndTyped DEF Over
  <2>2. <<>> \in Seq(Texts) OBVIOUS
  <2> DEFINE e == [Idle EXCEPT !.op = edit[c].op, !.pc = "render", !.i = edit[c].i + 1]
  <2>3. e.op = edit[c].op /\ e.pc = "render" /\ e.digest = <<>> BY DEF Idle
  <2> HIDE DEF e
  <2>4. EditTyped(e) BY <1>0, <2>2, <2>3 DEF EditTyped, Fits, Editing
  <2>5. QED BY <2>1, <2>4 DEF NextToRender, e
<1>3. CASE ReadToRender(c)
  <2>1. DocsTyped' /\ slipped' \in [Calls -> BOOLEAN] BY <1>3, DiskTyped DEF ReadToRender
  <2> DEFINE e == [edit[c] EXCEPT !.pc = "rewrite", !.base = docs[Rendering(c)]]
  <2>2. EditTyped(e)
    <3>1. /\ e.op = edit[c].op /\ e.pc = "rewrite" /\ e.digest = edit[c].digest /\ e.base = docs[Rendering(c)]
          /\ e.i = edit[c].i
      BY <1>0 DEF EditFields
    <3>2. docs[Rendering(c)] \in Text(Rendering(c)) BY <1>1 DEF ConfTyped, DocsTyped
    <3> HIDE DEF e
    <3>3. QED BY <1>0, <3>1, <3>2 DEF EditTyped, Fits, Editing, Rendering
  <2>3. EditTyped(Ended(c, "failed")) BY <1>0, EndTyped DEF Over
  <2>4. \E r : edit' = [edit EXCEPT ![c] = r] /\ EditTyped(r)
    <3>1. \E r : edit' = [edit EXCEPT ![c] = r] /\ r \in {NextToRender(c), e, Ended(c, "failed")}
      BY <1>3 DEF ReadToRender
    <3> HIDE DEF e
    <3>2. QED BY <1>2, <2>2, <2>3, <3>1
  <2>5. QED BY <1>0, <2>1, <2>4, OneTyped
<1>4. CASE Rewrite(c)
  <2>1. edit[c].base \in Text(Rendering(c)) BY <1>0, <1>4 DEF Rewrite, EditTyped, Rendering
  <2> DEFINE at == IF edit[c].base.state = "absent" THEN Initial(Rendering(c)) ELSE edit[c].base.at
  <2>2. at \in [Keys(Rendering(c)) -> Entries(Rendering(c))] BY <1>1, <2>1, FirstTyped DEF Text
  <2>3. Document(at, "canonical") \in Text(Rendering(c))
    <3> HIDE DEF at
    <3>1. QED BY <1>1, <2>2, DocumentTyped
  <2>4. Put(c, Rendering(c), Document(at, "canonical")) /\ edit' = [edit EXCEPT ![c] = NextToRender(c)]
    BY <1>4 DEF Rewrite
  <2> HIDE DEF at
  <2>5. DocsTyped' /\ slipped' \in [Calls -> BOOLEAN] BY <1>1, <2>3, <2>4, PutTyped
  <2>6. QED BY <1>0, <1>2, <2>4, <2>5, OneTyped
<1>5. QED BY <1>3, <1>4

(* An edit by hand leaves a document, if not a valid one.                    *)
LEMMA HandTyped == ASSUME ConfTyped, ContractInv, NEW c \in Calls, HandEdit(c) PROVE ConfTyped'
<1>0. PICK d \in Documents : \E doc \in HandDocument(d) :
        /\ Put(c, d, doc)
        /\ byHand' = (byHand \/ (d \in RuleDocs /\ \E e \in ForbiddenEdges \cap Edges : doc.at[e] = "allow"))
  BY DEF HandEdit
<1>1. PICK doc \in HandDocument(d) :
        /\ Put(c, d, doc)
        /\ byHand' = (byHand \/ (d \in RuleDocs /\ \E e \in ForbiddenEdges \cap Edges : doc.at[e] = "allow"))
  BY <1>0
<1>2. doc \in Text(d)
  <2>1. HandValues(d) \subseteq Entries(d)
    BY DEF HandValues, Entries, Documents, RuleDocs, AgentEntries, BehaviorEntries, Decisions
  <2>2. docs[d].at \in [Keys(d) -> Entries(d)] BY DEF ConfTyped, DocsTyped, Text
  <2>3. \A k \in Keys(d), v \in HandValues(d) : [docs[d].at EXCEPT ![k] = v] \in [Keys(d) -> Entries(d)] BY <2>1, <2>2
  <2>4. CASE doc = Empty(d, "invalid") BY <2>4, DocumentTyped
  <2>5. CASE doc # Empty(d, "invalid")
    <3>1. PICK k \in Keys(d), v \in HandValues(d) : doc = Document([docs[d].at EXCEPT ![k] = v], "hand")
      BY <2>5 DEF HandDocument
    <3>2. QED BY <2>3, <3>1, DocumentTyped
  <2>6. QED BY <2>4, <2>5
<1>3. DocsTyped' /\ slipped' \in [Calls -> BOOLEAN] BY <1>1, <1>2, PutTyped
<1>4. byHand' \in BOOLEAN BY <1>1 DEF ConfTyped
<1>5. edit' = [edit EXCEPT ![c] = [Idle EXCEPT !.op = "hand", !.pc = "ended"]] BY DEF HandEdit
<1>6. <<>> \in Seq(Texts) OBVIOUS
<1> DEFINE e == [Idle EXCEPT !.op = "hand", !.pc = "ended"]
<1>7. e.op = "hand" /\ e.pc = "ended" /\ e.digest = <<>> BY DEF Idle
<1> HIDE DEF e
<1>8. EditTyped(e) BY <1>6, <1>7 DEF EditTyped, Fits, Ops, Editing
<1>9. QED BY <1>3, <1>4, <1>5, <1>8, OneTyped DEF e

(* What the other components do to the calls: they take one, ask it for      *)
(* documents, or end it.                                                     *)
Asks(c, op, pc) == edit' = [edit EXCEPT ![c] = [Idle EXCEPT !.op = op, !.pc = pc]]
LEMMA OtherEdits ==
  ASSUME NEW c \in Calls, RegStep(c) \/ InsStep(c) \/ RunStep(c) \/ Crash(c)
  PROVE  /\ UNCHANGED <<docs, byHand, slipped>>
         /\ \/ UNCHANGED edit \/ Occupy(c) \/ Asks(c, "seed", "ensure") \/ Asks(c, "install", "agents")
            \/ Asks(c, "hand", "ended") \/ edit' = [edit EXCEPT ![c] = Ended(c, "crashed")]
<1>1. CASE RegStep(c)
  BY <1>1 DEF RegStep, confVars, Take, CreateProject, SeedForProject, RegisterProject, CreateTask, RegisterTask,
         Archive, CheckCompleted, MarkArchived, MoveArchived, Load, Unload, LockMemory, ListTasks, CheckLoad,
         WriteReference, RemoveReference, Asks
<1>2. CASE InsStep(c)
  <2>1. UNCHANGED edit \/ Occupy(c) \/ PrepareState(c) \/ ChangeHosts(c) BY <1>2, InstallerEdits
  <2>2. PrepareState(c) \/ ChangeHosts(c) \/ UNCHANGED <<docs, byHand, slipped>>
    <3>1. ASSUME NEW r, Proceed(c, r) \/ Engage(c, r) PROVE UNCHANGED <<docs, byHand, slipped>>
      BY <3>1 DEF Proceed, Engage, confVars
    <3>2. \/ PrepareState(c) \/ ChangeHosts(c) \/ Install(c) \/ Uninstall(c) \/ PlanHost(c) \/ Confirm(c) \/ InspectAgain(c)
          \/ RemoveStale(c) \/ AddEntry(c) \/ ReadManifest(c) \/ Record(c) \/ InspectToRemove(c) \/ RemoveEntry(c)
          \/ RemovalsDone(c) \/ Forget(c)
      BY <1>2 DEF InsStep
    <3>3. Install(c) \/ Uninstall(c) \/ PlanHost(c) \/ Confirm(c) \/ InspectAgain(c) => UNCHANGED <<docs, byHand, slipped>>
      BY <3>1 DEF Install, Uninstall, PlanHost, Confirm, InspectAgain
    <3>4. RemoveStale(c) \/ AddEntry(c) \/ ReadManifest(c) \/ Record(c) => UNCHANGED <<docs, byHand, slipped>>
      BY <3>1 DEF RemoveStale, AddEntry, ReadManifest, Record
    <3>5. InspectToRemove(c) \/ RemoveEntry(c) \/ RemovalsDone(c) \/ Forget(c) => UNCHANGED <<docs, byHand, slipped>>
      BY <3>1 DEF InspectToRemove, RemoveEntry, RemovalsDone, Forget
    <3>6. QED BY <3>2, <3>3, <3>4, <3>5
  <2>3. PrepareState(c) => Asks(c, "install", "agents") /\ UNCHANGED <<docs, byHand, slipped>> BY DEF PrepareState, Asks
  <2>4. ChangeHosts(c) => Asks(c, "hand", "ended") /\ UNCHANGED <<docs, byHand, slipped>> BY DEF ChangeHosts, Asks
  <2>5. QED BY <2>1, <2>2, <2>3, <2>4
<1>3. CASE RunStep(c)
  <2>1. UNCHANGED edit \/ Occupy(c) BY <1>3, RunEdits
  <2>2. Outside => UNCHANGED <<docs, byHand, slipped>> BY DEF Outside, confVars
  <2>3. ASSUME NEW r, Shown(c, r) PROVE UNCHANGED <<docs, byHand, slipped>> BY <2>2, <2>3 DEF Shown
  <2>4. BuildsContext(c) => UNCHANGED <<docs, byHand, slipped>>
    <3>1. BuildMemory(c) \/ ReadGlobalRules(c) \/ ResolveCall(c) \/ BuildRules(c) => \E r : Shown(c, r)
      BY DEF BuildMemory, ReadGlobalRules, ResolveCall, BuildRules
    <3>2. BuildBehavior(c) \/ BuildWorking(c) \/ (\E i \in 2..4 : BuildArtifacts(c, ArtifactOrder[i])) => \E r : Shown(c, r)
      BY DEF BuildBehavior, BuildWorking, BuildArtifacts
    <3>3. QED BY <2>3, <3>1, <3>2 DEF BuildsContext
  <2>5. Reopen(c) \/ Invoke(c) \/ InvokeOnProject(c) \/ UserCompletes(c) => UNCHANGED <<docs, byHand, slipped>>
    BY DEF Reopen, Invoke, InvokeOnProject, UserCompletes, Started
  <2>6. \/ ForceRelease(c) \/ OpenTaskSession(c) \/ BindTask(c) \/ InvokeAfterOpening(c) \/ CaptureFence(c) \/ Commit(c)
        \/ CheckFields(c) \/ ApplyExaminerIntent(c) \/ SaveRecord(c) \/ SaveQuestionerContext(c) \/ SaveDraft(c)
        \/ SaveReviewerReport(c) \/ MarkCompleted(c)
        => UNCHANGED <<docs, byHand, slipped>>
    BY <2>2 DEF ForceRelease, OpenTaskSession, BindTask, InvokeAfterOpening, CaptureFence, Commit, CheckFields,
         ApplyExaminerIntent, SaveRecord, SaveQuestionerContext, SaveDraft, SaveReviewerReport, MarkCompleted, confVars
  <2>7. QED BY <1>3, <2>1, <2>4, <2>5, <2>6 DEF RunStep, BuildsContext
<1>4. CASE Crash(c) BY <1>4 DEF Crash
<1>5. QED BY <1>1, <1>2, <1>3, <1>4

(* Every step keeps the documents, and the copies in flight, typed.          *)
LEMMA ConfTypedStep == ConfTyped /\ ContractInv /\ [Next]_vars => ConfTyped'
<1> SUFFICES ASSUME ConfTyped, ContractInv, [Next]_vars PROVE ConfTyped' OBVIOUS
<1>1. ASSUME NEW c \in Calls, ConfStep(c) PROVE ConfTyped'
  BY <1>1, BeginTyped, SeedTyped, PageTyped, WriteTyped, RenderTyped, HandTyped DEF ConfStep
<1>2. ASSUME UNCHANGED <<docs, byHand, slipped, edit>> PROVE ConfTyped'
  BY <1>2 DEF ConfTyped, DocsTyped
<1>3. ASSUME NEW c \in Calls, RegStep(c) \/ InsStep(c) \/ RunStep(c) \/ Crash(c) PROVE ConfTyped'
  <2>1. /\ UNCHANGED <<docs, byHand, slipped>> /\ DocsTyped' /\ slipped' \in [Calls -> BOOLEAN] /\ byHand' \in BOOLEAN
        /\ EditTyped(edit[c]) /\ DOMAIN edit[c] = EditFields
    BY <1>3, OtherEdits DEF ConfTyped, DocsTyped, ContractInv, EditsWithin, EditWithin
  <2>2. ASSUME NEW op \in {"seed", "install", "hand"}, NEW pc \in {"ensure", "agents", "ended"}, Fits(op, pc), Asks(c, op, pc)
        PROVE  ConfTyped'
    <3> DEFINE e == [Idle EXCEPT !.op = op, !.pc = pc]
    <3>1. e.op = op /\ e.pc = pc /\ e.digest = <<>> BY DEF Idle
    <3>2. <<>> \in Seq(Texts) OBVIOUS
    <3> HIDE DEF e
    <3>3. EditTyped(e) BY <2>2, <3>1, <3>2 DEF EditTyped, Ops
    <3>4. QED BY <2>1, <2>2, <3>3, OneTyped DEF Asks, e
  <2>3. CASE Occupy(c)
    <3> DEFINE e == [edit[c] EXCEPT !.pc = "busy"]
    <3>1. e.op = edit[c].op /\ e.pc = "busy" /\ e.digest = edit[c].digest BY <2>1 DEF EditFields
    <3>2. edit' = [edit EXCEPT ![c] = e] BY <2>3 DEF Occupy, ContractInv, EditsWithin
    <3> HIDE DEF e
    <3>3. EditTyped(e) BY <2>1, <3>1 DEF EditTyped, Fits, Editing
    <3>4. QED BY <2>1, <3>2, <3>3, OneTyped
  <2>4. CASE edit' = [edit EXCEPT ![c] = Ended(c, "crashed")] BY <2>1, <2>4, EndTyped, OneTyped DEF Over
  <2>5. Fits("seed", "ensure") /\ Fits("install", "agents") /\ Fits("hand", "ended") BY DEF Fits
  <2>6. QED BY <1>2, <1>3, <2>1, <2>2, <2>3, <2>4, <2>5, OtherEdits
<1>4. QED BY <1>1, <1>2, <1>3 DEF Next, vars, confVars

-----------------------------------------------------------------------------
(* The types of the registry, of the installer and of the runs.  A project   *)
(* is created for a path, and an installer works on the hosts of Providers.  *)
WorkTyped(w) ==
  /\ w.op \in {"none", "create", "task", "archive", "load", "unload"}
  /\ w.listed \subseteq Tasks \cup {"open", "archive"}
  /\ w.op = "create" /\ w.pc \in {"seed", "register"} => w.for \in Paths
RegTyped ==
  /\ source \in [Projects -> Paths \cup {"none"}]
  /\ status \in [Tasks -> {"none", "active", "completed", "archived"}]
  /\ place \in [Tasks -> {"open", "archive"}]
  /\ owner \in [Tasks -> {"none", "user"} \cup Calls]
  /\ bound \in Calls \cup {NoCall} /\ mutex \in Calls \cup {NoCall}
  /\ \A c \in Calls : WorkTyped(work[c])
InstTyped(r) ==
  /\ r.op \in {"none", "install", "uninstall"}
  /\ r.todo \subseteq Providers /\ r.done \subseteq Providers /\ r.base \subseteq Providers
  /\ r.pc \in {"replace", "add", "removing"} => r.at \in Providers
InsTyped ==
  /\ entry \in [Providers -> {"absent", "foreign"} \cup Owned]
  /\ manifest \subseteq Providers /\ loose \subseteq Providers
  /\ \A c \in Calls : InstTyped(inst[c])
HeldTyped == memory \in [Scopes -> {"none"} \cup Calls] /\ working \in [Tasks -> {"none"} \cup Calls]

(* At first all of it is typed.                                              *)
LEMMA TypedInit == Init => RegTyped /\ InsTyped /\ HeldTyped
<1> SUFFICES ASSUME Init PROVE RegTyped /\ InsTyped /\ HeldTyped OBVIOUS
<1>1. PICK installed \in BOOLEAN : RegInit(installed) /\ InsInit(installed) /\ RunInit(installed) BY DEF Init
<1>2. RegTyped
  <2>1. source \in [Projects -> Paths \cup {"none"}] BY <1>1, FirstAssumption DEF RegInit
  <2>2. status \in [Tasks -> {"none", "active", "completed", "archived"}] BY <1>1, FirstAssumption DEF RegInit
  <2>3. \A c \in Calls : WorkTyped(work[c]) BY <1>1 DEF RegInit, Resting, WorkTyped
  <2>4. QED BY <1>1, <2>1, <2>2, <2>3 DEF RegInit, RegTyped
<1>3. InsTyped BY <1>1 DEF InsInit, InsTyped, InstTyped, Unstarted, Owned
<1>4. HeldTyped BY <1>1 DEF RunInit, HeldTyped
<1>5. QED BY <1>2, <1>3, <1>4

(* One call works on the registry at a time.                                 *)
LEMMA OneWork ==
  ASSUME OnceInv, \A x \in Calls : WorkTyped(work[x]), NEW c \in Calls, NEW w, work' = [work EXCEPT ![c] = w], WorkTyped(w)
  PROVE  \A x \in Calls : WorkTyped(work'[x])
BY DEF OnceInv

(* A call that goes on stays typed.                                          *)
LEMMA BecomesTyped ==
  ASSUME OnceInv, NEW c \in Calls, WorkTyped(work[c]), NEW pc, Becomes(c, pc),
         work[c].op = "create" /\ pc = "register" => work[c].for \in Paths, pc # "seed"
  PROVE  WorkTyped(work'[c])
<1>1. CASE pc \in Over
  <2>1. work'[c] = [Resting EXCEPT !.op = work[c].op, !.pc = pc] BY <1>1 DEF Becomes, OnceInv
  <2>2. work'[c].op = work[c].op /\ work'[c].pc = pc /\ work'[c].listed = {} BY <2>1 DEF Resting
  <2>3. QED BY <1>1, <2>2 DEF WorkTyped, Over
<1>2. CASE pc \notin Over BY <1>2, BecomesFields DEF WorkTyped, WorkFields
<1>3. QED BY <1>1, <1>2

(* A call that begins on the registry is typed.                              *)
LEMMA TakeTyped ==
  ASSUME OnceInv, NEW c \in Calls, NEW op, NEW pc, NEW for, NEW from, Take(c, op, pc, for, from),
         op \in {"create", "task", "archive", "load", "unload"}, op = "create" => for \in Paths
  PROVE  WorkTyped(work'[c]) /\ UNCHANGED <<source, status, place, owner, bound, mutex>>
<1>1. work'[c] = [Resting EXCEPT !.op = op, !.pc = pc, !.for = for, !.from = from] BY DEF Take, OnceInv
<1>2. work'[c].op = op /\ work'[c].listed = {} /\ work'[c].for = for BY <1>1 DEF Resting
<1>3. QED BY <1>2 DEF WorkTyped, Take

(* The steps of the registry.                                                *)
LEMMA RegTypedStep ==
  ASSUME RegTyped, OnceInv, NEW c \in Calls, RegStep(c)
  PROVE  RegTyped'
<1>1. work' = [work EXCEPT ![c] = work'[c]] BY RegStepShape
<1>2. WorkTyped(work[c]) BY DEF RegTyped
<1>3. SUFFICES /\ WorkTyped(work'[c])
               /\ source' \in [Projects -> Paths \cup {"none"}]
               /\ status' \in [Tasks -> {"none", "active", "completed", "archived"}]
               /\ place' \in [Tasks -> {"open", "archive"}]
               /\ owner' \in [Tasks -> {"none", "user"} \cup Calls]
               /\ bound' \in Calls \cup {NoCall} /\ mutex' \in Calls \cup {NoCall}
  BY <1>1, OneWork DEF RegTyped, WorkTyped
<1>4. CASE CreateProject(c) \/ CreateTask(c) \/ Archive(c) \/ Load(c) \/ Unload(c)
  <2>1. \E op, pc, for, from : /\ Take(c, op, pc, for, from) /\ op \in {"create", "task", "archive", "load", "unload"}
                               /\ op = "create" => for \in Paths
    BY <1>4 DEF CreateProject, CreateTask, Archive, Load, Unload
  <2>2. QED BY <2>1, TakeTyped DEF RegTyped
<1>5. CASE SeedForProject(c)
  <2>1. work[c].for \in Paths BY <1>2, <1>5 DEF SeedForProject, At, WorkTyped
  <2>2. QED BY <1>2, <1>5, <2>1, BecomesTyped DEF SeedForProject, RegTyped
<1>6. CASE RegisterProject(c)
  <2>1. work[c].for \in Paths BY <1>2, <1>6 DEF RegisterProject, At, WorkTyped
  <2>2. PICK p \in Projects : source' = [source EXCEPT ![p] = work[c].for] BY <1>6 DEF RegisterProject
  <2>3. source' \in [Projects -> Paths \cup {"none"}] BY <2>1, <2>2 DEF RegTyped
  <2>4. QED BY <1>2, <1>6, <2>3, BecomesTyped DEF RegisterProject, RegTyped
<1>7. CASE RegisterTask(c) \/ CheckCompleted(c) \/ MarkArchived(c) \/ MoveArchived(c)
  <2>1. \E pc \in {"ended", "mark", "failed", "move"} : Becomes(c, pc)
    BY <1>7 DEF RegisterTask, CheckCompleted, MarkArchived, MoveArchived
  <2>2. WorkTyped(work'[c]) BY <1>2, <2>1, BecomesTyped
  <2>3. QED BY <1>7, <2>2 DEF RegisterTask, CheckCompleted, MarkArchived, MoveArchived, RegTyped
<1>8. CASE LockMemory(c) \/ CheckLoad(c) \/ WriteReference(c) \/ RemoveReference(c)
  <2>1. \E pc \in {"list", "remove", "write", "failed", "ended"} : Becomes(c, pc)
    BY <1>8 DEF LockMemory, CheckLoad, WriteReference, RemoveReference
  <2>2. WorkTyped(work'[c]) BY <1>2, <2>1, BecomesTyped
  <2>3. QED BY <1>8, <2>2 DEF LockMemory, CheckLoad, WriteReference, RemoveReference, RegTyped
<1>9. ASSUME NEW where \in {"open", "archive"}, ListTasks(c, where)
      PROVE  WorkTyped(work'[c]) /\ UNCHANGED <<source, status, place, owner, bound, mutex>>
  <2>1. work'[c] = [work[c] EXCEPT !.listed = @ \cup {where} \cup {t \in Tasks : Found(t) /\ place[t] = where}]
    BY <1>9 DEF ListTasks, OnceInv
  <2>2. DOMAIN work[c] = WorkFields BY DEF OnceInv
  <2>3. /\ work'[c].op = work[c].op /\ work'[c].pc = work[c].pc /\ work'[c].for = work[c].for
        /\ work'[c].listed \subseteq Tasks \cup {"open", "archive"}
    BY <1>2, <2>1, <2>2 DEF WorkTyped, WorkFields
  <2>4. QED BY <1>2, <1>9, <2>3 DEF WorkTyped, ListTasks
<1>10. QED BY <1>4, <1>5, <1>6, <1>7, <1>8, <1>9 DEF RegStep, RegTyped

(* One installer moves at a time.                                            *)
LEMMA OneInst ==
  ASSUME InsTyped, RegistrationInv, NEW c \in Calls, NEW r, inst' = [inst EXCEPT ![c] = r], InstTyped(r),
         entry' \in [Providers -> {"absent", "foreign"} \cup Owned], manifest' \subseteq Providers, loose' \subseteq Providers
  PROVE  InsTyped'
<1>1. \A x \in Calls : InstTyped(inst'[x]) BY DEF InsTyped, RegistrationInv
<1>2. QED BY <1>1 DEF InsTyped, InstTyped, Owned

(* An installer begins with hosts of Providers.                              *)
LEMMA EngageTyped ==
  ASSUME InsTyped, RegistrationInv, NEW c \in Calls, Install(c) \/ Uninstall(c)
  PROVE  InsTyped'
<1>1. ASSUME NEW r, Engage(c, r), InstTyped(r), UNCHANGED <<entry, manifest>> PROVE InsTyped'
  <2>1. inst' = [inst EXCEPT ![c] = r] /\ loose' \subseteq Providers BY <1>1 DEF Engage, InsTyped
  <2>2. QED BY <1>1, <2>1, OneInst DEF InsTyped
<1>2. CASE Install(c)
  <2>1. PICK chosen \in SUBSET Providers : Engage(c, [Unstarted EXCEPT !.op = "install", !.pc = "plan", !.todo = chosen])
    BY <1>2 DEF Install
  <2> DEFINE r == [Unstarted EXCEPT !.op = "install", !.pc = "plan", !.todo = chosen]
  <2>2. r.op = "install" /\ r.pc = "plan" /\ r.todo = chosen /\ r.done = {} /\ r.base = {} BY DEF Unstarted
  <2>3. InstTyped(r)
    <3> HIDE DEF r
    <3>1. QED BY <2>2 DEF InstTyped
  <2>4. UNCHANGED <<entry, manifest>> BY <2>1 DEF Engage
  <2>5. QED BY <1>1, <2>1, <2>3, <2>4
<1>3. CASE Uninstall(c)
  <2> DEFINE todo == IF manifest # {} THEN manifest ELSE Providers
             r == [Unstarted EXCEPT !.op = "uninstall", !.pc = "remove", !.todo = todo]
  <2>1. Engage(c, r) BY <1>3 DEF Uninstall
  <2>2. r.op = "uninstall" /\ r.pc = "remove" /\ r.todo = todo /\ r.done = {} /\ r.base = {} BY DEF Unstarted
  <2>3. todo \subseteq Providers BY DEF InsTyped
  <2>4. InstTyped(r)
    <3> HIDE DEF r, todo
    <3>1. QED BY <2>2, <2>3 DEF InstTyped
  <2>5. UNCHANGED <<entry, manifest>> BY <2>1 DEF Engage
  <2>6. QED BY <1>1, <2>1, <2>4, <2>5
<1>4. QED BY <1>2, <1>3

(* An installer that is over works on no host.                               *)
LEMMA FinishTyped == ASSUME NEW c \in Calls, InstTyped(inst[c]), NEW pc \in {"ended", "crashed"} PROVE InstTyped(Finish(c, pc))
<1>1. /\ Finish(c, pc).op = inst[c].op /\ Finish(c, pc).pc = pc
      /\ Finish(c, pc).todo = {} /\ Finish(c, pc).done = {} /\ Finish(c, pc).base = {}
  BY DEF Finish, Unstarted
<1>2. QED BY <1>1 DEF InstTyped

(* The steps of the installers.                                              *)
LEMMA InsTypedStep ==
  ASSUME InsTyped, RegistrationInv, NEW c \in Calls, InsStep(c)
  PROVE  InsTyped'
<1>0. DOMAIN inst = Calls /\ DOMAIN inst[c] = InstFields /\ InstTyped(inst[c])
  BY DEF RegistrationInv, InstWellFormed, InsTyped
<1>1. ASSUME NEW r, Proceed(c, r), InstTyped(r), entry' \in [Providers -> {"absent", "foreign"} \cup Owned],
             manifest' \subseteq Providers, loose' \subseteq Providers
      PROVE  InsTyped'
  BY <1>1, OneInst DEF Proceed
<1>2. ASSUME UNCHANGED <<manifest, loose>>
      PROVE  manifest' \subseteq Providers /\ loose' \subseteq Providers
  BY <1>2 DEF InsTyped
<1>3. ASSUME UNCHANGED entry PROVE entry' \in [Providers -> {"absent", "foreign"} \cup Owned]
  BY <1>3 DEF InsTyped
<1>4. CASE PlanHost(c)
  <2>1. PICK p, action :
          /\ p \in inst[c].todo
          /\ Proceed(c, [inst[c] EXCEPT !.todo = @ \ {p}, !.plan[p] = action])
    BY <1>4 DEF PlanHost
  <2> DEFINE r == [inst[c] EXCEPT !.todo = @ \ {p}, !.plan[p] = action]
  <2>2. /\ r.op = inst[c].op /\ r.pc = inst[c].pc /\ r.todo = inst[c].todo \ {p} /\ r.done = inst[c].done
        /\ r.base = inst[c].base /\ r.at = inst[c].at
    BY <1>0 DEF InstFields
  <2>3. InstTyped(r)
    <3> HIDE DEF r
    <3>1. QED BY <1>0, <2>2 DEF InstTyped
  <2>4. QED BY <1>1, <1>2, <1>3, <1>4, <2>1, <2>3 DEF PlanHost
<1>5. CASE Confirm(c)
  <2> DEFINE r == [Unstarted EXCEPT !.op = "install", !.pc = "apply", !.todo = Planned(c, {"register", "refresh"}),
                                    !.done = Planned(c, {"already"})]
  <2>1. /\ r.op = "install" /\ r.pc = "apply" /\ r.todo = Planned(c, {"register", "refresh"})
        /\ r.done = Planned(c, {"already"}) /\ r.base = {}
    BY DEF Unstarted
  <2>2. \A actions : Planned(c, actions) \subseteq Providers BY DEF Planned
  <2>3. InstTyped(r)
    <3> HIDE DEF r
    <3>1. QED BY <2>1, <2>2 DEF InstTyped
  <2>4. InstTyped(Finish(c, "ended")) BY <1>0, FinishTyped
  <2>5. Proceed(c, r) \/ Proceed(c, Finish(c, "ended")) BY <1>5 DEF Confirm
  <2> HIDE DEF r
  <2>6. QED BY <1>1, <1>2, <1>3, <1>5, <2>3, <2>4, <2>5 DEF Confirm
<1>6. CASE InspectAgain(c) \/ InspectToRemove(c)
  <2>1. PICK p \in inst[c].todo :
          LET rest == [inst[c] EXCEPT !.todo = @ \ {p}] IN
          \/ Proceed(c, rest) \/ Proceed(c, [rest EXCEPT !.done = @ \cup {p}])
          \/ \E pc \in {"replace", "add", "removing"} : Proceed(c, [rest EXCEPT !.pc = pc, !.at = p])
    BY <1>6 DEF InspectAgain, InspectToRemove
  <2> DEFINE rest == [inst[c] EXCEPT !.todo = @ \ {p}]
  <2>2. /\ DOMAIN rest = InstFields /\ rest.op = inst[c].op /\ rest.pc = inst[c].pc /\ rest.todo = inst[c].todo \ {p}
        /\ rest.done = inst[c].done /\ rest.base = inst[c].base /\ rest.at = inst[c].at
    BY <1>0 DEF InstFields
  <2>3. Proceed(c, rest) \/ Proceed(c, [rest EXCEPT !.done = @ \cup {p}])
        \/ \E pc \in {"replace", "add", "removing"} : Proceed(c, [rest EXCEPT !.pc = pc, !.at = p])
    BY <2>1
  <2>4. p \in Providers BY <1>0 DEF InstTyped
  <2> HIDE DEF rest
  <2>5. InstTyped(rest) BY <1>0, <2>2 DEF InstTyped
  <2>6. InstTyped([rest EXCEPT !.done = @ \cup {p}])
    <3> DEFINE r == [rest EXCEPT !.done = @ \cup {p}]
    <3>1. /\ r.op = inst[c].op /\ r.pc = inst[c].pc /\ r.todo = inst[c].todo \ {p} /\ r.done = inst[c].done \cup {p}
          /\ r.base = inst[c].base /\ r.at = inst[c].at
      BY <2>2 DEF InstFields
    <3> HIDE DEF r
    <3>2. InstTyped(r) BY <1>0, <2>4, <3>1 DEF InstTyped
    <3>3. QED BY <3>2 DEF r
  <2>7. ASSUME NEW pc \in {"replace", "add", "removing"} PROVE InstTyped([rest EXCEPT !.pc = pc, !.at = p])
    <3> DEFINE r == [rest EXCEPT !.pc = pc, !.at = p]
    <3>1. /\ r.op = inst[c].op /\ r.todo = inst[c].todo \ {p} /\ r.done = inst[c].done /\ r.base = inst[c].base /\ r.at = p
      BY <2>2 DEF InstFields
    <3> HIDE DEF r
    <3>2. InstTyped(r) BY <1>0, <2>4, <3>1 DEF InstTyped
    <3>3. QED BY <3>2 DEF r
  <2>8. UNCHANGED <<entry, manifest, loose>> BY <1>6 DEF InspectAgain, InspectToRemove
  <2>9. QED BY <1>1, <1>2, <1>3, <2>3, <2>5, <2>6, <2>7, <2>8
<1>7. CASE RemoveStale(c)
  <2> DEFINE r == [inst[c] EXCEPT !.pc = "add"]
  <2>1. /\ r.op = inst[c].op /\ r.todo = inst[c].todo /\ r.done = inst[c].done /\ r.base = inst[c].base
        /\ r.at = inst[c].at /\ inst[c].at \in Providers
    BY <1>0, <1>7 DEF InstFields, RemoveStale, InstTyped
  <2>2. Proceed(c, r) /\ UNCHANGED <<manifest, loose>> BY <1>7 DEF RemoveStale
  <2> HIDE DEF r
  <2>3. InstTyped(r) BY <1>0, <2>1 DEF InstTyped
  <2>4. entry' \in [Providers -> {"absent", "foreign"} \cup Owned] BY <1>7 DEF RemoveStale, InsTyped
  <2>5. QED BY <1>1, <1>2, <2>2, <2>3, <2>4
<1>8. CASE AddEntry(c) \/ RemoveEntry(c)
  <2>1. inst[c].at \in Providers BY <1>0, <1>8 DEF AddEntry, RemoveEntry, InstTyped
  <2>2. entry' \in [Providers -> {"absent", "foreign"} \cup Owned] BY <1>8 DEF AddEntry, RemoveEntry, InsTyped, Owned
  <2>3. UNCHANGED manifest /\ loose' \subseteq Providers BY <1>8, <2>1 DEF AddEntry, RemoveEntry, InsTyped
  <2>4. \E pc \in {"apply", "remove"}, done \in {inst[c].done, inst[c].done \cup {inst[c].at}} :
          Proceed(c, [inst[c] EXCEPT !.pc = pc, !.at = "none", !.done = done])
    BY <1>8 DEF AddEntry, RemoveEntry
  <2>5. PICK pc \in {"apply", "remove"}, done \in {inst[c].done, inst[c].done \cup {inst[c].at}} :
          Proceed(c, [inst[c] EXCEPT !.pc = pc, !.at = "none", !.done = done])
    BY <2>4
  <2> DEFINE r == [inst[c] EXCEPT !.pc = pc, !.at = "none", !.done = done]
  <2>6. r.op = inst[c].op /\ r.pc = pc /\ r.todo = inst[c].todo /\ r.done = done /\ r.base = inst[c].base
    BY <1>0 DEF InstFields
  <2>7. Proceed(c, r) BY <2>5
  <2> HIDE DEF r
  <2>8. InstTyped(r) BY <1>0, <2>1, <2>6 DEF InstTyped
  <2>9. QED BY <1>1, <2>2, <2>3, <2>7, <2>8 DEF InsTyped
<1>9. CASE ReadManifest(c)
  <2> DEFINE pc == IF inst[c].pc = "prepare" THEN "record" ELSE "unrecord"
             r == [inst[c] EXCEPT !.pc = pc, !.base = manifest]
  <2>1. r.op = inst[c].op /\ r.pc = pc /\ r.todo = inst[c].todo /\ r.done = inst[c].done /\ r.base = manifest
    BY <1>0 DEF InstFields
  <2>2. Proceed(c, r) /\ UNCHANGED <<entry, manifest, loose>> /\ pc \in {"record", "unrecord"} BY <1>9 DEF ReadManifest
  <2> HIDE DEF r, pc
  <2>3. InstTyped(r) BY <1>0, <2>1, <2>2 DEF InstTyped, InsTyped
  <2>4. QED BY <1>1, <1>2, <1>3, <2>2, <2>3
<1>10. CASE Record(c) \/ Forget(c)
  <2>1. Proceed(c, Finish(c, "ended")) /\ UNCHANGED entry BY <1>10 DEF Record, Forget
  <2>2. manifest' \subseteq Providers /\ loose' \subseteq Providers
    BY <1>0, <1>10 DEF Record, Forget, Recordable, InsTyped, InstTyped
  <2>3. QED BY <1>0, <1>1, <1>3, <2>1, <2>2, FinishTyped
<1>11. CASE RemovalsDone(c) \/ PrepareState(c)
  <2>1. PICK pc \in {"forget", "prepare"} : inst' = [inst EXCEPT ![c] = [inst[c] EXCEPT !.pc = pc]]
    BY <1>0, <1>11 DEF RemovalsDone, Proceed, PrepareState
  <2> DEFINE r == [inst[c] EXCEPT !.pc = pc]
  <2>2. r.op = inst[c].op /\ r.pc = pc /\ r.todo = inst[c].todo /\ r.done = inst[c].done /\ r.base = inst[c].base
    BY <1>0 DEF InstFields
  <2>3. inst' = [inst EXCEPT ![c] = r] BY <2>1
  <2> HIDE DEF r
  <2>4. InstTyped(r) BY <1>0, <2>2 DEF InstTyped
  <2>5. UNCHANGED <<entry, manifest, loose>> BY <1>11 DEF RemovalsDone, PrepareState
  <2>6. QED BY <1>2, <1>3, <2>3, <2>4, <2>5, OneInst
<1>12. CASE ChangeHosts(c)
  <2>1. entry' \in [Providers -> {"absent", "foreign"} \cup Owned] BY <1>12 DEF ChangeHosts, InsTyped, Owned
  <2>2. UNCHANGED <<manifest, inst, loose>> BY <1>12 DEF ChangeHosts
  <2>3. QED BY <2>1, <2>2 DEF InsTyped, InstTyped, Owned
<1>13. QED BY <1>4, <1>5, <1>6, <1>7, <1>8, <1>9, <1>10, <1>11, <1>12, EngageTyped DEF InsStep

(* The steps of the runs change owners, the lock and what tasks hold.        *)
LEMMA RunTypedStep ==
  ASSUME RegTyped, HeldTyped, OnceInv, ContractInv, NEW c \in Calls, RunStep(c)
  PROVE  RegTyped' /\ HeldTyped'
<1>1. CASE UserCompletes(c)
  <2>1. PICK t \in Tasks : /\ status' = [status EXCEPT ![t] = "completed"]
                           /\ work' = [work EXCEPT ![c] = [Resting EXCEPT !.op = "archive", !.pc = "check", !.for = t]]
    BY <1>1 DEF UserCompletes
  <2> DEFINE w == [Resting EXCEPT !.op = "archive", !.pc = "check", !.for = t]
  <2>2. w.op = "archive" /\ w.listed = {} BY DEF Resting
  <2> HIDE DEF w
  <2>3. WorkTyped(w) BY <2>2 DEF WorkTyped
  <2>4. \A x \in Calls : WorkTyped(work'[x]) BY <2>1, <2>3, OneWork DEF RegTyped, w
  <2>5. status' \in [Tasks -> {"none", "active", "completed", "archived"}] BY <2>1 DEF RegTyped
  <2>6. UNCHANGED <<source, place, owner, bound, mutex, memory, working>> BY <1>1 DEF UserCompletes, runVars
  <2>7. QED BY <2>4, <2>5, <2>6 DEF RegTyped, HeldTyped, WorkTyped
<1>2. CASE ~UserCompletes(c)
  <2>1. UNCHANGED <<work, source, place, mutex>>
    <3>1. UNCHANGED work BY <1>2, RunStepShape
    <3>2. CASE BuildsContext(c) BY <3>2, ContextFields DEF regVars
    <3>3. CASE Reopen(c) \/ Invoke(c) \/ InvokeOnProject(c)
      BY <3>3 DEF Reopen, Invoke, InvokeOnProject, Started, regVars
    <3>4. CASE \/ ForceRelease(c) \/ OpenTaskSession(c) \/ BindTask(c) \/ InvokeAfterOpening(c) \/ CaptureFence(c) \/ Commit(c)
               \/ CheckFields(c) \/ ApplyExaminerIntent(c) \/ SaveRecord(c) \/ SaveQuestionerContext(c) \/ SaveDraft(c)
               \/ SaveReviewerReport(c) \/ MarkCompleted(c)
      BY <3>4 DEF ForceRelease, OpenTaskSession, BindTask, InvokeAfterOpening, CaptureFence, Commit, CheckFields,
           ApplyExaminerIntent, SaveRecord, SaveQuestionerContext, SaveDraft, SaveReviewerReport, MarkCompleted, Outside
    <3>5. QED BY <1>2, <3>1, <3>2, <3>3, <3>4 DEF RunStep, BuildsContext
  <2>2. /\ status' \in [Tasks -> {"none", "active", "completed", "archived"}]
        /\ owner' \in [Tasks -> {"none", "user"} \cup Calls]
        /\ bound' \in Calls \cup {NoCall} /\ HeldTyped'
    <3>1. CASE BuildsContext(c) BY <3>1, ContextFields DEF regVars, RegTyped, HeldTyped
    <3>2. CASE Reopen(c) \/ Invoke(c) \/ InvokeOnProject(c)
      BY <3>2 DEF Reopen, Invoke, InvokeOnProject, Started, regVars, RegTyped, HeldTyped
    <3>3. CASE ForceRelease(c) \/ OpenTaskSession(c) \/ BindTask(c) \/ InvokeAfterOpening(c) \/ CaptureFence(c) \/ Commit(c)
      BY <3>3 DEF ForceRelease, OpenTaskSession, BindTask, InvokeAfterOpening, CaptureFence, Commit, Outside, RegTyped, HeldTyped
    <3>4. CASE CheckFields(c) \/ SaveRecord(c) \/ SaveDraft(c) \/ SaveReviewerReport(c) \/ MarkCompleted(c)
      BY <3>4 DEF CheckFields, SaveRecord, SaveDraft, SaveReviewerReport, MarkCompleted, Outside, Release, RegTyped, HeldTyped
    <3>5. CASE ApplyExaminerIntent(c) \/ SaveQuestionerContext(c)
      BY <3>5 DEF ApplyExaminerIntent, ReplaceCanonicalMemory, SaveQuestionerContext, Outside, Release, RegTyped, HeldTyped
    <3>6. QED BY <1>2, <3>1, <3>2, <3>3, <3>4, <3>5 DEF RunStep, BuildsContext
  <2>3. QED BY <2>1, <2>2 DEF RegTyped, WorkTyped
<1>3. QED BY <1>1, <1>2

(* What is left of a process that ends is typed.                             *)
LEMMA CrashTyped ==
  ASSUME RegTyped, InsTyped, HeldTyped, OnceInv, ContractInv, RegistrationInv, NEW c \in Calls, Crash(c)
  PROVE  RegTyped' /\ InsTyped' /\ HeldTyped'
<1>0. UNCHANGED <<source, status, place, owner>> BY DEF Crash
<1>1. ASSUME UNCHANGED insVars PROVE InsTyped' BY <1>1 DEF insVars, InsTyped, InstTyped, Owned
<1>2. ASSUME UNCHANGED <<work, mutex>>, bound' \in Calls \cup {NoCall} PROVE RegTyped'
  BY <1>0, <1>2 DEF RegTyped, WorkTyped
<1>3. ASSUME UNCHANGED <<memory, working>> PROVE HeldTyped' BY <1>3 DEF HeldTyped
<1>4. CASE RegDies(c) /\ UNCHANGED <<insVars, runVars>>
  <2> DEFINE w == [Resting EXCEPT !.op = work[c].op, !.pc = "crashed"]
  <2>1. w.op = work[c].op /\ w.pc = "crashed" /\ w.listed = {} BY DEF Resting
  <2>2. work' = [work EXCEPT ![c] = w] BY <1>4 DEF RegDies
  <2> HIDE DEF w
  <2>3. WorkTyped(w) BY <2>1 DEF WorkTyped, RegTyped
  <2>4. \A x \in Calls : WorkTyped(work'[x]) BY <2>2, <2>3, OneWork DEF RegTyped
  <2>5. RegTyped' BY <1>0, <1>4, <2>4 DEF RegTyped, RegDies, WorkTyped
  <2>6. QED BY <1>1, <1>3, <1>4, <2>5 DEF runVars
<1>5. CASE InsDies(c) /\ UNCHANGED <<manifest, work, mutex, bound, runVars>>
  <2>1. InstTyped(Finish(c, "crashed")) BY FinishTyped DEF InsTyped
  <2>2. loose' \subseteq Providers BY <1>5 DEF InsDies, Added, InsTyped, InstTyped
  <2>3. InsTyped' BY <1>5, <2>1, <2>2, OneInst DEF InsDies, Underway, InsTyped, Owned
  <2>4. QED BY <1>2, <1>3, <1>5, <2>3 DEF runVars, RegTyped
<1>6. CASE RunDies(c) /\ UNCHANGED <<work, mutex, insVars, memory, working, records>>
  <2>1. bound' \in Calls \cup {NoCall} BY <1>6 DEF RunDies, RegTyped
  <2>2. QED BY <1>1, <1>2, <1>3, <1>6, <2>1
<1>7. CASE UNCHANGED <<work, mutex, bound, insVars, runVars>>
  BY <1>1, <1>2, <1>3, <1>7 DEF runVars, RegTyped
<1>8. QED BY <1>4, <1>5, <1>6, <1>7, CrashShape

(* Every step keeps the registry, the hosts and what tasks hold typed.       *)
LEMMA TypedStep ==
  RegTyped /\ InsTyped /\ HeldTyped /\ OnceInv /\ ContractInv /\ RegistrationInv /\ [Next]_vars => RegTyped' /\ InsTyped' /\ HeldTyped'
<1> SUFFICES ASSUME RegTyped, InsTyped, HeldTyped, OnceInv, ContractInv, RegistrationInv, [Next]_vars
             PROVE  RegTyped' /\ InsTyped' /\ HeldTyped'
  OBVIOUS
<1>1. ASSUME UNCHANGED regVars PROVE RegTyped' BY <1>1 DEF regVars, RegTyped, WorkTyped
<1>2. ASSUME UNCHANGED insVars PROVE InsTyped' BY <1>2 DEF insVars, InsTyped, InstTyped, Owned
<1>3. ASSUME UNCHANGED runVars PROVE HeldTyped' BY <1>3 DEF runVars, HeldTyped
<1>4. CASE UNCHANGED vars BY <1>1, <1>2, <1>3, <1>4 DEF vars
<1>5. ASSUME NEW c \in Calls, ConfStep(c), UNCHANGED <<regVars, insVars, runVars>> PROVE RegTyped' /\ InsTyped' /\ HeldTyped'
  BY <1>1, <1>2, <1>3, <1>5
<1>6. ASSUME NEW c \in Calls, RegStep(c), UNCHANGED <<insVars, runVars>> PROVE RegTyped' /\ InsTyped' /\ HeldTyped'
  BY <1>2, <1>3, <1>6, RegTypedStep
<1>7. ASSUME NEW c \in Calls, InsStep(c), UNCHANGED runVars PROVE RegTyped' /\ InsTyped' /\ HeldTyped'
  BY <1>1, <1>3, <1>7, InsTypedStep, InstallersStayOut
<1>8. ASSUME NEW c \in Calls, RunStep(c) PROVE RegTyped' /\ InsTyped' /\ HeldTyped'
  <2>1. UNCHANGED insVars
    <3>1. CASE BuildsContext(c) BY <3>1, ContextFields
    <3>2. CASE Reopen(c) \/ Invoke(c) \/ InvokeOnProject(c) \/ UserCompletes(c)
      BY <3>2 DEF Reopen, Invoke, InvokeOnProject, UserCompletes, Started
    <3>3. CASE \/ ForceRelease(c) \/ OpenTaskSession(c) \/ BindTask(c) \/ InvokeAfterOpening(c) \/ CaptureFence(c) \/ Commit(c)
               \/ CheckFields(c) \/ ApplyExaminerIntent(c) \/ SaveRecord(c) \/ SaveQuestionerContext(c) \/ SaveDraft(c)
               \/ SaveReviewerReport(c) \/ MarkCompleted(c)
      BY <3>3 DEF ForceRelease, OpenTaskSession, BindTask, InvokeAfterOpening, CaptureFence, Commit, CheckFields,
           ApplyExaminerIntent, SaveRecord, SaveQuestionerContext, SaveDraft, SaveReviewerReport, MarkCompleted, Outside
    <3>4. QED BY <1>8, <3>1, <3>2, <3>3 DEF RunStep, BuildsContext
  <2>2. QED BY <1>2, <1>8, <2>1, RunTypedStep
<1>9. ASSUME NEW c \in Calls, Crash(c) PROVE RegTyped' /\ InsTyped' /\ HeldTyped' BY <1>9, CrashTyped
<1>10. QED BY <1>4, <1>5, <1>6, <1>7, <1>8, <1>9 DEF Next

(* The parts together are TypeOK.                                            *)
LEMMA AllTyped ==
  ConfTyped /\ ContractInv /\ RegTyped /\ GraphInv /\ InsTyped /\ HeldTyped /\ RecordsInv /\ WholeInv => TypeOK
<1> SUFFICES ASSUME ConfTyped, ContractInv, RegTyped, GraphInv, InsTyped, HeldTyped, RecordsInv, WholeInv PROVE TypeOK
  OBVIOUS
<1>1. ConfTypeOK
  <2>1. \A c \in Calls : edit[c].i \in 1..Len(Managed) BY DEF ContractInv, EditsWithin, EditWithin, Managed
  <2>2. \A c \in Calls : edit[c].op \in Ops /\ slipped[c] \in BOOLEAN BY DEF ConfTyped, EditTyped
  <2>3. QED BY <2>1, <2>2 DEF ConfTyped, DocsTyped, Text, ConfTypeOK, Ops
<1>2. RegTypeOK BY DEF RegTyped, WorkTyped, GraphInv, RefsFound, RegTypeOK
<1>3. InsTypeOK BY DEF InsTyped, InstTyped, InsTypeOK
<1>4. RunTypeOK
  <2>1. \A t \in Tasks : \A r \in records[t] : r.kind \in {Kinds[a] : a \in DOMAIN Kinds} /\ r.at \in Nat /\ r.id \in Ids
    BY DEF RecordsInv, Stamped, Kinds
  <2>2. \A c \in Calls : run[c].seen \subseteq UNION {records[t] : t \in Tasks} BY DEF WholeInv, Whole
  <2>3. QED BY <2>1, <2>2 DEF HeldTyped, RunTypeOK
<1>5. QED BY <1>1, <1>2, <1>3, <1>4 DEF TypeOK

(* TypeOK: every document has a text of its kind, every project, task,       *)
(* binding, lock and reference is what the stores may hold, an installer     *)
(* works on hosts it knows, and what runs were shown or have saved are       *)
(* records of tasks, in every reachable state.                               *)
THEOREM TypesHold == Spec => []TypeOK
<1>1. Init => ContractInv /\ RegistrationInv /\ OnceInv /\ LockInv /\ GraphInv /\ SessionInv /\ RecordsInv /\ WholeInv
              /\ ConfTyped /\ RegTyped /\ InsTyped /\ HeldTyped
  BY ContractInit, RegistrationInit, OnceInit, LockInit, GraphInit, SessionInit, RecordsInit, WholeInit, ConfTypedInit, TypedInit
<1>2. ContractInv /\ [Next]_vars => ContractInv' BY ContractStep
<1>3. ContractInv /\ RegistrationInv /\ [Next]_vars => RegistrationInv' BY RegistrationStep
<1>4. OnceInv /\ ContractInv /\ RegistrationInv /\ [Next]_vars => OnceInv' BY OnceStep
<1>5. LockInv /\ OnceInv /\ ContractInv /\ [Next]_vars => LockInv' BY LockStep
<1>6. GraphInv /\ LockInv /\ OnceInv /\ ContractInv /\ [Next]_vars => GraphInv' BY GraphStep
<1>7. SessionInv /\ GraphInv /\ LockInv /\ OnceInv /\ ContractInv /\ [Next]_vars => SessionInv' BY SessionStep
<1>8. RecordsInv /\ LockInv /\ ContractInv /\ [Next]_vars => RecordsInv' BY RecordsStep
<1>9. WholeInv /\ RecordsInv /\ SessionInv /\ GraphInv /\ LockInv /\ OnceInv /\ ContractInv /\ [Next]_vars => WholeInv'
  BY WholeStep
<1>10. ConfTyped /\ ContractInv /\ [Next]_vars => ConfTyped' BY ConfTypedStep
<1>11. RegTyped /\ InsTyped /\ HeldTyped /\ OnceInv /\ ContractInv /\ RegistrationInv /\ [Next]_vars
         => RegTyped' /\ InsTyped' /\ HeldTyped'
  BY TypedStep
<1>12. ConfTyped /\ ContractInv /\ RegTyped /\ GraphInv /\ InsTyped /\ HeldTyped /\ RecordsInv /\ WholeInv => TypeOK
  BY AllTyped
<1>13. QED BY <1>1, <1>2, <1>3, <1>4, <1>5, <1>6, <1>7, <1>8, <1>9, <1>10, <1>11, <1>12, PTL DEF Spec

-----------------------------------------------------------------------------
(* Saves.  What a page shows, and the version it was loaded with, say what   *)
(* its document holds, as long as no other call has changed the document     *)
(* while the page or the save was at work.  now is the document on disk.     *)
Unfilled(doc) == doc.state \in {"absent", "torn"}
Place(d) == IF d = "agent_config" THEN 1 ELSE 3
Loaded(e) == e.pc = "open" /\ Len(e.digest) = 3
(* A version with the unfilled rules is that of no document a save finds.    *)
Vouches(e, doc) == doc.at[e.key] = e.shown \/ (e.doc = "rules" /\ Unfilled(doc))
(* The document was found, or made, by the call.                             *)
Met(e) == \/ e.pc = "show" /\ e.doc = "agent_config"
          \/ e.pc = "open"
          \/ e.op = "save" /\ e.pc \in {"check", "agents", "ensure", "read", "write"}
Present(e, now) ==
  /\ e.doc = "agent_config" => e.pc \notin {"ensure", "fill"}
  /\ Met(e) => ~Unfilled(now)
  /\ e.op = "save" => e.pc # "fill"
Fetched(e, now) ==
  Len(e.digest) >= Place(e.doc) =>
    e.digest[Place(e.doc)] = now \/ (e.doc = "rules" /\ Unfilled(e.digest[Place(e.doc)]))
Follows(e, now) ==
  /\ e.op = "page" /\ e.pc = "agents" => e.digest = <<>>
  /\ e.pc = "fill" => now.state = "torn"
  /\ e.op = "page" /\ e.pc \in Fetching /\ ~Loaded(e) =>
       Fetched(e, now) /\ (e.pc = "open" => now.at[e.key] = e.shown)
  /\ Loaded(e) => Vouches(e, e.digest[Place(e.doc)])
  /\ e.pc = "check" => /\ Len(e.version) = 3 /\ Len(e.digest) < 3 /\ Vouches(e, e.version[Place(e.doc)])
                       /\ Len(e.digest) >= Place(e.doc) => e.digest[Place(e.doc)] = now
  /\ e.op = "save" /\ e.pc \in {"agents", "ensure", "read", "write"} => now.at[e.key] = e.shown
Pursues(e) == e.op \in {"page", "save"} /\ e.doc \in {"agent_config", "rules"}
Saved(c) ==
  Pursues(edit[c]) => /\ Present(edit[c], docs[edit[c].doc])
                      /\ ~slipped[c] => Follows(edit[c], docs[edit[c].doc])
SavesInv == \A c \in Calls : Saved(c)

(* A page that waits for its user is loaded.                                 *)
LEMMA WaitingLoaded == \A c : Waiting(c) <=> Loaded(edit[c])
BY DEF Waiting, Loaded, Managed

(* A call that edits nothing has nothing to keep.                            *)
LEMMA NothingPending == ASSUME NEW e, NEW now, e.pc \notin Editing PROVE Present(e, now) /\ Follows(e, now)
BY DEF Present, Follows, Editing, Met, Loaded, Fetching

(* At first there is no page.                                                *)
LEMMA SavesInit == Init => SavesInv
<1> SUFFICES ASSUME Init, NEW c \in Calls PROVE Saved(c) BY DEF SavesInv
<1>1. edit[c].op = "none" BY DEF Init, ConfInit, Idle
<1>2. QED BY <1>1 DEF Saved, Pursues

(* Whatever another call writes: it fills the document, and either the call  *)
(* at work slipped or nothing of its document changed.                       *)
LEMMA OthersSaved ==
  ASSUME SavesInv, ContractInv, NEW c \in Calls, NEW x \in Calls \ {c}, edit'[c] = edit[c],
         StaysOnDisk \/ \E d \in Documents : \E doc : Put(x, d, doc) /\ (Unfilled(doc) => Unfilled(docs[d]))
  PROVE  Saved(c)'
<1>1. CASE StaysOnDisk BY <1>1 DEF SavesInv, Saved, StaysOnDisk
<1>2. ASSUME NEW d \in Documents, NEW doc, Put(x, d, doc), Unfilled(doc) => Unfilled(docs[d]) PROVE Saved(c)'
  <2> SUFFICES ASSUME Pursues(edit[c])
               PROVE  /\ Present(edit[c], docs'[edit[c].doc])
                      /\ ~slipped'[c] => Follows(edit[c], docs'[edit[c].doc])
    BY DEF Saved
  <2>1. /\ edit[c].doc \in Documents /\ DOMAIN docs = Documents
        /\ Present(edit[c], docs[edit[c].doc]) /\ (~slipped[c] => Follows(edit[c], docs[edit[c].doc]))
    BY DEF SavesInv, Saved, Pursues, ContractInv, DocsWithin, Documents, RuleDocs
  <2>2. docs'[edit[c].doc] = IF edit[c].doc = d THEN doc ELSE docs[edit[c].doc] BY <1>2, <2>1 DEF Put
  <2>3. Present(edit[c], docs'[edit[c].doc])
    <3>1. Unfilled(docs'[edit[c].doc]) => Unfilled(docs[edit[c].doc]) BY <1>2, <2>2
    <3>2. QED BY <2>1, <3>1 DEF Present
  <2>4. slipped'[c] <=> slipped[c] \/ (AtWork(c) /\ edit[c].doc = d) BY <1>2 DEF Put, Slips
  <2>5. CASE AtWork(c) BY <2>1, <2>2, <2>3, <2>4, <2>5
  <2>6. CASE ~AtWork(c) /\ edit[c].pc \in Over BY <2>3, <2>6, NothingPending DEF Over, Editing
  <2>7. CASE Waiting(c)
    <3>1. Loaded(edit[c]) BY <2>7, WaitingLoaded
    <3>2. edit[c].pc = "open" BY <3>1 DEF Loaded
    <3>3. QED BY <2>1, <2>3, <2>4, <3>1, <3>2 DEF Follows
  <2>8. QED BY <2>5, <2>6, <2>7 DEF AtWork, Pursues
<1>3. QED BY <1>1, <1>2

(* The steps of the call itself.                                             *)
LEMMA RestingSaved == ASSUME NEW c \in Calls, edit'[c].pc \notin Editing PROVE Saved(c)'
BY NothingPending DEF Saved

(* Where a call goes: it is over, or it goes on with what it had.            *)
LEMMA GotoSaved ==
  ASSUME ContractInv, NEW c \in Calls, NEW pc, Goto(c, pc)
  PROVE  IF pc \in Over THEN Saved(c)'
         ELSE edit'[c] = [edit[c] EXCEPT !.pc = pc] /\ edit'[c].pc = pc /\ \A f \in EditFields \ {"pc"} : edit'[c][f] = edit[c][f]
<1>1. DOMAIN edit = Calls /\ DOMAIN edit[c] = EditFields BY DEF ContractInv, EditsWithin, EditWithin
<1>2. CASE pc \in Over
  <2>1. edit'[c] = Ended(c, pc) BY <1>1, <1>2 DEF Goto
  <2>2. edit'[c].pc = pc BY <2>1 DEF Ended, Idle
  <2>3. QED BY <1>2, <2>2, RestingSaved DEF Over, Editing
<1>3. CASE pc \notin Over
  <2>1. edit'[c] = [edit[c] EXCEPT !.pc = pc] BY <1>1, <1>3 DEF Goto
  <2>2. QED BY <1>1, <1>3, <2>1 DEF EditFields
<1>4. QED BY <1>2, <1>3

(* Reading the agents creates none but where there are none, and then no     *)
(* page was shown them.                                                      *)
LEMMA SeedAgentsSaved ==
  ASSUME SavesInv, ConfTyped, ContractInv, NEW c \in Calls, SeedAgents(c)
  PROVE  Saved(c)'
<1>0. /\ edit[c].pc = "agents" /\ DOMAIN docs = Documents /\ {"agent_config", "rules"} \subseteq Documents
      /\ slipped'[c] = slipped[c] /\ Saved(c)
  BY DEF SeedAgents, ContractInv, DocsWithin, Documents, RuleDocs, StaysOnDisk, Put, Slips, ConfTyped, SavesInv
<1>1. PICK seeded :
        /\ seeded = IF docs["agent_config"].state = "absent" THEN Document(Initial("agent_config"), "plain") ELSE docs["agent_config"]
        /\ IF seeded = docs["agent_config"] THEN StaysOnDisk ELSE Put(c, "agent_config", seeded)
        /\ ~Parses(seeded) => Goto(c, "failed")
        /\ Parses(seeded) /\ edit[c].op = "save" => Goto(c, "read")
        /\ Parses(seeded) /\ edit[c].op = "page" => Goto(c, IF edit[c].doc = "agent_config" THEN "show" ELSE "ensure")
        /\ Parses(seeded) /\ edit[c].op \notin {"page", "save"} => Goto(c, "ensure")
  BY DEF SeedAgents
<1>2. /\ docs'["agent_config"] = seeded /\ docs'["rules"] = docs["rules"]
      /\ docs["agent_config"].state # "absent" => seeded = docs["agent_config"]
  BY <1>0, <1>1 DEF Put, StaysOnDisk
<1> SUFFICES ASSUME Pursues(edit'[c])
             PROVE  /\ Present(edit'[c], docs'[edit'[c].doc])
                    /\ ~slipped'[c] => Follows(edit'[c], docs'[edit'[c].doc])
  BY DEF Saved
<1>3. CASE Goto(c, "failed") BY <1>3, GotoSaved DEF Over, Saved
<1>4. CASE edit[c].op = "save" /\ Parses(seeded)
  <2>0. PICK pc \in {"read"} : Goto(c, pc) BY <1>1, <1>4
  <2>1. edit'[c].pc = "read" /\ \A f \in EditFields \ {"pc"} : edit'[c][f] = edit[c][f] BY <2>0, GotoSaved DEF Over
  <2>2. Pursues(edit[c]) BY <2>1 DEF Pursues, EditFields
  <2>3. /\ edit[c].doc \in {"agent_config", "rules"} /\ ~Unfilled(docs[edit[c].doc])
        /\ ~slipped[c] => docs[edit[c].doc].at[edit[c].key] = edit[c].shown
    BY <1>0, <1>4, <2>2 DEF Saved, Present, Met, Follows, Pursues
  <2>4. docs'[edit[c].doc] = docs[edit[c].doc] BY <1>2, <2>3 DEF Unfilled
  <2>5. /\ edit'[c].op = "save" /\ edit'[c].doc = edit[c].doc /\ edit'[c].key = edit[c].key /\ edit'[c].shown = edit[c].shown
    BY <1>4, <2>1 DEF EditFields
  <2>6. QED BY <1>0, <2>1, <2>3, <2>4, <2>5 DEF Present, Met, Follows, Loaded, Fetching
<1>5. CASE edit[c].op # "save" /\ Parses(seeded)
  <2>1. PICK pc \in {"show", "ensure"} :
          Goto(c, pc) /\ (edit[c].op = "page" => (pc = "show" <=> edit[c].doc = "agent_config"))
    BY <1>1, <1>5
  <2>2. edit'[c].pc = pc /\ \A f \in EditFields \ {"pc"} : edit'[c][f] = edit[c][f] BY <2>1, GotoSaved DEF Over
  <2>3. edit'[c].op = edit[c].op /\ edit'[c].doc = edit[c].doc /\ edit'[c].digest = edit[c].digest
    BY <2>2 DEF EditFields
  <2>4. edit[c].op = "page" /\ edit[c].doc \in {"agent_config", "rules"} /\ Pursues(edit[c]) BY <1>5, <2>3 DEF Pursues
  <2>5. ~slipped[c] => edit[c].digest = <<>> BY <1>0, <2>4 DEF Saved, Follows
  <2>6. Present(edit'[c], docs'[edit'[c].doc])
    BY <1>2, <1>5, <2>1, <2>2, <2>3, <2>4 DEF Present, Met, Parses, Unfilled
  <2>7. ASSUME ~slipped'[c] PROVE Follows(edit'[c], docs'[edit'[c].doc])
    <3>1. edit'[c].digest = <<>> BY <1>0, <2>3, <2>5, <2>7
    <3>2. Len(edit'[c].digest) = 0 BY <3>1
    <3>3. Fetched(edit'[c], docs'[edit'[c].doc]) BY <3>2 DEF Fetched, Place
    <3>4. QED BY <2>1, <2>2, <2>3, <2>4, <3>3 DEF Follows, Loaded
  <2>8. QED BY <2>6, <2>7
<1>6. QED BY <1>1, <1>3, <1>4, <1>5

(* The rules are created only where a page has not seen them, or saw them    *)
(* unfilled.                                                                 *)
LEMMA EnsureSaved ==
  ASSUME SavesInv, ConfTyped, ContractInv, NEW c \in Calls, EnsureRules(c) \/ FillRules(c)
  PROVE  Saved(c)'
<1>0. /\ edit[c].pc \in {"ensure", "fill"} /\ DOMAIN docs = Documents /\ "rules" \in Documents
      /\ slipped'[c] = slipped[c] /\ Saved(c)
  BY DEF EnsureRules, FillRules, ContractInv, DocsWithin, Documents, RuleDocs, StaysOnDisk, Put, Slips, ConfTyped, SavesInv
<1> SUFFICES ASSUME Pursues(edit'[c])
             PROVE  /\ Present(edit'[c], docs'[edit'[c].doc])
                    /\ ~slipped'[c] => Follows(edit'[c], docs'[edit'[c].doc])
  BY DEF Saved
<1>1. PICK next \in {"fill", "show", "render", "ended", "read"} :
        /\ Goto(c, next)
        /\ edit[c].op = "page" => next \in {"fill", "show"}
        /\ edit[c].op = "save" => next \in {"fill", "read"}
        /\ next = "fill" <=> (edit[c].pc = "ensure" /\ docs["rules"].state = "absent")
  BY DEF EnsureRules, FillRules, AfterEnsure
<1>2. CASE next = "ended" BY <1>1, <1>2, GotoSaved DEF Over, Saved
<1>3. CASE next # "ended"
  <2>1. edit'[c].pc = next /\ \A f \in EditFields \ {"pc"} : edit'[c][f] = edit[c][f] BY <1>1, <1>3, GotoSaved DEF Over
  <2>2. /\ edit'[c].op = edit[c].op /\ edit'[c].doc = edit[c].doc /\ edit'[c].digest = edit[c].digest
        /\ edit'[c].key = edit[c].key /\ edit'[c].shown = edit[c].shown
    BY <2>1 DEF EditFields
  <2>3. Pursues(edit[c]) BY <2>2 DEF Pursues
  <2>4. Present(edit[c], docs[edit[c].doc]) /\ (~slipped[c] => Follows(edit[c], docs[edit[c].doc]))
    BY <1>0, <2>3 DEF Saved
  <2>5. edit[c].doc = "rules" BY <1>0, <2>3, <2>4 DEF Present, Pursues
  <2>6. CASE edit[c].op = "save"
    <3>1. edit[c].pc = "ensure" /\ ~Unfilled(docs["rules"]) BY <1>0, <2>4, <2>5, <2>6 DEF Present, Met
    <3>2. next = "read" /\ EnsureRules(c) BY <1>1, <2>6, <3>1 DEF Unfilled, FillRules
    <3>3. UNCHANGED docs BY <3>1, <3>2 DEF EnsureRules, Unfilled, StaysOnDisk
    <3>4. ~slipped[c] => docs["rules"].at[edit[c].key] = edit[c].shown BY <2>4, <2>5, <2>6, <3>1 DEF Follows
    <3>5. QED BY <1>0, <2>1, <2>2, <2>5, <2>6, <3>1, <3>2, <3>3, <3>4 DEF Present, Met, Follows, Loaded, Fetching
  <2>7. CASE edit[c].op = "page"
    <3>1. next \in {"fill", "show"} BY <1>1, <2>7
    <3>2. Present(edit'[c], docs'[edit'[c].doc]) BY <2>1, <2>2, <2>5, <2>7, <3>1 DEF Present, Met
    <3>3. ASSUME ~slipped[c] PROVE Follows(edit'[c], docs'[edit'[c].doc])
      <4>1. Fetched(edit[c], docs["rules"]) /\ (edit[c].pc = "fill" => docs["rules"].state = "torn")
        BY <1>0, <2>4, <2>5, <2>7, <3>3 DEF Follows, Fetching, Loaded
      <4>2. next = "fill" => docs'["rules"].state = "torn"
        BY <1>0, <1>1 DEF EnsureRules, FillRules, Put, Empty
      <4>3. docs'["rules"] # docs["rules"] => Unfilled(docs["rules"])
        BY <1>0, <4>1 DEF EnsureRules, FillRules, Put, StaysOnDisk, Unfilled
      <4>4. Fetched(edit'[c], docs'["rules"]) BY <2>2, <2>5, <4>1, <4>3 DEF Fetched
      <4>5. QED BY <2>1, <2>2, <2>5, <2>7, <3>1, <4>2, <4>4 DEF Follows, Loaded
    <3>4. QED BY <1>0, <3>2, <3>3
  <2>8. QED BY <2>3, <2>6, <2>7 DEF Pursues
<1>4. QED BY <1>2, <1>3

(* What the digest reads is the document as the page shows it.               *)
LEMMA DigestSaved ==
  ASSUME SavesInv, ConfTyped, ContractInv, NEW c \in Calls, Digest(c)
  PROVE  Saved(c)'
<1>0. /\ edit[c].op = "page" /\ edit[c].pc \in Fetching /\ UNCHANGED <<docs, slipped>>
      /\ Len(edit[c].digest) < Len(Managed) /\ DOMAIN edit[c] = EditFields /\ DOMAIN edit = Calls /\ Saved(c)
  BY DEF Digest, StaysOnDisk, ContractInv, EditsWithin, EditWithin, SavesInv
<1>1. edit'[c] = [edit[c] EXCEPT !.digest = Digested(c)] BY <1>0 DEF Digest
<1>2. edit'[c].digest = Digested(c) /\ \A f \in EditFields \ {"digest"} : edit'[c][f] = edit[c][f]
  BY <1>0, <1>1 DEF EditFields
<1>3. /\ edit'[c].op = edit[c].op /\ edit'[c].pc = edit[c].pc /\ edit'[c].doc = edit[c].doc
      /\ edit'[c].key = edit[c].key /\ edit'[c].shown = edit[c].shown
  BY <1>2 DEF EditFields
<1> SUFFICES ASSUME Pursues(edit'[c])
             PROVE  /\ Present(edit'[c], docs[edit'[c].doc])
                    /\ ~slipped[c] => Follows(edit'[c], docs[edit'[c].doc])
  BY <1>0 DEF Saved
<1> DEFINE n == Len(edit[c].digest)
           now == docs[edit[c].doc]
           slot == Place(edit[c].doc)
<1>4. /\ n \in 0..2 /\ Len(Digested(c)) = n + 1 /\ (\A i \in 1..n : Digested(c)[i] = edit[c].digest[i])
      /\ Digested(c)[n + 1] = docs[Managed[n + 1]]
  BY <1>0, DigestTyped
<1>5. Present(edit[c], now) /\ (~slipped[c] => Follows(edit[c], now)) /\ edit[c].doc \in {"agent_config", "rules"}
  BY <1>0, <1>3 DEF Saved, Pursues
<1>6. Managed[slot] = edit[c].doc /\ slot \in 1..3 BY <1>5 DEF Managed, Place
<1>7. Present(edit'[c], now) BY <1>3, <1>5 DEF Present, Met
<1>8. ASSUME ~slipped[c] PROVE Follows(edit'[c], now)
  <2>1. ~Loaded(edit[c])
    <3>1. n # 3
      <4> HIDE DEF n
      <4>1. QED BY <1>4
    <3>2. QED BY <3>1 DEF Loaded
  <2>2. Fetched(edit[c], now) /\ (edit[c].pc = "open" => now.at[edit[c].key] = edit[c].shown)
    BY <1>0, <1>5, <1>8, <2>1 DEF Follows
  <2>3. ~(edit[c].doc = "rules" /\ Unfilled(Digested(c)[slot])) /\ slot <= n + 1 => Digested(c)[slot] = now
    <3> HIDE DEF now
    <3>1. CASE slot = n + 1 BY <1>4, <1>6, <3>1 DEF now
    <3>2. CASE slot # n + 1 BY <1>4, <1>6, <2>2, <3>2 DEF Fetched
    <3>3. QED BY <3>1, <3>2
  <2>4. Fetched(edit'[c], now) BY <1>2, <1>3, <1>4, <2>3 DEF Fetched
  <2>5. Loaded(edit'[c]) => Vouches(edit'[c], edit'[c].digest[slot])
    <3>1. Loaded(edit'[c]) => slot <= n + 1 /\ edit[c].pc = "open" BY <1>2, <1>3, <1>4, <1>6 DEF Loaded
    <3>2. QED BY <1>2, <1>3, <2>2, <2>3, <3>1 DEF Vouches
  <2>6. (edit[c].pc = "fill" => now.state = "torn") /\ edit[c].pc \notin {"agents", "check"}
    BY <1>0, <1>5, <1>8 DEF Follows, Fetching
  <2> HIDE DEF now
  <2>7. QED BY <1>0, <1>3, <2>2, <2>4, <2>5, <2>6 DEF Follows
<1>9. QED BY <1>3, <1>7, <1>8

(* What the page shows is the document as the digest has read it, if it has. *)
LEMMA ShowSaved ==
  ASSUME SavesInv, ConfTyped, ContractInv, NEW c \in Calls, Show(c)
  PROVE  Saved(c)'
<1>0. /\ edit[c].pc = "show" /\ UNCHANGED <<docs, slipped>> /\ Saved(c) /\ edit[c].op = "page"
      /\ DOMAIN edit[c] = EditFields /\ DOMAIN edit = Calls
  BY DEF Show, StaysOnDisk, ContractInv, EditsWithin, EditWithin, SavesInv, ConfTyped, EditTyped, Fits
<1> DEFINE now == docs[edit[c].doc]
<1>1. CASE ~Parses(now)
  <2>1. Goto(c, "failed") BY <1>1 DEF Show
  <2>2. PICK pc \in {"failed"} : Goto(c, pc) BY <2>1
  <2>3. QED BY <2>2, GotoSaved DEF Over
<1>2. CASE Parses(now)
  <2>1. edit'[c] = [edit[c] EXCEPT !.pc = "open", !.shown = now.at[edit[c].key]] BY <1>0, <1>2 DEF Show
  <2> HIDE DEF now
  <2>2. /\ edit'[c].pc = "open" /\ edit'[c].shown = now.at[edit[c].key] /\ edit'[c].op = "page"
        /\ edit'[c].doc = edit[c].doc /\ edit'[c].key = edit[c].key /\ edit'[c].digest = edit[c].digest
    BY <1>0, <2>1 DEF EditFields
  <2> SUFFICES ASSUME Pursues(edit[c])
               PROVE  Present(edit'[c], now) /\ (~slipped[c] => Follows(edit'[c], now))
    BY <1>0, <2>2 DEF Saved, Pursues, now
  <2>3. edit[c].doc \in {"agent_config", "rules"} /\ (~slipped[c] => Fetched(edit[c], now))
    BY <1>0 DEF Saved, Pursues, Follows, Fetching, Loaded, now
  <2>4. Present(edit'[c], now) BY <1>2, <2>2 DEF Present, Parses, Unfilled
  <2>5. ASSUME ~slipped[c] PROVE Follows(edit'[c], now)
    <3>1. Fetched(edit'[c], now) BY <2>2, <2>3, <2>5 DEF Fetched
    <3>2. Loaded(edit'[c]) => Vouches(edit'[c], edit'[c].digest[Place(edit'[c].doc)])
      BY <2>2, <2>3, <3>1 DEF Loaded, Fetched, Vouches, Place
    <3>3. QED BY <2>2, <3>1, <3>2 DEF Follows
  <2>6. QED BY <2>4, <2>5
<1>3. QED BY <1>1, <1>2

(* The version of a save is the digest of its page.                          *)
LEMMA SaveSaved ==
  ASSUME SavesInv, ConfTyped, ContractInv, NEW c \in Calls, Save(c)
  PROVE  Saved(c)'
<1>0. /\ Loaded(edit[c]) /\ edit[c].op = "page" /\ UNCHANGED <<docs, slipped>> /\ Saved(c)
      /\ DOMAIN edit[c] = EditFields /\ DOMAIN edit = Calls
  BY WaitingLoaded DEF Save, StaysOnDisk, ContractInv, EditsWithin, EditWithin, SavesInv, ConfTyped, EditTyped, Fits, Loaded
<1>1. edit'[c] = [edit[c] EXCEPT !.op = "save", !.pc = "check", !.version = edit[c].digest, !.digest = <<>>]
  BY <1>0 DEF Save
<1>2. /\ edit'[c].op = "save" /\ edit'[c].pc = "check" /\ edit'[c].version = edit[c].digest /\ edit'[c].digest = <<>>
      /\ edit'[c].doc = edit[c].doc /\ edit'[c].key = edit[c].key /\ edit'[c].shown = edit[c].shown
  BY <1>0, <1>1 DEF EditFields
<1> DEFINE now == docs[edit[c].doc]
<1> HIDE DEF now
<1> SUFFICES ASSUME Pursues(edit[c])
             PROVE  Present(edit'[c], now) /\ (~slipped[c] => Follows(edit'[c], now))
  BY <1>0, <1>2 DEF Saved, Pursues, now
<1>3. Present(edit[c], now) /\ (~slipped[c] => Follows(edit[c], now)) BY <1>0 DEF Saved, now
<1>4. Present(edit'[c], now) BY <1>0, <1>2, <1>3 DEF Present, Met, Loaded
<1>5. ASSUME ~slipped[c] PROVE Follows(edit'[c], now)
  <2>1. Len(edit'[c].digest) = 0 BY <1>2
  <2>2. Len(edit'[c].version) = 3 /\ Vouches(edit'[c], edit'[c].version[Place(edit'[c].doc)])
    BY <1>0, <1>2, <1>3, <1>5 DEF Follows, Vouches, Loaded
  <2>3. QED BY <1>2, <2>1, <2>2 DEF Follows, Loaded, Place, Fetching
<1>6. QED BY <1>4, <1>5

(* A version that is that of the documents vouches for the value that was    *)
(* shown: a save finds its document, so it cannot have been unfilled.        *)
LEMMA FreshSaved ==
  ASSUME SavesInv, ConfTyped, ContractInv, NEW c \in Calls, CheckFresh(c)
  PROVE  Saved(c)'
<1>0. /\ edit[c].pc = "check" /\ edit[c].op = "save" /\ UNCHANGED <<docs, slipped>> /\ Saved(c)
      /\ DOMAIN edit[c] = EditFields /\ DOMAIN edit = Calls
  BY DEF CheckFresh, StaysOnDisk, ContractInv, EditsWithin, EditWithin, SavesInv, ConfTyped, EditTyped, Fits
<1> DEFINE now == docs[edit[c].doc]
           n == Len(edit[c].digest)
           slot == Place(edit[c].doc)
<1>1. CASE n + 1 < Len(Managed)
  <2>1. edit'[c] = [edit[c] EXCEPT !.digest = Digested(c)] BY <1>0, <1>1 DEF CheckFresh
  <2>2. /\ edit'[c].pc = "check" /\ edit'[c].op = "save" /\ edit'[c].digest = Digested(c) /\ edit'[c].version = edit[c].version
        /\ edit'[c].doc = edit[c].doc /\ edit'[c].key = edit[c].key /\ edit'[c].shown = edit[c].shown
    BY <1>0, <2>1 DEF EditFields
  <2> SUFFICES ASSUME Pursues(edit[c])
               PROVE  Present(edit'[c], now) /\ (~slipped[c] => Follows(edit'[c], now))
    BY <1>0, <2>2 DEF Saved, Pursues
  <2>3. Present(edit[c], now) /\ (~slipped[c] => Follows(edit[c], now)) BY <1>0 DEF Saved
  <2>4. n \in Nat /\ n < 2 /\ n < Len(Managed)
    <3>1. edit[c].digest \in Seq(Texts) BY DEF ConfTyped, EditTyped
    <3>2. n \in Nat BY <3>1
    <3>3. Len(Managed) = 3 BY DEF Managed
    <3> HIDE DEF n
    <3>4. QED BY <1>1, <3>2, <3>3
  <2>5. /\ Len(Digested(c)) = n + 1 /\ (\A i \in 1..n : Digested(c)[i] = edit[c].digest[i])
        /\ Digested(c)[n + 1] = docs[Managed[n + 1]]
    BY <2>4, DigestTyped
  <2>6. Managed[slot] = edit[c].doc /\ slot \in 1..3 BY DEF Managed, Place, Pursues
  <2> HIDE DEF n, now, slot
  <2>7. Present(edit'[c], now) BY <1>0, <2>2, <2>3 DEF Present, Met
  <2>8. ASSUME ~slipped[c] PROVE Follows(edit'[c], now)
    <3>1. /\ Len(edit[c].version) = 3 /\ Vouches(edit[c], edit[c].version[slot])
          /\ n >= slot => edit[c].digest[slot] = now
      BY <1>0, <2>3, <2>8 DEF Follows, n, slot
    <3>2. n + 1 >= slot => Digested(c)[slot] = now
      <4>1. CASE slot = n + 1 BY <2>5, <2>6, <4>1 DEF now
      <4>2. CASE slot # n + 1 BY <2>4, <2>5, <2>6, <3>1, <4>2
      <4>3. QED BY <4>1, <4>2
    <3>3. Vouches(edit'[c], edit'[c].version[Place(edit'[c].doc)]) BY <2>2, <3>1 DEF Vouches, slot
    <3>4. /\ Len(edit'[c].version) = 3 /\ Len(edit'[c].digest) < 3
          /\ Len(edit'[c].digest) >= Place(edit'[c].doc) => edit'[c].digest[Place(edit'[c].doc)] = now
      BY <2>2, <2>4, <2>5, <3>1, <3>2 DEF slot
    <3>5. QED BY <2>2, <3>3, <3>4 DEF Follows, Loaded, Fetching
  <2>9. QED BY <2>7, <2>8
<1>2. CASE ~(n + 1 < Len(Managed)) /\ (Goto(c, "refused") \/ Goto(c, "failed"))
  <2>1. PICK pc \in {"refused", "failed"} : Goto(c, pc) BY <1>2
  <2>2. QED BY <2>1, GotoSaved DEF Over
<1>3. CASE /\ ~(n + 1 < Len(Managed)) /\ SameVersion(Digested(c), edit[c].version)
           /\ edit' = [edit EXCEPT ![c].digest = <<>>, ![c].version = <<>>,
                                   ![c].pc = IF edit[c].doc = "agent_config" THEN "agents" ELSE "ensure"]
  <2>1. /\ edit'[c].pc = (IF edit[c].doc = "agent_config" THEN "agents" ELSE "ensure") /\ edit'[c].op = "save"
        /\ edit'[c].doc = edit[c].doc /\ edit'[c].key = edit[c].key /\ edit'[c].shown = edit[c].shown
    BY <1>0, <1>3 DEF EditFields
  <2> SUFFICES ASSUME Pursues(edit[c])
               PROVE  Present(edit'[c], now) /\ (~slipped[c] => Follows(edit'[c], now))
    BY <1>0, <2>1 DEF Saved, Pursues
  <2>2. /\ Present(edit[c], now) /\ (~slipped[c] => Follows(edit[c], now)) /\ edit[c].doc \in {"agent_config", "rules"}
        /\ ~Unfilled(now)
    BY <1>0 DEF Saved, Pursues, Present, Met
  <2>3. Present(edit'[c], now) BY <2>1, <2>2 DEF Present
  <2>4. ASSUME ~slipped[c] PROVE Follows(edit'[c], now)
    <3>1. n < 3 /\ Vouches(edit[c], edit[c].version[slot]) /\ (n >= slot => edit[c].digest[slot] = now)
      BY <1>0, <2>2, <2>4 DEF Follows
    <3>2. n = 2
      <4>1. edit[c].digest \in Seq(Texts) BY DEF ConfTyped, EditTyped
      <4>2. n \in Nat /\ ~(n + 1 < 3) BY <1>3, <4>1 DEF Managed
      <4> HIDE DEF n
      <4>3. QED BY <3>1, <4>2
    <3>3. Len(Managed) = 3 BY DEF Managed
    <3>4. /\ \A i \in 1..n : Digested(c)[i] = edit[c].digest[i]
          /\ Digested(c)[n + 1] = docs[Managed[n + 1]]
      <4>1. n < Len(Managed)
        <5> HIDE DEF n
        <5>1. QED BY <3>2, <3>3
      <4>2. QED BY <4>1, DigestTyped
    <3>5. edit[c].version[slot] = now
      <4>1. CASE edit[c].doc = "agent_config" BY <1>3, <3>1, <3>2, <3>4, <4>1 DEF SameVersion, Place
      <4>2. CASE edit[c].doc = "rules" BY <1>3, <3>2, <3>4, <4>2 DEF SameVersion, Place, Managed
      <4>3. QED BY <2>2, <4>1, <4>2
    <3>6. now.at[edit[c].key] = edit[c].shown BY <2>2, <3>1, <3>5 DEF Vouches
    <3> HIDE DEF now
    <3>7. QED BY <2>1, <2>2, <3>6 DEF Follows, Loaded, Fetching
  <2>5. QED BY <2>3, <2>4
<1>4. QED BY <1>0, <1>1, <1>2, <1>3 DEF CheckFresh

(* A page begins with an empty digest.                                       *)
LEMMA BeginSaved ==
  ASSUME SavesInv, ConfTyped, ContractInv, NEW c \in Calls, OpenPage(c) \/ SetRule(c) \/ HandEdit(c)
  PROVE  Saved(c)'
<1>0. DOMAIN edit = Calls BY DEF ContractInv, EditsWithin
<1>1. CASE HandEdit(c)
  <2>1. edit'[c] = [Idle EXCEPT !.op = "hand", !.pc = "ended"] BY <1>0, <1>1 DEF HandEdit
  <2>2. edit'[c].pc = "ended" BY <2>1 DEF Idle
  <2>3. QED BY <2>2, RestingSaved DEF Editing
<1>2. CASE OpenPage(c) \/ SetRule(c)
  <2>1. PICK op, pc, d, k, v :
          Begin(c, op, pc, d, k, v) /\ op \in {"page", "rule"} /\ (op = "page" => pc = "agents")
    BY <1>2 DEF OpenPage, SetRule
  <2>2. edit'[c] = [Idle EXCEPT !.op = op, !.pc = pc, !.doc = d, !.key = k, !.val = v] BY <1>0, <2>1 DEF Begin
  <2>3. edit'[c].op = op /\ edit'[c].pc = pc /\ edit'[c].digest = <<>> BY <2>2 DEF Idle
  <2>4. CASE op = "rule" BY <2>3, <2>4 DEF Saved, Pursues
  <2>5. CASE op = "page"
    <3>1. Present(edit'[c], docs'[edit'[c].doc]) /\ Follows(edit'[c], docs'[edit'[c].doc])
      BY <2>1, <2>3, <2>5 DEF Present, Met, Follows, Loaded, Fetching
    <3>2. QED BY <3>1 DEF Saved
  <2>6. QED BY <2>1, <2>4, <2>5
<1>3. QED BY <1>1, <1>2

(* Between the check and the write nothing changes, or the save has slipped. *)
LEMMA WriteSaved ==
  ASSUME SavesInv, ConfTyped, ContractInv, NEW c \in Calls, ReadDocument(c) \/ WriteDocument(c)
  PROVE  Saved(c)'
<1>0. DOMAIN edit[c] = EditFields /\ DOMAIN edit = Calls /\ Saved(c)
  BY DEF ContractInv, EditsWithin, EditWithin, SavesInv
<1>1. CASE ReadDocument(c)
  <2>1. edit[c].pc = "read" /\ UNCHANGED <<docs, slipped>> BY <1>1 DEF ReadDocument, StaysOnDisk
  <2>2. CASE Goto(c, "failed")
    <3>1. PICK pc \in {"failed"} : Goto(c, pc) BY <2>2
    <3>2. QED BY <3>1, GotoSaved DEF Over
  <2>3. CASE edit' = [edit EXCEPT ![c].pc = "write", ![c].base = docs[edit[c].doc]]
    <3>1. /\ edit'[c].pc = "write" /\ edit'[c].op = edit[c].op /\ edit'[c].doc = edit[c].doc
          /\ edit'[c].key = edit[c].key /\ edit'[c].shown = edit[c].shown
      BY <1>0, <2>3 DEF EditFields
    <3> DEFINE now == docs[edit[c].doc]
    <3> HIDE DEF now
    <3> SUFFICES ASSUME Pursues(edit[c])
                 PROVE  Present(edit'[c], now) /\ (~slipped[c] => Follows(edit'[c], now))
      BY <2>1, <3>1 DEF Saved, Pursues, now
    <3>2. Present(edit[c], now) /\ (~slipped[c] => Follows(edit[c], now)) BY <1>0 DEF Saved, now
    <3>3. QED BY <2>1, <3>1, <3>2 DEF Present, Met, Follows, Loaded, Fetching
  <2>4. QED BY <1>1, <2>2, <2>3 DEF ReadDocument
<1>2. CASE WriteDocument(c)
  <2>1. edit'[c] = AfterWrite(c) BY <1>0, <1>2 DEF WriteDocument
  <2>2. edit'[c].pc \in {"render", "ended"} BY <2>1 DEF AfterWrite, Ended, Idle
  <2>3. QED BY <2>2, RestingSaved DEF Editing
<1>3. QED BY <1>1, <1>2

(* A rendering edits no entry.                                               *)
LEMMA RenderSaved ==
  ASSUME ContractInv, NEW c \in Calls, ReadToRender(c) \/ Rewrite(c)
  PROVE  Saved(c)'
<1>0. DOMAIN edit[c] = EditFields /\ DOMAIN edit = Calls BY DEF ContractInv, EditsWithin, EditWithin
<1>1. edit'[c] \in {NextToRender(c), Ended(c, "failed"), [edit[c] EXCEPT !.pc = "rewrite", !.base = docs[Rendering(c)]]}
  BY <1>0 DEF ReadToRender, Rewrite
<1>2. /\ NextToRender(c).pc \in {"render", "ended"} /\ Ended(c, "failed").pc = "failed"
      /\ [edit[c] EXCEPT !.pc = "rewrite", !.base = docs[Rendering(c)]].pc = "rewrite"
  BY <1>0 DEF NextToRender, Ended, Idle, EditFields
<1>3. edit'[c].pc \in {"render", "ended", "failed", "rewrite"} BY <1>1, <1>2
<1>4. QED BY <1>3, RestingSaved DEF Editing

(* The steps of the call itself, together.                                   *)
LEMMA ConfSaved == ASSUME SavesInv, ConfTyped, ContractInv, NEW c \in Calls, ConfStep(c) PROVE Saved(c)'
BY BeginSaved, SeedAgentsSaved, EnsureSaved, DigestSaved, ShowSaved, SaveSaved, FreshSaved, WriteSaved, RenderSaved
   DEF ConfStep, ShowAgents, ShowRules

(* Of all calls only a rule operation or a seeding leaves a document         *)
(* unfilled, and that only where there was none.                             *)
LEMMA ConfPuts ==
  ASSUME ConfTyped, ContractInv, NEW c \in Calls, ConfStep(c)
  PROVE  StaysOnDisk \/ \E d \in Documents : \E doc : Put(c, d, doc) /\ (Unfilled(doc) => Unfilled(docs[d]))
<1>1. \A at, form : ~Unfilled(Document(at, form)) BY DEF Unfilled, Document
<1>2. \A d : ~Unfilled(Empty(d, "invalid")) BY DEF Unfilled, Empty
<1>3. "agent_config" \in Documents /\ "rules" \in Documents BY DEF Documents, RuleDocs
<1>4. CASE HandEdit(c)
  <2>1. PICK d \in Documents : \E doc \in HandDocument(d) : Put(c, d, doc) BY <1>4 DEF HandEdit
  <2>2. PICK doc \in HandDocument(d) : Put(c, d, doc) BY <2>1
  <2>3. ~Unfilled(doc)
    <3>1. CASE doc = Empty(d, "invalid") BY <1>2, <3>1
    <3>2. CASE doc # Empty(d, "invalid")
      <4>1. PICK k \in Keys(d), v \in HandValues(d) : doc = Document([docs[d].at EXCEPT ![k] = v], "hand")
        BY <3>2 DEF HandDocument
      <4>2. QED BY <1>1, <4>1
    <3>3. QED BY <3>1, <3>2
  <2>4. QED BY <2>2, <2>3
<1>5. CASE OpenPage(c) \/ SetRule(c) BY <1>5 DEF OpenPage, SetRule, Begin
<1>6. CASE SeedAgents(c) BY <1>1, <1>3, <1>6 DEF SeedAgents
<1>7. CASE EnsureRules(c) BY <1>3, <1>7 DEF EnsureRules, Unfilled
<1>8. CASE FillRules(c) BY <1>1, <1>3, <1>8 DEF FillRules
<1>9. CASE Digest(c) \/ ShowAgents(c) \/ ShowRules(c) \/ Save(c) \/ CheckFresh(c) \/ ReadDocument(c) \/ ReadToRender(c)
  BY <1>9 DEF Digest, ShowAgents, ShowRules, Show, Save, CheckFresh, ReadDocument, ReadToRender
<1>10. CASE WriteDocument(c)
  <2>1. Put(c, edit[c].doc, Document(Changed(c), "plain")) /\ edit[c].pc = "write" BY <1>10 DEF WriteDocument
  <2>2. edit[c].doc \in Documents BY <2>1 DEF ConfTyped, EditTyped, Fits, Editing, Asked, Editable, Documents
  <2>3. QED BY <1>1, <2>1, <2>2
<1>11. CASE Rewrite(c)
  <2>1. Rendering(c) \in Documents BY DEF Rendering, Managed, Documents, RuleDocs, ContractInv, EditsWithin, EditWithin
  <2>2. QED BY <1>1, <1>11, <2>1 DEF Rewrite
<1>12. QED BY <1>4, <1>5, <1>6, <1>7, <1>8, <1>9, <1>10, <1>11 DEF ConfStep

(* Every step keeps what saves rely on.                                      *)
LEMMA SavesStep == SavesInv /\ ConfTyped /\ ContractInv /\ [Next]_vars => SavesInv'
<1> SUFFICES ASSUME SavesInv, ConfTyped, ContractInv, [Next]_vars, NEW c \in Calls PROVE Saved(c)' BY DEF SavesInv
<1>0. DOMAIN edit = Calls BY DEF ContractInv, EditsWithin
<1>1. CASE UNCHANGED confVars BY <1>1 DEF SavesInv, Saved, confVars
<1>2. ASSUME NEW x \in Calls, ConfStep(x) PROVE Saved(c)'
  <2>1. CASE x = c BY <1>2, <2>1, ConfSaved
  <2>2. CASE x # c
    <3>1. edit'[c] = edit[c]
      <4>1. CASE HandEdit(x) \/ OpenPage(x) \/ SetRule(x) BY <1>0, <2>2, <4>1 DEF HandEdit, OpenPage, SetRule, Begin
      <4>2. CASE SeedAgents(x) \/ EnsureRules(x) \/ FillRules(x)
        BY <1>0, <2>2, <4>2 DEF SeedAgents, EnsureRules, FillRules, Goto
      <4>3. CASE Digest(x) \/ ShowAgents(x) \/ ShowRules(x) \/ Save(x) \/ CheckFresh(x)
        BY <1>0, <2>2, <4>3 DEF Digest, ShowAgents, ShowRules, Show, Save, CheckFresh, Goto
      <4>4. CASE ReadDocument(x) \/ WriteDocument(x) \/ ReadToRender(x) \/ Rewrite(x)
        BY <1>0, <2>2, <4>4 DEF ReadDocument, WriteDocument, ReadToRender, Rewrite, Goto
      <4>5. QED BY <1>2, <4>1, <4>2, <4>3, <4>4 DEF ConfStep
    <3>2. QED BY <1>2, <2>2, <3>1, ConfPuts, OthersSaved
  <2>3. QED BY <2>1, <2>2
<1>3. ASSUME NEW x \in Calls, RegStep(x) \/ InsStep(x) \/ RunStep(x) \/ Crash(x) PROVE Saved(c)'
  <2>1. /\ UNCHANGED <<docs, slipped>>
        /\ \/ UNCHANGED edit \/ Occupy(x) \/ Asks(x, "seed", "ensure") \/ Asks(x, "install", "agents")
           \/ Asks(x, "hand", "ended") \/ edit' = [edit EXCEPT ![x] = Ended(x, "crashed")]
    BY <1>3, OtherEdits
  <2>2. CASE edit'[c] = edit[c] BY <2>1, <2>2 DEF SavesInv, Saved
  <2>3. CASE edit'[c] # edit[c]
    <3>1. x = c BY <1>0, <2>1, <2>3 DEF Occupy, Asks
    <3>2. CASE Occupy(c)
      <4>1. edit'[c] = [edit[c] EXCEPT !.pc = "busy"] BY <1>0, <3>2 DEF Occupy
      <4>2. edit'[c].pc = "busy" BY <4>1 DEF ContractInv, EditsWithin, EditWithin, EditFields
      <4>3. QED BY <4>2, RestingSaved DEF Editing
    <3>3. CASE \E op, pc : op \in {"seed", "install", "hand"} /\ Asks(c, op, pc)
      <4>1. PICK op, pc : op \in {"seed", "install", "hand"} /\ Asks(c, op, pc) BY <3>3
      <4>2. edit'[c].op \in {"seed", "install", "hand"} BY <1>0, <4>1 DEF Asks, Idle
      <4>3. QED BY <4>2 DEF Saved, Pursues
    <3>4. CASE edit' = [edit EXCEPT ![c] = Ended(c, "crashed")]
      <4>1. edit'[c].pc = "crashed" BY <1>0, <3>4 DEF Ended, Idle
      <4>2. QED BY <4>1, RestingSaved DEF Editing
    <3>5. QED BY <2>1, <2>3, <3>1, <3>2, <3>3, <3>4
  <2>4. QED BY <2>2, <2>3
<1>4. QED BY <1>1, <1>2, <1>3 DEF Next, vars

(* The invariant says it of the step that writes: the value is still the one *)
(* that was shown, unless the document is a project's or was changed while   *)
(* the call was at work.                                                     *)
LEMMA WritesOverShown ==
  ASSUME SavesInv, ConfTyped, NEW c \in Calls, edit[c].op = "save", edit[c].pc = "write"
  PROVE  docs[edit[c].doc].at[edit[c].key] = edit[c].shown \/ edit[c].doc = "project_rules" \/ slipped[c]
<1>1. edit[c].doc \in Editable BY DEF ConfTyped, EditTyped, Editing, Asked
<1>2. QED BY <1>1 DEF SavesInv, Saved, Pursues, Follows, Editable, RuleDocs

(* SavesOverWhatWasShown: a save writes over the value its page has shown,   *)
(* for any number of pages, saves, rule operations, installs and edits by    *)
(* hand at a time.                                                           *)
THEOREM SavesKeepWhatWasShown == Spec => SavesOverWhatWasShown
<1>1. Init => ContractInv /\ ConfTyped /\ SavesInv BY ContractInit, ConfTypedInit, SavesInit
<1>2. ContractInv /\ [Next]_vars => ContractInv' BY ContractStep
<1>3. ConfTyped /\ ContractInv /\ [Next]_vars => ConfTyped' BY ConfTypedStep
<1>4. SavesInv /\ ConfTyped /\ ContractInv /\ [Next]_vars => SavesInv' BY SavesStep
<1>5. SavesInv /\ ConfTyped /\ [Next]_vars =>
        [\A c \in Calls :
           (edit[c].op = "save" /\ edit[c].pc = "write" /\ edit'[c].pc = "render")
             => \/ docs[edit[c].doc].at[edit[c].key] = edit[c].shown
                \/ edit[c].doc = "project_rules" \/ slipped[c]]_confVars
  BY WritesOverShown
<1>6. QED BY <1>1, <1>2, <1>3, <1>4, <1>5, PTL DEF Spec, SavesOverWhatWasShown
=============================================================================
