---------------------------- MODULE Configuration ---------------------------
(***************************************************************************)
(* The configuration documents under ~/.synaphex and the calls that write  *)
(* them without a lock: saves of the configure page, rule operations, and  *)
(* the seeding that an installation or a new project asks for.  Each reads *)
(* a whole document, changes it and replaces it; a save first compares     *)
(* what is on disk with the version its page was shown and ends, like an   *)
(* install, by rendering every document again.  A call may also be the     *)
(* user who edits a file by hand.                                          *)
(*                                                                         *)
(* A document is its state, its entries and its form: "plain" JSON of a    *)
(* manager, "canonical" of the renderer, or written by "hand".             *)
(***************************************************************************)
EXTENDS AgentContracts, FiniteSets, Sequences

CONSTANTS
  Calls,       \* calls in flight, each made once
  KeyAgents,   \* agents whose configuration is edited
  Edges,       \* agent calls that rules are set for
  Models       \* models an agent may be given

ASSUME KeysAssumption == KeyAgents \subseteq Agents /\ Edges \subseteq Agents \X Agents
ASSUME ModelsAssumption == Models \cap {"unconfigured", "removed"} = {}

VARIABLES
  docs,      \* docs[d]: the document on disk
  edit,      \* edit[c]: what call c is doing to the documents
  byHand,    \* history: a forbidden agent call was allowed by hand
  slipped    \* history, slipped[c]: its document changed while call c was at work

confVars == <<docs, edit, byHand, slipped>>

Managed == <<"agent_config", "agent_behavior", "rules">>
RuleDocs == {"rules", "project_rules"}
Documents == {"agent_config", "agent_behavior"} \cup RuleDocs
Editable == {"agent_config"} \cup RuleDocs

Keys(d) == IF d \in RuleDocs THEN Edges ELSE KeyAgents
AgentEntries == Models \cup {"unconfigured", "removed"}
BehaviorEntries == {"default", "narrow"}
Entries(d) == CASE d \in RuleDocs -> {"unset"} \cup Decisions
                [] d = "agent_config" -> AgentEntries
                [] OTHER -> BehaviorEntries
Blank(d) == [k \in Keys(d) |-> CASE d \in RuleDocs -> "unset"
                                 [] d = "agent_config" -> "unconfigured"
                                 [] OTHER -> "default"]
AllowedAtFirst == {<<"questioner", "examiner">>, <<"coder", "planner">>}
Initial(d) == IF d = "rules" THEN [k \in Edges |-> CASE k \in ForbiddenEdges -> "deny"
                                                      [] k \in AllowedAtFirst -> "allow" [] OTHER -> "ask"]
              ELSE Blank(d)

Document(at, form) == [state |-> "ok", at |-> at, form |-> form]
Empty(d, state) == [state |-> state, at |-> Blank(d), form |-> "plain"]

\* What the managers parse and what the renderer accepts differ: an agent whose
\* provider was removed is an entry of the one and an error of the other.
Parses(doc) == doc.state = "ok"
Renders(d, doc) == doc.state = "ok" /\ (d = "agent_config" => \A k \in KeyAgents : doc.at[k] # "removed")

Idle == [op |-> "none", pc |-> "idle", doc |-> "rules", key |-> "none", val |-> "none", i |-> 1,
         digest |-> <<>>, version |-> <<>>, shown |-> "none", base |-> Empty("rules", "absent")]
Over == {"ended", "refused", "failed", "crashed"}

\* A page that is loaded waits for its user and does nothing.
Waiting(c) == edit[c].pc = "open" /\ Len(edit[c].digest) = Len(Managed)
AtWork(c) == edit[c].op \in {"page", "save"} /\ edit[c].pc \notin Over /\ ~Waiting(c)
Slips(c, d) == [x \in Calls |-> slipped[x] \/ (x # c /\ AtWork(x) /\ edit[x].doc = d)]
Put(c, d, doc) == docs' = [docs EXCEPT ![d] = doc] /\ slipped' = Slips(c, d)

Ended(c, pc) == [Idle EXCEPT !.op = edit[c].op, !.pc = pc]
Goto(c, pc) == edit' = [edit EXCEPT ![c] = IF pc \in Over THEN Ended(c, pc) ELSE [edit[c] EXCEPT !.pc = pc]]
StaysOnDisk == UNCHANGED <<docs, slipped>>
NotByHand == UNCHANGED byHand

ConfInit(installed) ==
  /\ docs = [d \in Documents |-> IF d = "project_rules" THEN Document(Blank(d), "plain")
                                 ELSE IF installed THEN Document(Initial(d), "canonical")
                                 ELSE Empty(d, "absent")]
  /\ edit = [c \in Calls |-> Idle]
  /\ byHand = FALSE /\ slipped = [c \in Calls |-> FALSE]

ConfTypeOK ==
  /\ \A d \in Documents : /\ docs[d].state \in {"ok", "absent", "torn", "invalid"}
                          /\ docs[d].at \in [Keys(d) -> Entries(d)]
                          /\ docs[d].form \in {"plain", "canonical", "hand"}
  /\ \A c \in Calls : /\ edit[c].op \in {"none", "page", "save", "rule", "install", "seed", "hand"}
                      /\ edit[c].i \in 1..Len(Managed) /\ slipped[c] \in BOOLEAN
  /\ byHand \in BOOLEAN

(***************************************************************************)
(* Beginnings.  A page is loaded for the document its user will edit; the  *)
(* status and the values are fetched side by side.                         *)
(***************************************************************************)
AgentChoices == Models \cup {"unconfigured"}
RuleChoices == {"unset", "allow", "ask", "deny"}
Choices(d) == IF d = "agent_config" THEN AgentChoices ELSE RuleChoices

\* Each call is made once.
Fresh(c) == edit[c].pc = "idle"
Begin(c, op, pc, d, k, v) ==
  /\ edit[c].pc = "idle"
  /\ edit' = [edit EXCEPT ![c] = [Idle EXCEPT !.op = op, !.pc = pc, !.doc = d, !.key = k, !.val = v]]
  /\ StaysOnDisk /\ NotByHand

\* A bug: the rules of a project are not checked.
WithinGlobalRoles(d, k, v) == ~(d = "rules" /\ v \in {"allow", "ask"} /\ k \in ForbiddenEdges)
\* Of a call that the role contract forbids a rule can only be denied, or removed.
WithinRoles(d, k, v) == ~(d \in RuleDocs /\ v \in {"allow", "ask"} /\ k \in ForbiddenEdges)

OpenPage(c) == Fresh(c) /\ \E d \in Editable : \E k \in Keys(d), v \in Choices(d) : Begin(c, "page", "agents", d, k, v)
SetRule(c) == Fresh(c) /\ \E d \in RuleDocs : \E k \in Edges, v \in Choices(d) :
                WithinRoles(d, k, v) /\ Begin(c, "rule", "ensure", d, k, v)

\* Reading the agents creates their document if there is none, whole.
SeedAgents(c) ==
  /\ edit[c].pc = "agents"
  /\ LET seeded == IF docs["agent_config"].state = "absent"
                   THEN Document(Initial("agent_config"), "plain") ELSE docs["agent_config"]
         next == IF ~Parses(seeded) THEN "failed"
                 ELSE CASE edit[c].op = "save" -> "read"
                        [] edit[c].op = "page" /\ edit[c].doc = "agent_config" -> "show"
                        [] OTHER -> "ensure"
     IN (IF seeded = docs["agent_config"] THEN StaysOnDisk ELSE Put(c, "agent_config", seeded)) /\ Goto(c, next)
  /\ NotByHand

\* The global rules are created by every rule call: the file first, then its text.
AfterEnsure(op) == CASE op = "page" -> "show" [] op = "install" -> "render" [] op = "seed" -> "ended" [] OTHER -> "read"
EnsureRules(c) ==
  /\ edit[c].pc = "ensure"
  /\ IF docs["rules"].state = "absent" THEN Put(c, "rules", Empty("rules", "torn")) /\ Goto(c, "fill")
     ELSE StaysOnDisk /\ Goto(c, AfterEnsure(edit[c].op))
  /\ NotByHand
FillRules(c) ==
  /\ edit[c].pc = "fill"
  /\ Put(c, "rules", Document(Initial("rules"), "plain"))
  /\ Goto(c, AfterEnsure(edit[c].op)) /\ NotByHand

(***************************************************************************)
(* The page, and the check of its version.  The digest reads one document  *)
(* after the other.                                                        *)
(***************************************************************************)
Digested(c) == Append(edit[c].digest, docs[Managed[Len(edit[c].digest) + 1]])
Fetching == {"ensure", "fill", "show", "open"}
Digest(c) ==
  /\ edit[c].op = "page" /\ edit[c].pc \in Fetching /\ Len(edit[c].digest) < Len(Managed)
  /\ edit' = [edit EXCEPT ![c].digest = Digested(c)]
  /\ StaysOnDisk /\ NotByHand

Show(c) ==
  /\ edit[c].pc = "show"
  /\ IF Parses(docs[edit[c].doc])
     THEN edit' = [edit EXCEPT ![c].pc = "open", ![c].shown = docs[edit[c].doc].at[edit[c].key]]
     ELSE Goto(c, "failed")
  /\ StaysOnDisk /\ NotByHand
ShowAgents(c) == edit[c].doc = "agent_config" /\ Show(c)
ShowRules(c) == edit[c].doc \in RuleDocs /\ Show(c)

Save(c) ==
  /\ Waiting(c)
  /\ edit' = [edit EXCEPT ![c].op = "save", ![c].pc = "check",
                          ![c].version = edit[c].digest, ![c].digest = <<>>]
  /\ StaysOnDisk /\ NotByHand

\* A bug: only the first document is compared.
SameAgents(digest, version) == digest[1] = version[1]
SameVersion(digest, version) == digest = version
CheckFresh(c) ==
  /\ edit[c].pc = "check"
  /\ IF Len(edit[c].digest) + 1 < Len(Managed) THEN edit' = [edit EXCEPT ![c].digest = Digested(c)]
     ELSE IF ~SameVersion(Digested(c), edit[c].version) THEN Goto(c, "refused")
     ELSE IF ~WithinRoles(edit[c].doc, edit[c].key, edit[c].val) THEN Goto(c, "failed")
     ELSE edit' = [edit EXCEPT ![c].digest = <<>>, ![c].version = <<>>,
                               ![c].pc = IF edit[c].doc = "agent_config" THEN "agents" ELSE "ensure"]
  /\ StaysOnDisk /\ NotByHand

(***************************************************************************)
(* The change: the whole document is read, one entry is replaced, and the  *)
(* whole document is written.  A save then renders all documents.          *)
(***************************************************************************)
ReadDocument(c) ==
  /\ edit[c].pc = "read"
  /\ IF Parses(docs[edit[c].doc])
     THEN edit' = [edit EXCEPT ![c].pc = "write", ![c].base = docs[edit[c].doc]]
     ELSE Goto(c, "failed")
  /\ StaysOnDisk /\ NotByHand

Changed(c) == [edit[c].base.at EXCEPT ![edit[c].key] = edit[c].val]
AfterWrite(c) == IF edit[c].op = "save" THEN [Idle EXCEPT !.op = "save", !.pc = "render"] ELSE Ended(c, "ended")
WriteDocument(c) ==
  /\ edit[c].pc = "write"
  /\ Put(c, edit[c].doc, Document(Changed(c), "plain"))
  /\ edit' = [edit EXCEPT ![c] = AfterWrite(c)]
  /\ NotByHand

Rendering(c) == Managed[edit[c].i]
\* A bug: the rendering does not end after the last document.
NextToRenderTwice(c) == [Idle EXCEPT !.op = edit[c].op, !.pc = "render", !.i = edit[c].i + 1]
NextToRender(c) == IF edit[c].i = Len(Managed) THEN Ended(c, "ended")
                   ELSE [Idle EXCEPT !.op = edit[c].op, !.pc = "render", !.i = edit[c].i + 1]

ReadToRender(c) ==
  /\ edit[c].pc = "render"
  /\ LET doc == docs[Rendering(c)] IN
       edit' = [edit EXCEPT ![c] =
         IF doc.state = "absent" /\ Rendering(c) = "rules" THEN NextToRender(c)
         ELSE IF doc.state = "absent" \/ Renders(Rendering(c), doc) THEN [edit[c] EXCEPT !.pc = "rewrite", !.base = doc]
         ELSE Ended(c, "failed")]
  /\ StaysOnDisk /\ NotByHand

Rewrite(c) ==
  /\ edit[c].pc = "rewrite"
  /\ Put(c, Rendering(c), Document(IF edit[c].base.state = "absent" THEN Initial(Rendering(c)) ELSE edit[c].base.at,
                                   "canonical"))
  /\ edit' = [edit EXCEPT ![c] = NextToRender(c)]
  /\ NotByHand

(***************************************************************************)
(* What the user does to the files, and the end of a process.              *)
(***************************************************************************)
HandValues(d) == CASE d \in RuleDocs -> {"allow"} [] d = "agent_config" -> Models \cup {"removed"} [] OTHER -> {"narrow"}
HandDocument(d) ==
  {Document([docs[d].at EXCEPT ![k] = v], "hand") : k \in Keys(d), v \in HandValues(d)}
    \cup {Empty(d, "invalid")}

HandEdit(c) ==
  /\ edit[c].pc = "idle"
  /\ \E d \in Documents : \E doc \in HandDocument(d) :
       /\ Put(c, d, doc)
       /\ byHand' = (byHand \/ (d \in RuleDocs /\ \E e \in ForbiddenEdges \cap Edges : doc.at[e] = "allow"))
  /\ edit' = [edit EXCEPT ![c] = [Idle EXCEPT !.op = "hand", !.pc = "ended"]]

ConfStep(c) ==
  \/ HandEdit(c) \/ OpenPage(c) \/ SetRule(c) \/ SeedAgents(c) \/ EnsureRules(c) \/ FillRules(c)
  \/ Digest(c) \/ ShowAgents(c) \/ ShowRules(c) \/ Save(c) \/ CheckFresh(c)
  \/ ReadDocument(c) \/ WriteDocument(c) \/ ReadToRender(c) \/ Rewrite(c)

\* No rule among these allows what a contract forbids, but by the user's hand.
RulesWithin(rules) == \A e \in DOMAIN rules \cap ForbiddenEdges : rules[e] = "allow" => byHand

\* A save replaces the value that its page showed to the user, and no other: a
\* value that changed between the loading of the page and the save makes the
\* version differ.  The version says nothing of a project's rules, and nothing
\* of a change that arrives while the page is being fetched or after the check.
SavesOverWhatWasShown ==
  [][\A c \in Calls :
       (edit[c].op = "save" /\ edit[c].pc = "write" /\ edit'[c].pc = "render")
         => \/ docs[edit[c].doc].at[edit[c].key] = edit[c].shown
            \/ edit[c].doc = "project_rules" \/ slipped[c]]_confVars
=============================================================================
