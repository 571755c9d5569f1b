------------------------- MODULE ProviderExecution --------------------------
(***************************************************************************)
(* From a configured agent to an accepted answer: which configuration may  *)
(* run, what the provider's program is allowed to do, and what of the      *)
(* program's end and output counts as the agent's result.                  *)
(*                                                                         *)
(* The output of a program is abstracted to a record: how it ended, and    *)
(* its "text": "none", "part" (a JSON text cut short), "whole", "error" (a *)
(* JSON text that reports one) or "garbled" (something after the text).    *)
(***************************************************************************)
EXTENDS AgentContracts

Providers == {"openai", "anthropic", "google"}
Surfaces == {"cli", "vscode"}
SupportedTargets == {"openai", "anthropic"}

\* The models of the catalogue are one per provider here, with its settings.
Models == [openai |-> {"gpt"}, anthropic |-> {"claude", "haiku"}, google |-> {}]
Settings(model) == CASE model = "gpt" -> {"low", "high"} [] model = "claude" -> {"low", "max"}
                     [] OTHER -> {}
NoSetting == "unset"

ValidSettings(config) == config.setting = NoSetting \/ config.setting \in Settings(config.model)
ValidModel(config) == config.model \in Models[config.provider] /\ ValidSettings(config)
BasicShape(config) == config.provider \in Providers /\ config.surface \in Surfaces

Authorable(config) ==
  BasicShape(config) /\ config.surface = "cli" /\ config.provider \in SupportedTargets
  /\ ValidModel(config)

Configured(config) == config.status = "configured"
Executable(config) == Configured(config) /\ Authorable(config)

-----------------------------------------------------------------------------
(* Whether the provider's program is installed and able.  A probe is the     *)
(* outcome of one short run: how it ended and what it said.                  *)

\* Releases are compared part by part; a prerelease is older than its release.
Before(v, w) ==
  \E i \in 1 .. 4 : v[i] < w[i] /\ \A j \in 1 .. i - 1 : v[j] = w[j]
MinimumClaude == <<2, 1, 248, 1>>

ProbeWorked(probe) == probe.spawned /\ probe.code = 0 /\ ~probe.timedOut

ClaudeAvailable(runtime) ==
  /\ ProbeWorked(runtime.version) /\ runtime.version.number # <<>>
  /\ ~Before(runtime.version.number, MinimumClaude)
  /\ ProbeWorked(runtime.capability) /\ runtime.capability.number # <<>>

CodexAvailable(runtime) == ProbeWorked(runtime.version)

AntigravityAvailable(runtime) ==
  /\ ProbeWorked(runtime.version) /\ runtime.version.number # <<>>
  /\ ProbeWorked(runtime.capability) /\ runtime.capability.flags

Available(provider, runtimes) ==
  CASE provider = "anthropic" -> ClaudeAvailable(runtimes.anthropic)
    [] provider = "openai" -> CodexAvailable(runtimes.openai)
    [] provider = "google" -> AntigravityAvailable(runtimes.google)

\* ProviderRouter.resolve: only the command line is ever executed.
Routable(config, runtimes) ==
  config.surface = "cli" /\ Available(config.provider, runtimes)

-----------------------------------------------------------------------------
(* The policy of one invocation and what each provider makes of it.          *)

UsableNetwork(decision, approved) == decision = "allow" \/ (decision = "ask" /\ approved)

SourceModification(agent) == IF ModifiesSource(agent) THEN "workspace_write" ELSE "read_only"

ExecutionPolicy(agent, decision, approved) ==
  [source |-> SourceModification(agent),
   network |-> UsableNetwork(decision, decision = "ask" /\ approved)]

ReadTools == {"Read", "Glob", "Grep"}
WriteTools == {"Edit", "Write", "Bash"}
WebTools == {"WebFetch", "WebSearch"}

\* resolveClaudeExecutionPolicy: the tools that exist for the program at all.
ClaudeTools(policy) ==
  ReadTools \cup (IF policy.source = "workspace_write" THEN WriteTools ELSE {})
            \cup (IF policy.network THEN WebTools ELSE {})

\* resolveCodexExecutionPolicy.
CodexSandbox(policy) ==
  [sandbox |-> IF policy.source = "workspace_write" THEN "workspace-write" ELSE "read-only",
   shellNetwork |-> FALSE, webSearch |-> IF policy.network THEN "live" ELSE "disabled"]

\* AntigravityExecutionPolicyResolver refuses every policy, in its three cases.
AntigravityAccepts(policy) ==
  ~policy.network /\ policy.source \notin {"read_only", "workspace_write"}

-----------------------------------------------------------------------------
(* A route is dispatched to the executor of its provider, which checks the   *)
(* route again, resolves the policy for the agent's role and runs a program. *)

ClaudeRoute(config) == config.provider = "anthropic" /\ config.surface = "cli" /\ ValidModel(config)
CodexModel(config) ==
  config.model \in Models["openai"]
  /\ (config.setting = NoSetting \/ config.setting \in Settings(config.model))
CodexRoute(config) == config.provider = "openai" /\ config.surface = "cli" /\ CodexModel(config)
AntigravityRoute(config) ==
  config.provider = "google" /\ config.surface = "cli" /\ config.setting = NoSetting

ClaudePolicy(agent, policy) == policy.source = SourceModification(agent)
CodexPolicy(agent, policy) == policy.source = SourceModification(agent)
AntigravityPolicy(agent, policy) ==
  policy.source = SourceModification(agent) /\ AntigravityAccepts(policy)

Dispatched(config, agent, policy) ==
  /\ config.surface = "cli"
  /\ CASE config.provider = "anthropic" -> ClaudeRoute(config) /\ ClaudePolicy(agent, policy)
       [] config.provider = "openai" -> CodexRoute(config) /\ CodexPolicy(agent, policy)
       [] config.provider = "google" -> AntigravityRoute(config) /\ AntigravityPolicy(agent, policy)

\* What the program may do and where its answer is looked for.
ClaudeProgram(policy) ==
  [writes |-> ClaudeTools(policy) \cap WriteTools # {}, answers |-> "stdout"]
CodexProgram(policy) ==
  [writes |-> CodexSandbox(policy).sandbox = "workspace-write", answers |-> "file"]
AntigravityProgram(policy) ==
  [writes |-> policy.source = "workspace_write", answers |-> "stdout"]

ProgramOf(config, policy) ==
  CASE config.provider = "anthropic" -> ClaudeProgram(policy)
    [] config.provider = "openai" -> CodexProgram(policy)
    [] config.provider = "google" -> AntigravityProgram(policy)

-----------------------------------------------------------------------------
(* What the program's end means.                                             *)

\* BoundedCapture: "full" keeps the first bytes, "tail" the last; either way a
\* text that does not fit is cut and marked.
Capture(text, size, limit) ==
  [text |-> IF size > limit THEN "part" ELSE text, overflowed |-> size > limit]

\* A bug: a program that answered after its time was up still counts.
SuccessfulClaudeLate(end) == ~end.overflowed /\ end.code = 0
SuccessfulClaude(end) == ~end.timedOut /\ ~end.overflowed /\ end.code = 0
SuccessfulAntigravity(end) == ~end.timedOut /\ ~end.overflowed /\ end.code = 0
SuccessfulCodex(end) == ~end.timedOut /\ end.code = 0

\* The file a Codex run answers in is missing, or what is in it is not JSON.
ReadableResult(end) == end.text \notin {"none", "part", "garbled"}

Nothing == [none |-> "nothing"]

\* The envelope decoders: one JSON text that is no error and has the output.
DecodeClaude(end) == IF end.text = "whole" THEN end.answer ELSE Nothing
DecodeAntigravity(end) == IF end.text = "whole" THEN end.answer ELSE Nothing

-----------------------------------------------------------------------------
(* The wire form of a result for Codex, whose schema knows no optional keys: *)
(* all keys of the role are there, null when absent, and what has no fixed   *)
(* shape is JSON text.                                                       *)

RoleKeys == [questioner |-> {"state", "question", "workingContextJson"},
             researcher |-> {"payloadJson"},
             examiner   |-> {"memoryIntent", "memoryConflict"},
             planner    |-> {"draftPlanMarkdown", "consultation"},
             coder      |-> {"payloadJson"},
             reviewer   |-> {"reviewStatus", "failureOrigin", "payloadJson"}]

PayloadField == [researcher |-> "researchArtifact", coder |-> "workRecord", reviewer |-> "report"]

CoreKey(agent, key) ==
  CASE key = "payloadJson" -> PayloadField[agent]
    [] key = "workingContextJson" -> "workingContext"
    [] OTHER -> key

Opaque == {"payloadJson", "workingContextJson"}
Required == {"payloadJson", "state", "memoryIntent", "reviewStatus"}

\* A text that is JSON is "text:json".
Malformed(key, value) == key \in Opaque /\ value # "text:json" /\ (value = "null" => key \in Required)
FromWire(key, value) == IF key \in Opaque THEN "json" ELSE value

\* CodexAgentResultWireCodec.decode.
DecodeCodex(agent, wire) ==
  LET present == {key \in DOMAIN wire.body : wire.body[key] # "null" \/ key \in Required}
  IN IF DOMAIN wire.body # RoleKeys[agent] \/ \E key \in DOMAIN wire.body : Malformed(key, wire.body[key])
     THEN Nothing
     ELSE [wire EXCEPT !.body =
             [field \in {CoreKey(agent, key) : key \in present} |->
                LET key == CHOOSE k \in present : CoreKey(agent, k) = field
                IN FromWire(key, wire.body[key])]]

\* What a program that follows the output schema writes for a result.
ToWire(agent, result) ==
  [result EXCEPT !.body =
     [key \in RoleKeys[agent] |->
        IF CoreKey(agent, key) \notin DOMAIN result.body THEN "null"
        ELSE IF key \in Opaque THEN "text:json" ELSE result.body[CoreKey(agent, key)]]]

\* The schema the other programs get admits a role's fields and no others, each
\* of its type: a payload is an object, and no field is null.
SchemaFields(agent) == {CoreKey(agent, key) : key \in RoleKeys[agent]}
SchemaAdmits(agent, result) ==
  /\ result.agent = agent /\ DOMAIN result.body \subseteq SchemaFields(agent)
  /\ \A field \in DOMAIN result.body :
       IF field \in PayloadFields THEN result.body[field] = "json" ELSE result.body[field] # "null"
  /\ {CoreKey(agent, key) : key \in RoleKeys[agent] \cap Required} \subseteq DOMAIN result.body
  /\ \A i \in DOMAIN result.calls : result.calls[i].handoff.caller = agent
  /\ result.actions \in Seq(Actions)
  /\ agent = "reviewer" => (Field(result, "reviewStatus") = "FAIL" <=> Has(result, "failureOrigin"))
  /\ Field(result, "reviewStatus") = "PASS_WITH_WARNINGS" => result.warnings > 0

\* The result an executor returns, or Nothing when it throws.
ClaudeAccepted(end) == IF SuccessfulClaude(end) THEN DecodeClaude(end) ELSE Nothing
AntigravityAccepted(end) == IF SuccessfulAntigravity(end) THEN DecodeAntigravity(end) ELSE Nothing
CodexAccepted(agent, end) ==
  IF SuccessfulCodex(end) /\ ReadableResult(end) THEN DecodeCodex(agent, end.answer) ELSE Nothing

Accepted(config, agent, end) ==
  CASE config.provider = "openai" -> CodexAccepted(agent, end)
    [] config.provider = "anthropic" -> ClaudeAccepted(end)
    [] config.provider = "google" -> AntigravityAccepted(end)
=============================================================================
