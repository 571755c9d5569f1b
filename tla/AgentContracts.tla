--------------------------- MODULE AgentContracts ---------------------------
(***************************************************************************)
(* What the six agents may do and what a provider may answer for them: the *)
(* immutable role contracts, the classification of what an agent asks for  *)
(* under the effective rules, and the validation of an agent's result.     *)
(*                                                                         *)
(* A result is a record of what every agent returns and of a "body", the   *)
(* fields of its role: a function whose domain is the fields present.  The *)
(* value of a text field is "text" or "blank" and of a payload "json" or   *)
(* "other"; a memory intent is the tuple of its kind, project and task.    *)
(***************************************************************************)
EXTENDS Naturals, Sequences

Agents == {"questioner", "researcher", "examiner", "planner", "coder", "reviewer"}
Decisions == {"allow", "ask", "deny", "invalid"}  \* "invalid": the rules cannot be read
Actions == {"network", "git_push", "ci"}
Purposes == {"memory_update", "research", "clarification", "plan_clarification",
             "implementation_deviation", "plan_revision", "review_followup"}

\* The agents that need a task, which has to be active.
TaskRoles == Agents \ {"researcher", "examiner"}

\* Whether a role may run in a session that is or is not bound to a task.
MayRun(agent, bound, status) ==
  IF bound THEN status = "active" \/ (status = "completed" /\ agent \notin TaskRoles)
           ELSE agent \notin TaskRoles

\* ContextBuilder asserts the same when it assembles the context.
ContextAllowed(agent, bound, status) ==
  /\ agent \in TaskRoles => bound /\ status # "completed"
  /\ bound => status # "archived"

ModifiesSource(agent) == agent = "coder"

ForbiddenEdges == {<<"planner", "coder">>, <<"coder", "reviewer">>}
CoderPlannerPurposes == {"plan_clarification", "implementation_deviation", "plan_revision"}

AgentCallPermitted(caller, request, acceptedPlan) ==
  /\ <<caller, request.target>> \notin ForbiddenEdges
  /\ <<caller, request.target>> = <<"coder", "planner">> =>
       acceptedPlan /\ request.purpose \in CoderPlannerPurposes

\* Only network is a capability of the provider; the others need the host.
ExecutionKind(action) == IF action = "network" THEN "provider_capability" ELSE "host_action"

StatusOf(decision) == [allow |-> "allowed", ask |-> "approval_required",
                       deny |-> "denied", invalid |-> "unavailable"][decision]

ClassifyHelperCall(caller, request, acceptedPlan, rules) ==
  IF AgentCallPermitted(caller, request, acceptedPlan)
  THEN StatusOf(rules.calls[<<caller, request.target>>]) ELSE "forbidden"

ClassifyAction(action, rules) == StatusOf(rules.actions[action])

-----------------------------------------------------------------------------
(* validateAgentResult. *)

Has(r, key) == key \in DOMAIN r.body
Field(r, key) == IF Has(r, key) THEN r.body[key] ELSE "absent"
OnlyFields(r, keys) == DOMAIN r.body \subseteq keys

ValidHandoff(h, target) == h.caller \in Agents /\ h.target = target /\ h.purpose \in Purposes

ValidRequestedCalls(agent, calls) ==
  \A i \in DOMAIN calls :
    /\ calls[i].target \in Agents /\ ValidHandoff(calls[i].handoff, calls[i].target)
    /\ calls[i].handoff.caller = agent /\ calls[i].handoff.purpose = calls[i].purpose

ValidRequestedActions(actions) == \A i \in DOMAIN actions : actions[i] \in Actions

ValidQuestioner(r) ==
  /\ \/ /\ Field(r, "state") = "pending_question" /\ r.outcome = "needs_user"
        /\ OnlyFields(r, {"state", "question", "workingContext"})
        /\ Field(r, "question") = "text"
     \/ /\ Field(r, "state") = "context_complete" /\ r.outcome # "needs_user"
        /\ OnlyFields(r, {"state", "workingContext"})
  /\ Has(r, "workingContext") => r.body["workingContext"] = "json"

IntentLength == [none |-> 1, replace_project |-> 2, clear_project |-> 2,
                 replace_task |-> 3, clear_task |-> 3]
ValidMemoryIntent(intent) ==
  intent[1] \in DOMAIN IntentLength /\ Len(intent) = IntentLength[intent[1]]

ValidExaminer(r) ==
  /\ OnlyFields(r, {"memoryIntent", "memoryConflict"})
  /\ Has(r, "memoryIntent") /\ ValidMemoryIntent(r.body["memoryIntent"])
  /\ Has(r, "memoryConflict") => r.body["memoryConflict"] = "text"

ValidPlanner(r) ==
  /\ OnlyFields(r, {"draftPlanMarkdown", "consultation"})
  /\ Has(r, "draftPlanMarkdown") => r.body["draftPlanMarkdown"] = "text"
  /\ Has(r, "consultation") =>
       /\ r.body["consultation"] \in {"plan_still_valid", "revision_required"}
       /\ r.body["consultation"] = "revision_required" => Has(r, "draftPlanMarkdown")
       /\ r.body["consultation"] = "plan_still_valid" => ~Has(r, "draftPlanMarkdown")

ValidPayload(r, key) == OnlyFields(r, {key}) /\ Field(r, key) = "json"

ReviewStatuses == {"PASS", "PASS_WITH_WARNINGS", "FAIL"}
FailureOrigins == {"implementation", "plan", "mixed"}

\* A bug: the warnings of a PASS_WITH_WARNINGS are not asked for.
ValidReviewerUnwarned(r) ==
  /\ OnlyFields(r, {"reviewStatus", "failureOrigin", "report"})
  /\ Field(r, "reviewStatus") \in ReviewStatuses /\ Field(r, "report") = "json"
  /\ IF Field(r, "reviewStatus") = "FAIL" THEN Field(r, "failureOrigin") \in FailureOrigins
                                           ELSE ~Has(r, "failureOrigin")

ValidReviewer(r) ==
  /\ OnlyFields(r, {"reviewStatus", "failureOrigin", "report"})
  /\ Field(r, "reviewStatus") \in ReviewStatuses /\ Field(r, "report") = "json"
  /\ IF Field(r, "reviewStatus") = "FAIL" THEN Field(r, "failureOrigin") \in FailureOrigins
                                           ELSE ~Has(r, "failureOrigin")
  /\ Field(r, "reviewStatus") = "PASS_WITH_WARNINGS" => r.warnings > 0

ValidResult(agent, r) ==
  /\ r.agent = agent /\ r.outcome \in {"success", "needs_user", "blocked", "error"}
  /\ ValidRequestedCalls(agent, r.calls) /\ ValidRequestedActions(r.actions)
  /\ CASE agent = "questioner" -> ValidQuestioner(r)
       [] agent = "researcher" -> ValidPayload(r, "researchArtifact")
       [] agent = "examiner"   -> ValidExaminer(r)
       [] agent = "planner"    -> ValidPlanner(r)
       [] agent = "coder"      -> ValidPayload(r, "workRecord")
       [] agent = "reviewer"   -> ValidReviewer(r)

-----------------------------------------------------------------------------
(* What the managers that store a result accept. *)

\* A payload is looked through a second time before it is stored.
StorablePayload(payload) == payload = "json"

\* isReviewerLifecycleMetadata, asserted when a report is saved and when it is
\* read again.
StorableReview(r) ==
  /\ Field(r, "reviewStatus") \in ReviewStatuses
  /\ Field(r, "reviewStatus") = "FAIL" => Field(r, "failureOrigin") \in FailureOrigins
  /\ Field(r, "reviewStatus") # "FAIL" => ~Has(r, "failureOrigin")
  /\ Field(r, "reviewStatus") = "PASS_WITH_WARNINGS" => r.warnings > 0

PayloadFields == {"workingContext", "researchArtifact", "workRecord", "report"}
Storable(r) ==
  /\ \A field \in PayloadFields : Has(r, field) => StorablePayload(r.body[field])
  /\ r.agent = "reviewer" => StorableReview(r)

\* The verdict of a reviewer that completes the task.
Passes(r) == r.agent = "reviewer" /\ r.body["reviewStatus"] # "FAIL"

\* An EXAMINER may only write the memory of the scope it runs in.
IntentInScope(intent, project, task) ==
  \/ intent[1] = "none"
  \/ intent[1] \in {"replace_project", "clear_project"} /\ intent[2] = project
  \/ /\ intent[1] \in {"replace_task", "clear_task"}
     /\ <<intent[2], intent[3]>> = <<project, task>>
=============================================================================
