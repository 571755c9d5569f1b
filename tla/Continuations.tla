---------------------------- MODULE Continuations ---------------------------
(***************************************************************************)
(* Invocations of agents and the handles they are continued with.  The MCP *)
(* server keeps, in memory, one record for each invocation that asked for  *)
(* something; a later tool call runs a helper the agent asked for, resumes *)
(* the caller with what the helper found, or continues it with the network *)
(* capability.  Tool calls overlap, a provider runs for minutes, and the   *)
(* rules, the task and the session's binding change meanwhile.             *)
(*                                                                         *)
(* An invocation is numbered when it commits, and the handle issued for it *)
(* has its number.  "log" is the history of committed invocations; what is *)
(* kept of a call in flight is what the code has on its stack.             *)
(***************************************************************************)
EXTENDS AgentContracts, FiniteSets

CONSTANTS
  Callers,         \* tool calls that can be in flight
  UserAgents,      \* agents the user invokes
  Replies,         \* results a provider may return
  NoReply, NoRecord,
  RuleSets,        \* effective rules the project may have
  Capacity,        \* records the store holds
  MaxDepth,        \* continuations of continuations
  MaxInvocations   \* bound: invocations started

ASSUME CapacityAssumption == Capacity \in Nat \ {0}
ASSUME DepthAssumption == MaxDepth \in Nat
ASSUME InvocationBound == MaxInvocations \in Nat
ASSUME UserAgentsAssumption == UserAgents \subseteq Agents

Helpers == Agents \ {"coder"}
Handles == 1 .. MaxInvocations

VARIABLES
  bound,       \* the session owns its task
  status,      \* status of that task
  acceptedPlan, draft,
  rules,       \* effective rules of the scope
  records,     \* records[h]: the continuation record, or NoRecord
  call,        \* call[c]: a tool call in flight
  log,         \* history: committed invocations
  overlapped   \* history: handles two calls were made with at a time

world == <<bound, status, acceptedPlan, draft, rules>>
vars == <<world, records, call, log, overlapped>>

Ops == {"invoke", "helper", "resume", "approve", "continue"}
Idle == [stage |-> "idle", op |-> "invoke", handle |-> 0, index |-> 0, agent |-> "planner",
         parent |-> 0, scope |-> "project", granted |-> FALSE, rule |-> "deny",
         reply |-> NoReply, asked |-> <<>>, actions |-> <<>>, inv |-> 0]

Scope == IF bound THEN "task" ELSE "project"
Depth(n) == IF n = 0 THEN 0 ELSE log[n].depth + 1

Init ==
  /\ bound = TRUE /\ status = "active" /\ draft = FALSE
  /\ acceptedPlan \in BOOLEAN /\ rules \in RuleSets
  /\ records = [h \in Handles |-> NoRecord]
  /\ call = [c \in Callers |-> Idle] /\ log = <<>> /\ overlapped = {}

-----------------------------------------------------------------------------
(* A tool call begins: the record is looked up and the request checked.      *)
(* Nothing is awaited here; a call that is refused changes nothing.          *)

Busy == {c \in Callers : call[c].stage # "idle"}

Begin(c, op, h, i, agent, parent) ==
  /\ call[c].stage = "idle"
  /\ Len(log) + Cardinality({d \in Busy : call[d].stage # "deliver"}) < MaxInvocations
  /\ call' = [call EXCEPT ![c] = [Idle EXCEPT !.stage = "begun", !.op = op, !.handle = h,
                                  !.index = i, !.agent = agent, !.parent = parent]]
  /\ overlapped' = overlapped \cup {g \in {h} \ {0} : \E d \in Busy : call[d].handle = g}
  /\ UNCHANGED <<world, records, log>>

\* Only CODER may resolve to a workspace it writes, and a project invocation is
\* not run in a session that has a task.
DirectlyInvocable(agent, kind) ==
  /\ agent \in Agents /\ (agent = "coder" <=> ModifiesSource(agent))
  /\ kind = "project" => ~bound

\* synaphex_invoke_agent.
InvokeAgent(c) ==
  \E agent \in UserAgents, kind \in {"task_session", "project"} :
    DirectlyInvocable(agent, kind) /\ Begin(c, "invoke", 0, 0, agent, 0)

\* InvocationContinuationStore.require, for the one host of the server.
Known(h) == records[h] # NoRecord

\* A bug: whatever agent was asked for is run as a helper.
RunAnyHelper(c, h, i, approval) ==
  /\ Known(h) /\ records[h].state = "origin_pending" /\ i \in DOMAIN log[h].calls
  /\ i \notin records[h].executed
  /\ log[h].calls[i].status = (IF approval THEN "approval_required" ELSE "allowed")
  /\ Begin(c, "helper", h, i, log[h].calls[i].target, h)

\* The classification kept by the server decides, and no continuation reaches
\* an agent that writes source.
RunHelper(c, h, i, approval) ==
  /\ Known(h) /\ records[h].state = "origin_pending" /\ i \in DOMAIN log[h].calls
  /\ i \notin records[h].executed
  /\ log[h].calls[i].status = (IF approval THEN "approval_required" ELSE "allowed")
  /\ log[h].calls[i].target \in Helpers /\ ~ModifiesSource(log[h].calls[i].target)
  /\ Begin(c, "helper", h, i, log[h].calls[i].target, h)

ExecuteHelper(c) == \E h \in Handles, i \in 1 .. 2 : RunHelper(c, h, i, FALSE)
ApproveAndExecuteHelper(c) == \E h \in Handles, i \in 1 .. 2 : RunHelper(c, h, i, TRUE)

ResumeCaller(c) ==
  \E h \in Handles :
    /\ Known(h) /\ records[h].state = "helper_completed"
    /\ Begin(c, "resume", h, 0, log[h].agent, records[h].helper)

IsNetwork(a, wanted) == a.action = "network" /\ ExecutionKind(a.action) = "provider_capability"
                        /\ a.status = wanted

ApproveNetworkAction(c) ==
  \E h \in Handles, i \in 1 .. 2 :
    /\ Known(h) /\ records[h].state = "origin_pending" /\ i \in DOMAIN log[h].actions
    /\ IsNetwork(log[h].actions[i], "approval_required")
    /\ Begin(c, "approve", h, i, log[h].agent, h)

ContinueAllowedNetwork(c) ==
  \E h \in Handles, i \in 1 .. 2 :
    /\ Known(h) /\ records[h].state = "origin_pending" /\ i \in DOMAIN log[h].actions
    /\ IsNetwork(log[h].actions[i], "allowed")
    /\ Begin(c, "continue", h, i, log[h].agent, h)

-----------------------------------------------------------------------------
(* AgentInvocationService authorises the call against the state as it is now. *)

Preflight(agent) ==
  /\ MayRun(agent, bound, status)
  /\ agent = "coder" /\ bound => ~draft

Executable(previous, current, approval) ==
  /\ {previous, current} \subseteq {"allowed", "approval_required"}
  /\ "approval_required" \in {previous, current} => approval

ContinuationAllowed(current, approval) ==
  current \in {"allowed", "approval_required"} /\ (current = "approval_required" => approval)

AuthorisesUser(k) == Preflight(k.agent)

\* What was asked for is looked up in the caller's own result, and an agent call
\* is classified once more as the rules and the plan are now.
AskedCall(k) == log[k.handle].calls[k.index]
AskedAction(k) == log[k.handle].actions[k.index]
CallStatusNow(k) == ClassifyHelperCall(log[k.handle].agent, AskedCall(k), bound /\ acceptedPlan, rules)

AuthorisesHelper(k) ==
  /\ Preflight(log[k.handle].agent) /\ Preflight(k.agent)
  /\ Executable(AskedCall(k).status, CallStatusNow(k), AskedCall(k).status = "approval_required")
  /\ Depth(k.parent) <= MaxDepth

\* The kept helper execution is the one of this caller: assertContinuationIntegrity.
IntegralContinuation(k) ==
  /\ log[k.parent].op = "helper" /\ log[k.parent].handle = k.handle
  /\ log[k.handle].agent = k.agent

AuthorisesResume(k) ==
  IntegralContinuation(k) /\ Depth(k.parent) <= MaxDepth /\ Preflight(k.agent)

SameScope(k) == log[k.handle].scope = Scope

\* An approval answers a request that needed one; what was allowed needs none.
RequiredStatus(k) == IF k.op = "approve" THEN "approval_required" ELSE "allowed"

AuthorisesNetwork(k) ==
  /\ ExecutionKind(AskedAction(k).action) = "provider_capability"
  /\ AskedAction(k).status = RequiredStatus(k)
  /\ Preflight(k.agent) /\ SameScope(k)
  /\ ContinuationAllowed(ClassifyAction("network", rules), k.op = "approve")
  /\ Depth(k.parent) <= MaxDepth

Authorise(c) ==
  LET k == call[c] IN
  /\ k.stage = "begun"
  /\ CASE k.op = "invoke" -> AuthorisesUser(k)
       [] k.op = "helper" -> AuthorisesHelper(k)
       [] k.op = "resume" -> AuthorisesResume(k)
       [] OTHER           -> AuthorisesNetwork(k)
  /\ call' = [call EXCEPT ![c].stage = "authorised", ![c].scope = Scope]
  /\ UNCHANGED <<world, records, log, overlapped>>

\* A bug: an approval counts whatever the user approved.
PolicyUnapproved(k, approval) == rules.actions["network"] # "deny"
\* buildExecutionPolicy: network is granted by the rule or by this approval.
Policy(k, approval) ==
  \/ rules.actions["network"] = "allow"
  \/ rules.actions["network"] = "ask" /\ approval

\* invokePrepared: context, policy, route and, for a task, the ownership fence.
Prepare(c) ==
  LET k == call[c] IN
  /\ k.stage = "authorised" /\ ContextAllowed(k.agent, bound, status)
  /\ rules.actions["network"] # "invalid" /\ (k.scope = "task" => bound)
  /\ call' = [call EXCEPT ![c].stage = "running", ![c].rule = rules.actions["network"],
                          ![c].granted = Policy(k, k.op = "approve")]
  /\ UNCHANGED <<world, records, log, overlapped>>

\* The provider returns; its result is validated and what it asks for classified.
Execute(c) ==
  LET k == call[c] IN
  /\ k.stage = "running"
  /\ \E r \in Replies :
       /\ ValidResult(k.agent, r)
       /\ call' = [call EXCEPT ![c].stage = "commit", ![c].reply = r,
            ![c].asked = [i \in DOMAIN r.calls |->
               [target |-> r.calls[i].target, purpose |-> r.calls[i].purpose,
                status |-> ClassifyHelperCall(k.agent, r.calls[i],
                             k.scope = "task" /\ acceptedPlan, rules)]],
            ![c].actions = [i \in DOMAIN r.actions |->
               [action |-> r.actions[i], status |-> ClassifyAction(r.actions[i], rules)]]]
  /\ UNCHANGED <<world, records, log, overlapped>>

\* The call throws before its record is saved: the provider, the route, the rules,
\* one of the checks above or the write itself.
Fail(c) ==
  /\ call[c].stage \in {"begun", "authorised", "running", "commit"}
  /\ call' = [call EXCEPT ![c] = Idle]
  /\ UNCHANGED <<world, records, log, overlapped>>

-----------------------------------------------------------------------------
(* The result is committed and the handle moves on. *)

Drafts(r) == r.agent = "planner" /\ Has(r, "draftPlanMarkdown")

\* ResultProcessor checks the result and the lifecycle once more.
Processable(k) ==
  /\ ValidResult(k.agent, k.reply) /\ ContextAllowed(k.agent, bound, status)
  /\ Storable(k.reply)

\* In a task the commit runs under ownership authority and asserts the role again.
\* The report of a passing review is saved before the task is completed, and that
\* may throw: the record stays, and the call is bound to throw too.
Commit(c) ==
  LET k == call[c]
      n == Len(log) + 1
  IN \E completes \in BOOLEAN :
     /\ k.stage = "commit" /\ Processable(k) /\ (Passes(k.reply) \/ completes)
     /\ k.scope = "task" => bound /\ MayRun(k.agent, TRUE, status)
     /\ status' = IF Passes(k.reply) /\ completes THEN "completed" ELSE status
     /\ draft' = (draft \/ Drafts(k.reply))
     /\ log' = Append(log,
          [agent |-> k.agent, op |-> k.op, handle |-> k.handle, parent |-> k.parent,
           depth |-> Depth(k.parent), scope |-> Scope, granted |-> k.granted,
           rule |-> k.rule, calls |-> k.asked, actions |-> k.actions,
           result |-> IF completes THEN "pending" ELSE "thrown"])
     /\ call' = [call EXCEPT ![c] = [Idle EXCEPT !.stage = "deliver", !.op = k.op,
                                       !.handle = k.handle, !.index = k.index, !.inv = n]]
     /\ UNCHANGED <<bound, acceptedPlan, rules, records, overlapped>>

Actionable(n) ==
  \/ \E i \in DOMAIN log[n].calls : log[n].calls[i].status \in {"allowed", "approval_required"}
  \/ \E i \in DOMAIN log[n].actions :
       IsNetwork(log[n].actions[i], "allowed") \/ IsNetwork(log[n].actions[i], "approval_required")

Delivered(c, how) ==
  /\ log' = [log EXCEPT ![call[c].inv].result = how]
  /\ call' = [call EXCEPT ![c] = Idle] /\ UNCHANGED <<world, overlapped>>

\* The call throws though its record is saved: the completion of the task, the
\* release of its lock or the removal of CODER's workspace.  The handle it was
\* made with is as it was.
FailAfterCommit(c) ==
  /\ call[c].stage = "deliver" /\ log[call[c].inv].scope = "task"
  /\ UNCHANGED records /\ Delivered(c, "thrown")

Returns(c) == call[c].stage = "deliver" /\ log[call[c].inv].result = "pending"

NewRecord == [state |-> "origin_pending", helper |-> 0, executed |-> {}]

\* issue: without room the call throws, though its invocation has committed.
Issue(c, kept) ==
  LET n == call[c].inv IN
  IF ~Actionable(n) THEN records' = kept /\ Delivered(c, "returned")
  ELSE IF Cardinality({h \in Handles : kept[h] # NoRecord}) >= Capacity
  THEN records' = kept /\ Delivered(c, "lost")
  ELSE records' = [kept EXCEPT ![n] = NewRecord] /\ Delivered(c, "returned")

HelperDone(k, executed) ==
  [state |-> "helper_completed", helper |-> k.inv, executed |-> executed \cup {k.index}]

\* markHelperCompleted, which throws when the record is gone.
DeliverHelper(c) ==
  LET k == call[c] IN
  /\ Returns(c) /\ k.op = "helper"
  /\ IF Known(k.handle)
     THEN /\ records' = [records EXCEPT ![k.handle] = HelperDone(k, @.executed)]
          /\ Delivered(c, "returned")
     ELSE UNCHANGED records /\ Delivered(c, "lost")

\* A bug: the handle is kept when its caller is resumed.
DeliverResumeKept(c) ==
  /\ Returns(c) /\ call[c].op \in {"resume", "approve", "continue"}
  /\ Issue(c, records)

\* The old handle is consumed, then a new one issued.
DeliverResume(c) ==
  /\ Returns(c) /\ call[c].op \in {"resume", "approve", "continue"}
  /\ Issue(c, [records EXCEPT ![call[c].handle] = NoRecord])

DeliverInvoke(c) == Returns(c) /\ call[c].op = "invoke" /\ Issue(c, records)

-----------------------------------------------------------------------------
(* The rest of the world. *)

\* The task is taken from the session, which its binding then no longer shows.
LoseTask == bound /\ bound' = FALSE
            /\ UNCHANGED <<status, acceptedPlan, draft, rules, records, call, log, overlapped>>

EndTask ==
  /\ status = "active" /\ status' = "completed"
  /\ UNCHANGED <<bound, acceptedPlan, draft, rules, records, call, log, overlapped>>

DecidePlan ==
  /\ draft /\ draft' = FALSE /\ acceptedPlan' \in {acceptedPlan, TRUE}
  /\ UNCHANGED <<bound, status, rules, records, call, log, overlapped>>

SetRules ==
  /\ rules' \in RuleSets \ {rules}
  /\ UNCHANGED <<bound, status, acceptedPlan, draft, records, call, log, overlapped>>

\* The server process ends: no record and no call survives it.
Restart ==
  /\ Busy # {} \/ \E h \in Handles : Known(h)
  /\ records' = [h \in Handles |-> NoRecord] /\ call' = [c \in Callers |-> Idle]
  /\ UNCHANGED <<world, log, overlapped>>

Next ==
  \/ \E c \in Callers :
       \/ InvokeAgent(c) \/ ExecuteHelper(c) \/ ApproveAndExecuteHelper(c) \/ ResumeCaller(c)
       \/ ApproveNetworkAction(c) \/ ContinueAllowedNetwork(c)
       \/ Authorise(c) \/ Prepare(c) \/ Execute(c) \/ Fail(c)
       \/ Commit(c) \/ FailAfterCommit(c)
       \/ DeliverHelper(c) \/ DeliverResume(c) \/ DeliverInvoke(c)
  \/ LoseTask \/ EndTask \/ DecidePlan \/ SetRules \/ Restart

Spec == Init /\ [][Next]_vars

-----------------------------------------------------------------------------
(* Properties. *)

Steps == Ops \ {"invoke"}
Uses(h, ops) == {n \in 1 .. Len(log) : log[n].handle = h /\ log[n].op \in ops}

\* A handle is spent step by step: one helper, then one resumed caller, or one
\* use of the network.  Only a step whose call threw is taken again.
SpentOnce(h) ==
  \A n, m \in Uses(h, Steps) : n < m =>
    \/ log[n].op = "helper" /\ log[m].op = "resume"
    \/ log[n].result = "thrown"

(* The states of a continuation are enough as long as the calls for one      *)
(* handle follow one another: only a step whose call threw is taken again,   *)
(* and only such a throw, or the end of the server, loses the result of a    *)
(* step, even when the table is full.  The exception is the code's: a call   *)
(* that throws after its record is saved leaves the handle as it was.        *)
HandleUsedOnce ==
  \A h \in Handles \ overlapped :
    SpentOnce(h) /\ \A n \in Uses(h, Steps) : log[n].result # "lost"

(* The network is never open to an agent by accident: either the rule        *)
(* allowed it when the policy was built, or this one call was the user's     *)
(* approval of a request the same agent had made in the same scope.          *)
NetworkGrantTraceable ==
  \A n \in 1 .. Len(log) : log[n].granted =>
    \/ log[n].rule = "allow"
    \/ LET p == log[log[n].parent] IN
       /\ log[n].rule = "ask" /\ log[n].op = "approve" /\ p.agent = log[n].agent
       /\ p.scope = log[n].scope
       /\ \E i \in DOMAIN p.actions : IsNetwork(p.actions[i], "approval_required")

\* With an invocation, the one it continues.
ClosedUnderParents(A) == \A m \in A : log[m].parent # 0 => log[m].parent \in A

(* No agent reaches CODER on its own: going back from a run of CODER along   *)
(* what each invocation continues, one comes to a run the user started.      *)
CoderOnlyByUser ==
  \A n \in 1 .. Len(log) : log[n].agent = "coder" =>
    \A A \in SUBSET (1 .. n) : n \in A /\ ClosedUnderParents(A) =>
      \E m \in A : log[m].agent = "coder" /\ log[m].op = "invoke"

(* What passed validation can be stored: the artifact manager never turns    *)
(* down a result at the commit boundary, when a change set is already        *)
(* published.                                                                *)
ValidatedIsStorable ==
  \A c \in Callers : call[c].stage = "commit" => Storable(call[c].reply)
=============================================================================
