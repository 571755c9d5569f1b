------------------------------ MODULE AgentRun ------------------------------
(***************************************************************************)
(* What an agent is shown and what comes of its answer: a run reads its    *)
(* context section by section from a state directory that other runs, the  *)
(* user and the lifecycle of the task change meanwhile, works for minutes, *)
(* and saves its result under the task-binding lock if its session still   *)
(* owns the task and the task may still take it.                           *)
(*                                                                         *)
(* Only what a later run is shown is kept of a result: a memory is the run *)
(* that last replaced it, a record its kind, its time and its random id.   *)
(* How one program is run, and how CODER changes are published, is         *)
(* CoderStaging's subject; drafts of plans are PlanDraft's.                *)
(***************************************************************************)
EXTENDS Registration

CONSTANTS
  RunAgents,   \* the agents that are run
  Ids,         \* ids of records, ordered as their texts are
  FirstReports \* reports saved before, as records below

ASSUME IdsAssumption == Ids \subseteq Nat /\ \E last \in Ids : \A id \in Ids : id <= last
ASSUME ReportsAssumption ==
  /\ FirstReports \in [Tasks -> SUBSET [kind : {"report"}, at : Nat, id : Ids]]
  /\ \A t \in Tasks : \A r, s \in FirstReports[t] : r.id = s.id => r = s
  /\ LET first == UNION {FirstReports[t] : t \in Tasks}
     IN  first = {} \/ \E r \in first : \A s \in first : s.at <= r.at

VARIABLES
  memory,    \* memory[s]: the run that last replaced the memory of scope s
  working,   \* working[t]: the run that last replaced the questioner context of task t
  records,   \* records[t]: the research, work and review records of task t
  run        \* run[c]: what the run of call c is doing

runVars == <<memory, working, records, run>>

Kinds == [researcher |-> "research", coder |-> "work", reviewer |-> "report"]
NoReport == [kind |-> "report", at |-> 0, id |-> 0]
NotRunning == [pc |-> "idle", agent |-> "none", task |-> "none", session |-> "none", todo |-> {},
               shown |-> "none", held |-> "none", global |-> [e \in Edges |-> "unread"],
               calls |-> [e \in Edges |-> "unread"], seen |-> {}, known |-> {}, report |-> NoReport]

RunInit(installed) ==
  /\ memory = [s \in Scopes |-> "none"] /\ working = [t \in Tasks |-> "none"]
  /\ records = [t \in Tasks |-> IF installed THEN FirstReports[t] ELSE {}]
  /\ run = [c \in Calls |-> NotRunning]

RunTypeOK ==
  /\ memory \in [Scopes -> {"none"} \cup Calls] /\ working \in [Tasks -> {"none"} \cup Calls]
  /\ \A t \in Tasks : \A r \in records[t] : r.kind \in {Kinds[a] : a \in DOMAIN Kinds} /\ r.at \in Nat /\ r.id \in Ids
  /\ \A c \in Calls : run[c].seen \subseteq UNION {records[t] : t \in Tasks}

Running(c) == run[c].pc \notin Settled
\* Of a run that is over its session is all that matters.
RunGoto(c, pc) == run' = [run EXCEPT ![c] = IF pc \in Settled THEN [NotRunning EXCEPT !.pc = pc, !.session = run[c].session]
                                            ELSE [run[c] EXCEPT !.pc = pc]]
Outside == UNCHANGED <<confVars, insVars, source, status, place, refs, mutex, work>>

(***************************************************************************)
(* Sessions.  A task may be taken from a session that is lost: its claim   *)
(* is released, and the task is opened in a session of its own.            *)
(***************************************************************************)
Started(c, record) == Occupy(c) /\ run' = [run EXCEPT ![c] = record]
                      /\ UNCHANGED <<docs, byHand, slipped, regVars, insVars, memory, working, records>>

Reopen(c) == Fresh(c) /\ \E t \in Tasks : Found(t) /\ Started(c, [NotRunning EXCEPT !.pc = "release", !.task = t])
ForceRelease(c) ==
  /\ run[c].pc = "release" /\ bound = NoCall
  /\ owner' = [owner EXCEPT ![run[c].task] = "none"]
  /\ RunGoto(c, "open") /\ Outside /\ UNCHANGED <<bound, memory, working, records>>
OpenTaskSession(c) ==
  /\ run[c].pc = "open"
  /\ RunGoto(c, IF status[run[c].task] = "active" THEN "bind" ELSE "failed")
  /\ Outside /\ UNCHANGED <<owner, bound, memory, working, records>>
BindTask(c) ==
  /\ run[c].pc = "bind" /\ bound = NoCall
  /\ IF owner[run[c].task] = "none" THEN owner' = [owner EXCEPT ![run[c].task] = c] /\ RunGoto(c, "bound")
     ELSE UNCHANGED owner /\ RunGoto(c, "failed")
  /\ Outside /\ UNCHANGED <<bound, memory, working, records>>

\* The user completes the task of a session, which keeps it, and archives it.
UserCompletes(c) ==
  /\ Occupy(c) /\ bound = NoCall
  /\ \E t \in Tasks : /\ owner[t] # "none" /\ status[t] = "active"
                      /\ status' = [status EXCEPT ![t] = "completed"]
                      /\ work' = [work EXCEPT ![c] = [Resting EXCEPT !.op = "archive", !.pc = "check", !.for = t]]
  /\ UNCHANGED <<docs, byHand, slipped, source, place, owner, bound, refs, mutex, insVars, runVars>>

(***************************************************************************)
(* The context.                                                            *)
(***************************************************************************)
ActiveRequired(agent) == agent \in {"questioner", "planner", "coder", "reviewer"}
Eligible(agent, t) == status[t] = "active" \/ (status[t] = "completed" /\ ~ActiveRequired(agent))

Sections(agent, onTask) ==
  {"rules"} \cup (IF onTask THEN {"memory"} ELSE {})
            \cup (IF agent \in {"planner", "coder", "reviewer"} THEN {"research", "report"} ELSE {})
            \cup (IF agent = "reviewer" THEN {"work"} ELSE {})
            \cup (IF agent \in {"questioner", "planner"} THEN {"working"} ELSE {})
            \cup (IF agent \in DOMAIN Kinds THEN {"behavior"} ELSE {})
Begun(agent, t, session) ==
  [NotRunning EXCEPT !.pc = "context", !.agent = agent, !.task = t, !.session = session,
                     !.todo = Sections(agent, t # "none"), !.known = IF t = "none" THEN {} ELSE records[t]]

\* RESEARCHER and EXAMINER need no task: a session may be opened for a project alone.
InvokeOnProject(c) == Fresh(c) /\ \E agent \in RunAgents : ~ActiveRequired(agent) /\ (\E p \in Projects : Found(p))
                                               /\ Started(c, Begun(agent, "none", c))
Invoke(c) ==
  Fresh(c) /\ \E agent \in RunAgents, t \in Tasks :
    /\ owner[t] # "none" /\ Eligible(agent, t)
    /\ Started(c, Begun(agent, t, owner[t]))
InvokeAfterOpening(c) ==
  /\ run[c].pc = "bound"
  /\ \E agent \in RunAgents : Eligible(agent, run[c].task) /\ run' = [run EXCEPT ![c] = Begun(agent, run[c].task, c)]
  /\ Outside /\ UNCHANGED <<owner, bound, memory, working, records>>

Building(c, section) == run[c].pc = "context" /\ section \in run[c].todo
Done(c, section) == [run[c] EXCEPT !.todo = @ \ {section}]
Shown(c, record) == run' = [run EXCEPT ![c] = record] /\ Outside /\ UNCHANGED <<owner, bound, memory, working, records>>

\* The directory of a task is looked up before it is read: of a task that is
\* moved in between nothing is found.
Refused == [NotRunning EXCEPT !.pc = "failed"]
Lookup(t, found, nothing) == {found} \cup (IF place[t] = "archive" THEN {nothing} ELSE {})
\* Its memory is kept elsewhere and does not move; but a task that is moved
\* while the tasks are listed may be in neither list, and the run fails.
CanonicalMemory(t) == memory[t]
BuildMemory(c) ==
  /\ Building(c, "memory")
  /\ \/ Shown(c, [Done(c, "memory") EXCEPT !.shown = CanonicalMemory(run[c].task)])
     \/ place[run[c].task] = "archive" /\ Shown(c, Refused)

\* Each agent call is resolved by itself: the global rules are read first, then
\* the project's.  The actions are resolved from the same documents.
Unreadable(d) == docs[d].state \in {"torn", "invalid"}
Outgoing(agent) == {e \in Edges : e[1] = agent}
ReadGlobalRules(c) ==
  /\ Building(c, "rules")
  /\ \E e \in Outgoing(run[c].agent) :
       /\ run[c].global[e] = "unread"
       /\ Shown(c, IF Unreadable("rules") THEN Refused ELSE [run[c] EXCEPT !.global[e] = docs["rules"].at[e]])
\* The last scope that has a decision; an agent call that none decides is denied.
Resolved(global, project) ==
  IF project # "unset" THEN project ELSE IF global # "unset" THEN global ELSE "deny"
ResolveCall(c) ==
  /\ Building(c, "rules")
  /\ \E e \in Outgoing(run[c].agent) :
       /\ run[c].global[e] # "unread" /\ run[c].calls[e] = "unread"
       /\ Shown(c, IF Unreadable("project_rules") THEN Refused
                   ELSE [run[c] EXCEPT !.calls[e] = Resolved(run[c].global[e], docs["project_rules"].at[e])])
BuildRules(c) ==
  /\ Building(c, "rules") /\ \A e \in Outgoing(run[c].agent) : run[c].calls[e] # "unread"
  /\ Shown(c, IF Unreadable("rules") \/ Unreadable("project_rules") THEN Refused ELSE Done(c, "rules"))

\* The fields an agent's payload may have; those of the default where no document is.
OutputFields(agent) == IF agent \in KeyAgents THEN docs["agent_behavior"].at[agent] ELSE "default"
BuildBehavior(c) ==
  Building(c, "behavior") /\ Shown(c, IF Unreadable("agent_behavior") THEN Refused ELSE Done(c, "behavior"))

\* The artifacts are read one kind after the other, a kind from the oldest to
\* the newest: by the time in the record, then by its id.
ArtifactOrder == <<"working", "research", "work", "report">>
NextArtifacts(c, kind) ==
  Building(c, kind) /\ \E i \in 1..4 : ArtifactOrder[i] = kind /\ \A j \in 1..i-1 : ArtifactOrder[j] \notin run[c].todo
OfKind(t, kind) == {r \in records[t] : r.kind = kind}
Later(r, s) == r.at > s.at \/ (r.at = s.at /\ r.id > s.id)
\* A bug: the time of a record is not looked at.
NewestById(rs) == IF rs = {} THEN NoReport ELSE CHOOSE r \in rs : \A s \in rs : r.id >= s.id
Newest(rs) == IF rs = {} THEN NoReport ELSE CHOOSE r \in rs : \A s \in rs \ {r} : Later(r, s)

BuildWorking(c) ==
  /\ NextArtifacts(c, "working")
  /\ \E text \in Lookup(run[c].task, working[run[c].task], "none") : Shown(c, [Done(c, "working") EXCEPT !.held = text])
BuildArtifacts(c, kind) ==
  /\ NextArtifacts(c, kind)
  /\ \E found \in Lookup(run[c].task, OfKind(run[c].task, kind), {}) :
       Shown(c, IF kind = "report" THEN [Done(c, kind) EXCEPT !.report = Newest(found)]
                ELSE [Done(c, kind) EXCEPT !.seen = @ \cup found])

(***************************************************************************)
(* The fence is captured once the context is built; then the provider is   *)
(* at work.  A run of a session without a task has none, and takes no lock.*)
(***************************************************************************)
CaptureFence(c) ==
  /\ run[c].pc = "context" /\ run[c].todo = {} /\ (run[c].task = "none" \/ bound = NoCall)
  /\ RunGoto(c, IF run[c].task = "none" THEN "apply"
                ELSE IF owner[run[c].task] = run[c].session THEN "commit" ELSE "failed")
  /\ Outside /\ UNCHANGED <<owner, bound, memory, working, records>>

\* A bug: the session of a fence is not compared.
MayCommitUnfenced(c) == Eligible(run[c].agent, run[c].task)
MayCommit(c) == owner[run[c].task] = run[c].session /\ Eligible(run[c].agent, run[c].task)
Commit(c) ==
  /\ run[c].pc = "commit" /\ bound = NoCall
  /\ IF MayCommit(c) THEN bound' = c /\ RunGoto(c, "apply") ELSE UNCHANGED bound /\ RunGoto(c, "failed")
  /\ Outside /\ UNCHANGED <<owner, memory, working, records>>

Release(c) == bound' = IF bound = c THEN NoCall ELSE bound

\* An EXAMINER replaces or clears a whole memory, its project's or its task's,
\* unless it needs the user or reports a conflict.
IntentScopes(c) == {p \in Projects : Found(p)} \cup ({run[c].task} \ {"none"})
ReplaceCanonicalMemory(c, s) == memory' = [memory EXCEPT ![s] = c]
ApplyExaminerIntent(c) ==
  /\ run[c].pc = "apply" /\ run[c].agent = "examiner"
  /\ UNCHANGED memory \/ \E s \in IntentScopes(c) : ReplaceCanonicalMemory(c, s)
  /\ Release(c) /\ RunGoto(c, "ended") /\ Outside /\ UNCHANGED <<owner, working, records>>

\* The fields of a payload are compared with the configuration as it is by now.
CheckFields(c) ==
  /\ run[c].pc = "apply" /\ run[c].agent \in DOMAIN Kinds
  /\ \E fields \in BehaviorEntries :
       IF Unreadable("agent_behavior") \/ (fields = "default" /\ OutputFields(run[c].agent) = "narrow")
       THEN Release(c) /\ RunGoto(c, "failed") ELSE UNCHANGED bound /\ RunGoto(c, "save")
  /\ Outside /\ UNCHANGED <<owner, memory, working, records>>

\* The clock never goes back, and may stand still from one record to the next.
Clock == {1} \cup UNION {{r.at : r \in records[t]} : t \in Tasks}
Stamps == LET now == CHOOSE n \in Clock : \A m \in Clock : n >= m IN {now, now + 1}
Unused == {i \in Ids : \A t \in Tasks : \A r \in records[t] : r.id # i}

\* Of a completed task only research is still written, of an archived one nothing.
TaskWritable(t, kind) == status[t] = "active" \/ (status[t] = "completed" /\ kind = "research")
SaveRunArtifact(c, kind) ==
  TaskWritable(run[c].task, kind) /\ \E at \in Stamps, id \in Unused :
    records' = [records EXCEPT ![run[c].task] = @ \cup {[kind |-> kind, at |-> at, id |-> id]}]
SaveRecord(c) ==
  /\ run[c].pc = "save" /\ run[c].agent \in {"researcher", "coder"}
  /\ IF run[c].task = "none" THEN UNCHANGED records ELSE SaveRunArtifact(c, Kinds[run[c].agent])
  /\ Release(c) /\ RunGoto(c, "ended") /\ Outside /\ UNCHANGED <<owner, memory, working>>
\* A QUESTIONER may replace the working context of its task.
SaveQuestionerContext(c) ==
  /\ run[c].pc = "apply" /\ run[c].agent = "questioner"
  /\ \/ UNCHANGED working
     \/ TaskWritable(run[c].task, "working") /\ working' = [working EXCEPT ![run[c].task] = c]
  /\ Release(c) /\ RunGoto(c, "ended") /\ Outside /\ UNCHANGED <<owner, memory, records>>
SaveDraft(c) ==
  /\ run[c].pc = "apply" /\ run[c].agent = "planner"
  /\ Release(c) /\ RunGoto(c, "ended") /\ Outside /\ UNCHANGED <<owner, memory, working, records>>

\* A REVIEWER that passes saves its report and then completes the task.
SaveReviewerReport(c) ==
  /\ run[c].pc = "save" /\ run[c].agent = "reviewer" /\ SaveRunArtifact(c, "report")
  /\ \/ Release(c) /\ RunGoto(c, "ended")
     \/ UNCHANGED bound /\ RunGoto(c, "complete")
  /\ Outside /\ UNCHANGED <<owner, memory, working>>
MarkCompleted(c) ==
  /\ run[c].pc = "complete"
  /\ status' = [status EXCEPT ![run[c].task] = "completed"]
  /\ Release(c) /\ RunGoto(c, "ended")
  /\ UNCHANGED <<confVars, insVars, source, place, owner, refs, mutex, work, memory, working, records>>

RunStep(c) ==
  \/ Reopen(c) \/ ForceRelease(c) \/ OpenTaskSession(c) \/ BindTask(c) \/ UserCompletes(c)
  \/ InvokeOnProject(c) \/ Invoke(c) \/ InvokeAfterOpening(c)
  \/ BuildMemory(c) \/ ReadGlobalRules(c) \/ ResolveCall(c) \/ BuildRules(c) \/ BuildBehavior(c)
  \/ BuildWorking(c) \/ \E i \in 2..4 : BuildArtifacts(c, ArtifactOrder[i])
  \/ CaptureFence(c) \/ Commit(c) \/ CheckFields(c) \/ ApplyExaminerIntent(c)
  \/ SaveRecord(c) \/ SaveQuestionerContext(c) \/ SaveDraft(c) \/ SaveReviewerReport(c) \/ MarkCompleted(c)

RunDies(c) == /\ RunGoto(c, "crashed")
              /\ bound' = IF bound = c THEN NoCall ELSE bound

\* An agent call that a role contract forbids is allowed by no rule on disk, and
\* shown as allowed to no run, unless the user wrote it there by hand: neither
\* overlapping rule operations nor saves nor renderings, each of which copies
\* what it once read, put it there.
WithinContract ==
  /\ \A d \in RuleDocs : RulesWithin(docs[d].at)
  /\ \A c \in Calls : RulesWithin(run[c].calls)

\* A run whose result counts was shown what its task held when it began: every
\* record of the kinds its role is shown, and as the newest report no older one,
\* except that reports of one millisecond have no order.
ContextWhole ==
  \A c \in Calls : run[c].pc \in {"apply", "save", "complete"} /\ run[c].task # "none" =>
    LET shown == Sections(run[c].agent, TRUE) IN
    /\ \A r \in run[c].known : r.kind \in shown \ {"report"} => r \in run[c].seen
    /\ "report" \in shown => \A r \in run[c].known : r.kind = "report" => r.at <= run[c].report.at

\* The memory of a task, and its questioner context, are replaced by a run that
\* was shown what they held, or by one of the session that replaced them
\* meanwhile: never over what another session has put there since.
ReplacedAsRead(c, held, shown) == held = shown \/ run[held].session = run[c].session
MemoryReplacedAsRead ==
  [][\A c \in Calls, t \in Tasks :
       /\ memory'[t] = c /\ memory[t] # c => ReplacedAsRead(c, memory[t], run[c].shown)
       /\ working'[t] = c /\ working[t] # c => ReplacedAsRead(c, working[t], run[c].held)]_<<memory, working, run>>
=============================================================================
