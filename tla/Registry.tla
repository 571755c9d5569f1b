------------------------------ MODULE Registry ------------------------------
(***************************************************************************)
(* Projects, their tasks, and the memory references between them.  A       *)
(* project is created by a check and a write without a lock; a task is     *)
(* archived by a mark and a move under the lock of the task bindings,      *)
(* after its session was released; memory references are loaded and        *)
(* unloaded under the one lock of the memory graph, which the lifecycle of *)
(* a task does not take.                                                   *)
(***************************************************************************)
EXTENDS Configuration

CONSTANTS
  Projects,     \* project ids
  Tasks,        \* task ids
  Paths,        \* source directories
  Sources,      \* the projects of an installed machine, as source below
  Statuses,     \* its tasks, as status below
  References,   \* its memory references
  NoCall

Scopes == Projects \cup Tasks

ASSUME ScopesAssumption ==
  /\ Projects \cap Tasks = {} /\ Scopes \cap {"none", "open", "archive"} = {}
  /\ NoCall \notin Calls /\ Calls \cap {"none", "user"} = {}
ASSUME FirstAssumption ==
  /\ Sources \in [Projects -> Paths \cup {"none"}]
  /\ Statuses \in [Tasks -> {"none", "active", "completed"}]
  /\ References \subseteq Scopes \X Scopes
  /\ \A r \in References : IF r[1] \in Projects THEN Sources[r[1]] # "none" ELSE Statuses[r[1]] # "none"

VARIABLES
  source,     \* source[p]: the directory project p is registered for, or "none"
  status,     \* status[t]: the status in the record of task t, "none" before it
  place,      \* place[t]: the directory the record of t lies in
  owner,      \* owner[t]: the session task t is bound to, or "none"
  bound,      \* the call in the task-binding lock, or NoCall
  refs,       \* <<target, source>>: the memory of source is loaded by target
  mutex,      \* the call in the memory mutation lock, or NoCall
  work        \* work[c]: what call c is doing to the registry

regVars == <<source, status, place, owner, bound, refs, mutex, work>>

Resting == [op |-> "none", pc |-> "idle", for |-> "none", from |-> "none", listed |-> {}]
RegInit(installed) ==
  /\ source = IF installed THEN Sources ELSE [p \in Projects |-> "none"]
  /\ status = IF installed THEN Statuses ELSE [t \in Tasks |-> "none"]
  /\ refs = IF installed THEN References ELSE {}
  /\ place = [t \in Tasks |-> "open"]
  /\ owner = [t \in Tasks |-> IF status[t] = "none" THEN "none" ELSE "user"] /\ bound = NoCall
  /\ mutex = NoCall /\ work = [c \in Calls |-> Resting]

RegTypeOK ==
  /\ source \in [Projects -> Paths \cup {"none"}]
  /\ status \in [Tasks -> {"none", "active", "completed", "archived"}]
  /\ place \in [Tasks -> {"open", "archive"}]
  /\ owner \in [Tasks -> {"none", "user"} \cup Calls] /\ bound \in Calls \cup {NoCall}
  /\ refs \subseteq Scopes \X Scopes /\ mutex \in Calls \cup {NoCall}
  /\ \A c \in Calls : /\ work[c].op \in {"none", "create", "task", "archive", "load", "unload"}
                      /\ work[c].listed \subseteq Tasks \cup {"open", "archive"}

\* What another call finds: projects with a record, tasks wherever they lie.
Found(s) == IF s \in Projects THEN source[s] # "none" ELSE status[s] # "none"

Occupy(c) == edit[c].pc = "idle" /\ edit' = [edit EXCEPT ![c].pc = "busy"]
Take(c, op, pc, for, from) ==
  /\ Occupy(c)
  /\ work' = [work EXCEPT ![c] = [Resting EXCEPT !.op = op, !.pc = pc, !.for = for, !.from = from]]
  /\ UNCHANGED <<docs, byHand, slipped, source, status, place, owner, bound, refs, mutex>>
Becomes(c, pc) == work' = [work EXCEPT ![c] = IF pc \in Over THEN [Resting EXCEPT !.op = work[c].op, !.pc = pc]
                                            ELSE [work[c] EXCEPT !.pc = pc]]
At(c, op, pc) == work[c].op = op /\ work[c].pc = pc

(***************************************************************************)
(* Projects and tasks.                                                     *)
(***************************************************************************)
CreateProject(c) ==
  \E path \in Paths : /\ \A p \in Projects : source[p] # path
                      /\ Take(c, "create", "seed", path, "none")

\* The global rules are made sure of before anything of the project is written.
SeedForProject(c) ==
  /\ At(c, "create", "seed")
  /\ edit' = [edit EXCEPT ![c] = [Idle EXCEPT !.op = "seed", !.pc = "ensure"]]
  /\ Becomes(c, "register")
  /\ UNCHANGED <<docs, byHand, slipped, source, status, place, owner, bound, refs, mutex>>

\* The record is written last, under an id of its own.
RegisterProject(c) ==
  /\ At(c, "create", "register") /\ edit[c].pc = "ended"
  /\ \E p \in Projects : source[p] = "none" /\ source' = [source EXCEPT ![p] = work[c].for]
  /\ Becomes(c, "ended")
  /\ UNCHANGED <<confVars, status, place, owner, bound, refs, mutex>>

\* A task too is discoverable by its record, which is written last.
CreateTask(c) ==
  Fresh(c) /\ \E t \in Tasks :
    status[t] = "none" /\ (\E p \in Projects : Found(p)) /\ Take(c, "task", "register", t, "none")
RegisterTask(c) ==
  /\ At(c, "task", "register") /\ status[work[c].for] = "none"
  /\ status' = [status EXCEPT ![work[c].for] = "active"]
  /\ Becomes(c, "ended") /\ UNCHANGED <<confVars, source, place, owner, bound, refs, mutex>>

\* The task-binding lock is held from the check of the status to the move.
Archive(c) == Fresh(c) /\ \E t \in Tasks : Found(t) /\ Take(c, "archive", "check", t, "none")
CheckCompleted(c) ==
  /\ At(c, "archive", "check") /\ bound = NoCall
  /\ IF status[work[c].for] = "completed"
     THEN Becomes(c, "mark") /\ bound' = c /\ owner' = [owner EXCEPT ![work[c].for] = "none"]
     ELSE Becomes(c, "failed") /\ UNCHANGED <<bound, owner>>
  /\ UNCHANGED <<confVars, source, status, place, refs, mutex>>
MarkArchived(c) ==
  /\ At(c, "archive", "mark")
  /\ status' = [status EXCEPT ![work[c].for] = "archived"]
  /\ Becomes(c, "move") /\ UNCHANGED <<confVars, source, place, owner, bound, refs, mutex>>
MoveArchived(c) ==
  /\ At(c, "archive", "move")
  /\ place' = [place EXCEPT ![work[c].for] = "archive"] /\ bound' = NoCall
  /\ Becomes(c, "ended") /\ UNCHANGED <<confVars, source, status, owner, refs, mutex>>

(***************************************************************************)
(* Memory references.  The target is the scope the session is bound to,    *)
(* looked up before the lock; an archived task can be a source, never a    *)
(* target.                                                                 *)
(***************************************************************************)
Target(s) == Found(s) /\ (s \in Tasks => status[s] # "archived")

MayBeSource(s) == Found(s)
Load(c) == Fresh(c) /\ \E t, s \in Scopes : Target(t) /\ MayBeSource(s) /\ Take(c, "load", "lock", t, s)
Unload(c) == Fresh(c) /\ \E t, s \in Scopes : Target(t) /\ MayBeSource(s) /\ Take(c, "unload", "lock", t, s)

\* A bug: whoever asks may go on, the lock held or not.
LockMemoryFirst(c) ==
  /\ work[c].op \in {"load", "unload"} /\ work[c].pc = "lock"
  /\ mutex' = IF mutex = NoCall THEN c ELSE mutex
  /\ Becomes(c, IF work[c].op = "load" THEN "list" ELSE "remove")
  /\ UNCHANGED <<confVars, source, status, place, owner, bound, refs>>
LockMemory(c) ==
  /\ work[c].op \in {"load", "unload"} /\ work[c].pc = "lock" /\ mutex = NoCall
  /\ mutex' = c
  /\ Becomes(c, IF work[c].op = "load" THEN "list" ELSE "remove")
  /\ UNCHANGED <<confVars, source, status, place, owner, bound, refs>>

\* Open and archived tasks are listed side by side: a task that is moved in
\* between may be in neither list, or in both.
ListTasks(c, where) ==
  /\ At(c, "load", "list") /\ where \notin work[c].listed
  /\ work' = [work EXCEPT ![c].listed = @ \cup {where} \cup {t \in Tasks : Found(t) /\ place[t] = where}]
  /\ UNCHANGED <<confVars, source, status, place, owner, bound, refs, mutex>>

\* Following references from start leads to goal.
Leads(start, goal, graph) ==
  \A S \in SUBSET Scopes :
    (start \in S /\ \A r \in graph : r[1] \in S => r[2] \in S) => goal \in S
ASSUME ReferencesAssumption == \A r \in References : ~Leads(r[2], r[1], References)

Listed(c) == {r \in refs : r[1] \in work[c].listed \/ (r[1] \in Projects /\ Found(r[1]))}
MayLoad(c) ==
  /\ <<work[c].for, work[c].from>> \notin refs
  /\ ~Leads(work[c].from, work[c].for, Listed(c))

CheckLoad(c) ==
  /\ At(c, "load", "list") /\ {"open", "archive"} \subseteq work[c].listed
  /\ IF MayLoad(c) THEN Becomes(c, "write") /\ UNCHANGED mutex
     ELSE Becomes(c, "failed") /\ mutex' = NoCall
  /\ UNCHANGED <<confVars, source, status, place, owner, bound, refs>>

WriteReference(c) ==
  /\ At(c, "load", "write")
  /\ refs' = refs \cup {<<work[c].for, work[c].from>>}
  /\ mutex' = NoCall /\ Becomes(c, "ended") /\ UNCHANGED <<confVars, source, status, place, owner, bound>>

RemoveReference(c) ==
  /\ At(c, "unload", "remove")
  /\ refs' = refs \ {<<work[c].for, work[c].from>>}
  /\ mutex' = NoCall
  /\ Becomes(c, IF <<work[c].for, work[c].from>> \in refs THEN "ended" ELSE "failed")
  /\ UNCHANGED <<confVars, source, status, place, owner, bound>>
RegStep(c) ==
  \/ CreateProject(c) \/ SeedForProject(c) \/ RegisterProject(c) \/ CreateTask(c) \/ RegisterTask(c)
  \/ Archive(c) \/ CheckCompleted(c) \/ MarkArchived(c) \/ MoveArchived(c)
  \/ Load(c) \/ Unload(c) \/ LockMemory(c) \/ CheckLoad(c) \/ WriteReference(c) \/ RemoveReference(c)
  \/ \E where \in {"open", "archive"} : ListTasks(c, where)

RegDies(c) == /\ work' = [work EXCEPT ![c] = [Resting EXCEPT !.op = work[c].op, !.pc = "crashed"]]
              /\ mutex' = IF mutex = c THEN NoCall ELSE mutex
              /\ bound' = IF bound = c THEN NoCall ELSE bound

\* Memory is never its own source: every cycle of references passes through an
\* archived task.  Two loads that close a cycle together are kept apart by the
\* lock; a load may miss the references of a task that is moved to the archive
\* while it lists the tasks, and of no other.
MemoryAcyclic ==
  LET live == {s \in Scopes : s \in Projects \/ status[s] # "archived"}
      graph == {r \in refs : r[1] \in live /\ r[2] \in live}
  IN \A r \in graph : ~Leads(r[2], r[1], graph)
=============================================================================
