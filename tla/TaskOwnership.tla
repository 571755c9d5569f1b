---------------------------- MODULE TaskOwnership ----------------------------
(***************************************************************************)
(* SessionManager: which session owns which task.  A task has a claim file, *)
(* a session has a binding file, and ownership is the agreement of the two. *)
(* Locked operations run one at a time (ProcessLock shows when that holds); *)
(* inside the lock every write is a step of its own, so a crash or an I/O   *)
(* error can fall between any two of them, and bindProject and              *)
(* unbindProject, which take no lock, can write at any moment.              *)
(*                                                                         *)
(* A locked operation is modelled from the lock outwards: entering it takes *)
(* the lock, makes all its reads and chooses its writes; "step" is the      *)
(* write to be made next and "idle" means that the lock is free.            *)
(***************************************************************************)
EXTENDS Naturals, FiniteSets

CONSTANTS
  Sessions, Tasks, Projects,
  Unlocked,    \* sessions bindProject and unbindProject may be called for
  Legacy,      \* tasks whose claim may predate ownership tokens
  MaxTokens,   \* bound: ownership tokens generated
  MaxStrays,   \* bound: unlocked calls between their read and their write
  NoFile,      \* the file does not exist
  Torn,        \* the claim file exists but its JSON is incomplete
  NoTask, NoProject, NoCall, NoSession

Claim   == [session : Sessions, project : Projects, token : Nat]
Binding == [project : Projects \cup {NoProject}, task : Tasks \cup {NoTask}]
Fence   == [session : Sessions, project : Projects, task : Tasks, token : Nat]
Call    == [session : Sessions, project : Projects \cup {NoProject},
            task : Tasks \cup {NoTask}, token : Nat]
Stray   == [session : Sessions, project : Projects \cup {NoProject}]

ASSUME SubsetAssumption == Unlocked \subseteq Sessions /\ Legacy \subseteq Tasks
ASSUME TokenAssumption  == MaxTokens \in Nat /\ MaxStrays \in Nat
ASSUME ValueAssumption  ==
  /\ NoFile \notin Claim \cup Binding
  /\ Torn \notin Claim \cup {NoFile}
  /\ NoTask \notin Tasks /\ NoProject \notin Projects
  /\ NoCall \notin Call /\ NoSession \notin Sessions

VARIABLES
  claim,     \* claim[t]: state/task-bindings/<t>.json
  binding,   \* binding[s]: state/sessions/<s>.jsonc
  step,      \* the next write of the operation that has the lock
  after,     \* what follows the removal of a claim
  call,      \* what that operation works on
  strays,    \* unlocked calls that have read but not written
  fences,    \* fences handed to callers, who may use them at any later time
  minted,    \* ownership tokens generated; each is fresh
  term,      \* history: term[t], the token of the latest grant of t
  landed,    \* history: landed[t], the token of the latest commit to t
  disturbed  \* history: an operation was cut short, or raced by an unlocked one

vars == <<claim, binding, step, after, call, strays, fences, minted,
          term, landed, disturbed>>
files == <<claim, binding>>
history == <<term, landed, disturbed>>

Steps == {"idle", "create", "fill", "bind", "remove", "unbind", "drop",
          "upgrade", "fence", "commit"}

\* The binding of s names a task; a missing file reads as nothing bound.
BoundTo(s, t) == binding[s] # NoFile /\ binding[s].task = t
IsBound(s) == binding[s] # NoFile /\ binding[s].task # NoTask

\* Claim and binding agree: s owns t.
Owns(s, t) ==
  /\ claim[t] \notin {NoFile, Torn}
  /\ claim[t].session = s
  /\ binding[s] = [project |-> claim[t].project, task |-> t]
Owned(t) == \E s \in Sessions : Owns(s, t)
Orphan(t) == claim[t] \notin {NoFile, Torn} /\ ~Owned(t)

\* readJson throws on a torn file, before anything is written.
Readable(t) == claim[t] # Torn

TypeOK ==
  /\ claim \in [Tasks -> Claim \cup {NoFile, Torn}]
  /\ binding \in [Sessions -> Binding \cup {NoFile}]
  /\ step \in Steps
  /\ after \in {"idle", "create", "unbind", "drop"}
  /\ call \in Call \cup {NoCall}
  /\ strays \subseteq Stray
  /\ fences \subseteq Fence
  /\ minted \in Nat
  /\ term \in [Tasks -> Nat]
  /\ landed \in [Tasks -> Nat]
  /\ disturbed \in BOOLEAN

(* A legacy task may start owned under a claim without a token.              *)
Init ==
  /\ \E owner \in [Legacy -> Sessions \cup {NoSession}], p \in Projects :
       /\ \A t, u \in Legacy : owner[t] = owner[u] => t = u \/ owner[t] = NoSession
       /\ claim = [t \in Tasks |->
                     IF t \in Legacy /\ owner[t] # NoSession
                     THEN [session |-> owner[t], project |-> p, token |-> 0]
                     ELSE NoFile]
       /\ binding = [s \in Sessions |->
                       IF \E t \in Legacy : owner[t] = s
                       THEN [project |-> p,
                             task |-> CHOOSE t \in Legacy : owner[t] = s]
                       ELSE NoFile]
  /\ step = "idle" /\ after = "idle" /\ call = NoCall
  /\ strays = {} /\ fences = {} /\ minted = 0
  /\ term = [t \in Tasks |-> 0] /\ landed = [t \in Tasks |-> 0]
  /\ disturbed = FALSE

-----------------------------------------------------------------------------
(* Entering a locked operation. *)

Enter(first, then, c) ==
  /\ step = "idle"
  /\ step' = first /\ after' = then /\ call' = c
  /\ UNCHANGED <<claim, binding, strays, fences, term, landed, disturbed>>

\* findTaskOwnerWhileLocked removes a claim its owner's binding contradicts
\* before the operation goes on with "then".
HealThen(t, then, c) ==
  IF Orphan(t) THEN Enter("remove", then, c) ELSE Enter(then, "idle", c)

\* A bug: a session that already has a task may bind another.
BindTaskTwice(s, t) ==
  /\ binding[s] # NoFile /\ binding[s].project # NoProject
  /\ Readable(t) /\ ~Owned(t)
  /\ minted < MaxTokens /\ minted' = minted + 1
  /\ HealThen(t, "create", [session |-> s, project |-> binding[s].project,
                            task |-> t, token |-> minted + 1])

BindTask(s, t) ==
  /\ binding[s] # NoFile /\ binding[s].project # NoProject /\ ~IsBound(s)
  /\ Readable(t) /\ ~Owned(t)
  /\ minted < MaxTokens /\ minted' = minted + 1
  /\ HealThen(t, "create", [session |-> s, project |-> binding[s].project,
                            task |-> t, token |-> minted + 1])

UnbindTask(s) ==
  /\ IsBound(s)
  /\ LET t == binding[s].task
     IN  /\ Readable(t) /\ (Owned(t) => Owns(s, t))
         /\ HealThen(t, "unbind", [session |-> s, project |-> binding[s].project,
                                   task |-> t, token |-> 0])
  /\ UNCHANGED minted

CloseSession(s) ==
  /\ binding[s] # NoFile
  /\ LET b == binding[s]
         c == [session |-> s, project |-> b.project, task |-> b.task, token |-> 0]
     IN  IF b.task = NoTask
         THEN Enter("drop", "idle", c)
         ELSE /\ Readable(b.task) /\ (Owned(b.task) => Owns(s, b.task))
              /\ Enter("remove", "drop", c)
  /\ UNCHANGED minted

\* A bug: only a claim that is honoured can be released.
ForceReleaseOwned(t) ==
  /\ Owned(t)
  /\ Enter("remove", "drop",
           [session |-> claim[t].session, project |-> claim[t].project,
            task |-> t, token |-> 0])
  /\ UNCHANGED minted

(* releaseTaskClaimWhileLocked, for forceReleaseTaskClaim and for            *)
(* withTaskClaimReleased, whose two callbacks write no ownership state.      *)
ForceRelease(t) ==
  /\ claim[t] # NoFile /\ Readable(t)
  /\ Enter("remove", IF Owned(t) THEN "drop" ELSE "idle",
           [session |-> claim[t].session, project |-> claim[t].project,
            task |-> t, token |-> 0])
  /\ UNCHANGED minted

FindTaskOwner(t) ==
  /\ Orphan(t)
  /\ Enter("remove", "idle", [session |-> claim[t].session,
                              project |-> claim[t].project,
                              task |-> t, token |-> 0])
  /\ UNCHANGED minted

CaptureTaskOwnership(s) ==
  /\ IsBound(s)
  /\ LET t == binding[s].task
         with(k) == [session |-> s, project |-> binding[s].project,
                     task |-> t, token |-> k]
     IN  \/ /\ Owns(s, t) /\ claim[t].token > 0
            /\ Enter("fence", "idle", with(claim[t].token))
            /\ UNCHANGED minted
         \/ /\ Owns(s, t) /\ claim[t].token = 0
            /\ minted < MaxTokens /\ minted' = minted + 1
            /\ Enter("upgrade", "idle", with(minted + 1))
         \/ /\ Orphan(t)
            /\ Enter("remove", "idle", with(0))
            /\ UNCHANGED minted

\* Bugs: the token is not compared; or any owner of the task will do.
CurrentIgnoringToken(f) == Owns(f.session, f.task) /\ claim[f.task].project = f.project
CurrentOfAnyone(f) == Owned(f.task)

(* withTaskOwnershipAuthority: isTaskOwnershipCurrentWhileLocked, then the   *)
(* caller's operation under the lock.                                        *)
Current(f) == Owns(f.session, f.task) /\ claim[f.task].project = f.project
              /\ claim[f.task].token = f.token

CommitUnder(f) ==
  /\ Current(f)
  /\ Enter("commit", "idle", f)
  /\ UNCHANGED minted

-----------------------------------------------------------------------------
(* The writes of the operation that has the lock. *)

Finish == step' = "idle" /\ after' = "idle" /\ call' = NoCall

SetClaim(to) == claim' = [claim EXCEPT ![call.task] = to]
SetBinding(to) == binding' = [binding EXCEPT ![call.session] = to]

\* createJsonExclusive is a plain exclusive write: the file exists before its
\* contents do.
CreateClaim ==
  /\ step = "create" /\ SetClaim(Torn)
  /\ step' = "fill" /\ UNCHANGED <<after, call, binding>>
  /\ UNCHANGED <<strays, fences, minted, history>>

FillClaim ==
  /\ step = "fill"
  /\ SetClaim([session |-> call.session, project |-> call.project,
               token |-> call.token])
  /\ step' = "bind" /\ UNCHANGED <<after, call, binding>>
  /\ UNCHANGED <<strays, fences, minted, history>>

WriteBinding ==
  /\ step = "bind"
  /\ SetBinding([project |-> call.project, task |-> call.task])
  /\ term' = [term EXCEPT ![call.task] = call.token]
  /\ Finish
  /\ UNCHANGED <<claim, strays, fences, minted, landed, disturbed>>

\* The binding cannot be written: bindTask takes its claim back.
WriteBindingFails ==
  /\ step = "bind"
  /\ step' = "remove" /\ after' = "idle"
  /\ UNCHANGED <<call, files, strays, fences, minted, history>>

RemoveClaim ==
  /\ step = "remove" /\ SetClaim(NoFile)
  /\ IF after = "idle" THEN Finish
     ELSE step' = after /\ after' = "idle" /\ UNCHANGED call
  /\ UNCHANGED <<binding, strays, fences, minted, history>>

ReleaseBinding ==
  /\ step = "unbind"
  /\ SetBinding([project |-> call.project, task |-> NoTask])
  /\ step' = "remove" /\ UNCHANGED <<after, call>>
  /\ UNCHANGED <<claim, strays, fences, minted, history>>

DropBinding ==
  /\ step = "drop" /\ SetBinding(NoFile) /\ Finish
  /\ UNCHANGED <<claim, strays, fences, minted, history>>

UpgradeClaim ==
  /\ step = "upgrade"
  /\ claim' = [claim EXCEPT ![call.task].token = call.token]
  /\ term' = [term EXCEPT ![call.task] = call.token]
  /\ step' = "fence" /\ UNCHANGED <<after, call>>
  /\ UNCHANGED <<binding, strays, fences, minted, landed, disturbed>>

ReturnFence ==
  /\ step = "fence" /\ fences' = fences \cup {call} /\ Finish
  /\ UNCHANGED <<files, strays, minted, history>>

CommitLands ==
  /\ step = "commit"
  /\ landed' = [landed EXCEPT ![call.task] = call.token] /\ Finish
  /\ UNCHANGED <<files, strays, fences, minted, term, disturbed>>

(* The process dies, or a write throws: the remaining writes are not made.   *)
(* The lock is recovered from a dead owner and released by a live one.       *)
Abandon ==
  /\ step # "idle" /\ Finish
  /\ disturbed' = TRUE
  /\ UNCHANGED <<files, strays, fences, minted, term, landed>>

-----------------------------------------------------------------------------
(* bindProject and unbindProject: read the binding, then write it, unlocked. *)

StrayReads(s) ==
  /\ s \in Unlocked /\ ~IsBound(s)
  /\ Cardinality(strays) < MaxStrays
  /\ \E p \in Projects \cup {NoProject} :
       strays' = strays \cup {[session |-> s, project |-> p]}
  /\ UNCHANGED <<files, step, after, call, fences, minted, history>>

StrayWrites(w) ==
  /\ strays' = strays \ {w}
  /\ binding' = [binding EXCEPT ![w.session] = [project |-> w.project, task |-> NoTask]]
  /\ disturbed' = (disturbed \/ IsBound(w.session))
  /\ UNCHANGED <<claim, step, after, call, fences, minted, term, landed>>

(* bindProject for a session without a binding, as openTaskSession and       *)
(* openProjectSession call it: the id is fresh, so nobody races the write.   *)
(* A session that was closed may come back under its old id.                 *)
OpenSession(s) ==
  /\ binding[s] = NoFile
  /\ \E p \in Projects :
       binding' = [binding EXCEPT ![s] = [project |-> p, task |-> NoTask]]
  /\ UNCHANGED <<claim, step, after, call, strays, fences, minted, history>>

Perform ==
  \/ CreateClaim \/ FillClaim \/ WriteBinding \/ WriteBindingFails
  \/ RemoveClaim \/ ReleaseBinding \/ DropBinding
  \/ UpgradeClaim \/ ReturnFence \/ CommitLands

Next ==
  \/ \E s \in Sessions : \/ OpenSession(s) \/ StrayReads(s)
                         \/ UnbindTask(s) \/ CloseSession(s)
                         \/ CaptureTaskOwnership(s)
                         \/ \E t \in Tasks : BindTask(s, t)
  \/ \E t \in Tasks : ForceRelease(t) \/ FindTaskOwner(t)
  \/ \E f \in fences : CommitUnder(f)
  \/ \E w \in strays : StrayWrites(w)
  \/ Perform \/ Abandon

Spec == Init /\ [][Next]_vars

(* The holder of the lock makes its writes; a user who keeps asking for a    *)
(* force release gets the lock again and again, whoever else contends; and   *)
(* operations are not cut short forever.                                     *)
FairSpec ==
  /\ Spec /\ WF_vars(Perform) /\ <>[][~Abandon]_vars
  /\ \A t \in Tasks : SF_vars(ForceRelease(t))

-----------------------------------------------------------------------------
(* SessionManager implements the lease: ownership is granted with fresh      *)
(* tokens, revoked at one instant although two files change, and             *)
(* withTaskOwnershipAuthority commits only for the current holder, across    *)
(* crashes between any two writes.                                           *)
Holder(t) == IF Owned(t) THEN claim[t].session ELSE NoSession

Lease == INSTANCE TaskLease WITH holder <- [t \in Tasks |-> Holder(t)]
ImplementsLease == Lease!LeaseSpec

(* Even when bindProject or unbindProject erases a binding under the lock's  *)
(* holder, work of an earlier grant never lands after work of a later one.   *)
LandsInOrder == [][\A t \in Tasks : landed[t] <= landed'[t]]_vars

(* A force release, repeated, frees a task whose claim can be read, whatever *)
(* crashes left it without a binding (session-manager.ts:271-285).           *)
ClaimReleasable ==
  \A t \in Tasks : claim[t] \notin {NoFile, Torn} ~> claim[t] \in {NoFile, Torn}

-----------------------------------------------------------------------------
(* Why the lease is implemented: the inductive invariant, for a system where *)
(* no unlocked call is made (Unlocked = {}).                                 *)

\* An operation about to make the write "first", to be followed by "then",
\* has what these writes need.
Fits(first, then, c) ==
  /\ c \in Call /\ first \in Steps \ {"idle"}
  /\ then \in {"idle", "create", "unbind", "drop"}
  /\ first # "remove" => then = "idle"
  /\ first \in {"remove", "unbind"} => c.task \in Tasks
  /\ first \in {"create", "fill", "bind", "upgrade", "fence", "commit"} => c \in Fence
  /\ first = "remove" /\ then = "create" => c \in Fence
  /\ first = "upgrade" => claim[c.task] \in Claim

CallInv == IF step = "idle" THEN after = "idle" /\ call = NoCall
                            ELSE Fits(step, after, call)

\* bindTask is on its way from its checks to the write that grants the task.
Granting == step \in {"create", "fill", "bind"} \/ (step = "remove" /\ after = "create")

(* What is known of the operation that has the lock, write by write.         *)
PhaseInv ==
  /\ Granting => /\ ~IsBound(call.session)
                 /\ term[call.task] < call.token /\ call.token <= minted
  /\ step = "create" => claim[call.task] = NoFile
  /\ step = "fill" => claim[call.task] = Torn
  /\ step = "bind" => claim[call.task] = [session |-> call.session,
                                         project |-> call.project,
                                         token |-> call.token]
  /\ step = "upgrade" => /\ Owns(call.session, call.task)
                         /\ claim[call.task].token = 0
                         /\ 0 < call.token /\ call.token <= minted
  /\ step = "fence" => 0 < call.token
  /\ step = "commit" => /\ Owns(call.session, call.task)
                        /\ claim[call.task].token = call.token
                        /\ 0 < call.token

(* Tokens are handed out in order, and an owned task's claim carries the     *)
(* token of its latest grant; callers never hold a fence without a token.    *)
TokenInv ==
  /\ \A t \in Tasks : claim[t] \in Claim => claim[t].token <= minted
  /\ \A t \in Tasks : term[t] <= minted
  /\ \A t \in Tasks : Owned(t) => claim[t].token = term[t]
  /\ \A f \in fences : 0 < f.token

(* Why work lands in order even when unlocked calls race: a claim is removed *)
(* and created anew only under a larger token, and nobody but the operation  *)
(* in the lock touches the claim that its commit was checked against.        *)
OrderInv ==
  /\ \A t \in Tasks : landed[t] <= minted
  /\ \A t \in Tasks : claim[t] \in Claim =>
       landed[t] <= claim[t].token /\ claim[t].token <= minted
  /\ Granting \/ step = "upgrade" =>
       landed[call.task] <= call.token /\ call.token <= minted
  /\ step = "commit" =>
       claim[call.task] \in Claim /\ claim[call.task].token = call.token

RaceInv == TypeOK /\ CallInv /\ OrderInv

(* The inductive invariant behind ImplementsLease: the steps of bindTask,    *)
(* release and commit never outlive what they checked when they entered.     *)
OwnInv == TypeOK /\ CallInv /\ strays = {} /\ PhaseInv /\ TokenInv
=============================================================================
