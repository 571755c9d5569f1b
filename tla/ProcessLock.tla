----------------------------- MODULE ProcessLock -----------------------------
(***************************************************************************)
(* RecoverableProcessLock: a mutex kept as one file of the state directory *)
(* (ADR 0004).  A client is one call of withLock or recoverIfOwnerDead; it *)
(* runs in an operating system process, and several clients may share one. *)
(* Every file operation is one atomic step and other clients run between   *)
(* any two of them.                                                        *)
(*                                                                         *)
(* The owner id is random per acquisition; here the n-th acquisition of    *)
(* client c is the record [client |-> c, n |-> n], which is as unique and  *)
(* from which the pid and host of the owner record are read off.           *)
(***************************************************************************)
EXTENDS Naturals, FiniteSets

CONSTANTS
  Clients,      \* calls that use the lock
  Pids,         \* operating system processes
  Hosts,        \* machines that share the state directory
  PidOf,        \* PidOf[c]: the process client c runs in
  HostOf,       \* HostOf[p]: the machine process p runs on
  RetryCount,   \* attempts of one acquisition (retryCount, 500 by default)
  MaxGen,       \* bound: acquisitions per client
  Free,         \* the lock path does not exist
  Legacy,       \* a {token, processId} file from before ADR 0004
  Malformed     \* a file that is neither an owner record nor a legacy one

Generation == [client : Clients, n : Nat]
Artifacts  == {Legacy, Malformed}
Contents   == Generation \cup Artifacts \cup {Free}

ASSUME PidAssumption    == PidOf \in [Clients -> Pids]
ASSUME HostAssumption   == HostOf \in [Pids -> Hosts]
ASSUME RetryAssumption  == RetryCount \in Nat \ {0}
ASSUME BoundAssumption  == MaxGen \in Nat
ASSUME FileAssumption   ==
  /\ Free \notin Generation \cup Artifacts
  /\ Artifacts \cap Generation = {}

VARIABLES
  lock,        \* contents of the lock path
  quarantine,  \* quarantine[c]: the file c moved aside, Free when it has none
  pc,          \* where client c is
  goal,        \* what client c was called for: "lock" or "recover"
  seen,        \* seen[c]: contents client c read at the lock path
  tries,       \* tries[c]: attempts spent by the current acquisition
  gen,         \* gen[c]: acquisitions of client c so far
  proc,        \* proc[p]: running, gone, or gone with its pid given to another
  misfired     \* history: a recovery captured a generation it had not proved dead

vars == <<lock, quarantine, pc, goal, seen, tries, gen, proc, misfired>>

Stages == {"idle", "create", "read", "probe", "capture", "verify",
           "critical", "release", "remove"}

\* The owner record client c publishes in its current acquisition.
Mine(c) == [client |-> c, n |-> gen[c]]

Running(c) == proc[PidOf[c]] = "running"

\* Bugs: the probe's verdict is not looked at, or a file that is no owner record
\* counts as abandoned.
ProvedDeadUnprobed(c, contents) ==
  /\ contents \in Generation
  /\ HostOf[PidOf[contents.client]] = HostOf[PidOf[c]]

ProvedDeadOrArtifact(c, contents) ==
  \/ contents \in Artifacts
  \/ /\ contents \in Generation
     /\ HostOf[PidOf[contents.client]] = HostOf[PidOf[c]]
     /\ proc[PidOf[contents.client]] = "gone"

\* inspect(): only an owner record whose host is this one is ever probed, and
\* the probe answers dead for ESRCH alone.
ProvedDead(c, contents) ==
  /\ contents \in Generation
  /\ HostOf[PidOf[contents.client]] = HostOf[PidOf[c]]
  /\ proc[PidOf[contents.client]] = "gone"

\* Weaker than ProvedDead: the pid may have been reused since the probe.
DeadHere(c, contents) ==
  /\ contents \in Generation
  /\ HostOf[PidOf[contents.client]] = HostOf[PidOf[c]]
  /\ proc[PidOf[contents.client]] # "running"

At(c, stage) == pc[c] = stage /\ Running(c)
Goto(c, stage) == pc' = [pc EXCEPT ![c] = stage]

TypeOK ==
  /\ lock \in Contents
  /\ quarantine \in [Clients -> Contents]
  /\ pc \in [Clients -> Stages]
  /\ goal \in [Clients -> {"lock", "recover"}]
  /\ seen \in [Clients -> Contents]
  /\ tries \in [Clients -> 0 .. (RetryCount - 1)]
  /\ gen \in [Clients -> Nat]
  /\ proc \in [Pids -> {"running", "gone", "reused"}]
  /\ misfired \in BOOLEAN

Init ==
  /\ lock \in Artifacts \cup {Free}
  /\ quarantine = [c \in Clients |-> Free]
  /\ pc = [c \in Clients |-> "idle"]
  /\ goal = [c \in Clients |-> "lock"]
  /\ seen = [c \in Clients |-> Free]
  /\ tries = [c \in Clients |-> 0]
  /\ gen = [c \in Clients |-> 0]
  /\ proc = [p \in Pids |-> "running"]
  /\ misfired = FALSE

-----------------------------------------------------------------------------
(* withLock and recoverIfOwnerDead are called. *)

CallWithLock(c) ==
  /\ At(c, "idle") /\ gen[c] < MaxGen
  /\ goal' = [goal EXCEPT ![c] = "lock"]
  /\ Goto(c, "create")
  /\ UNCHANGED <<lock, quarantine, seen, tries, gen, proc, misfired>>

CallRecover(c) ==
  /\ At(c, "idle")
  /\ goal' = [goal EXCEPT ![c] = "recover"]
  /\ Goto(c, "read")
  /\ UNCHANGED <<lock, quarantine, seen, tries, gen, proc, misfired>>

(* The attempt is over without the lock: return, try again, or give up with  *)
(* LockAcquisitionTimeout.  What was read in the attempt is forgotten.       *)
NextAttempt(c) ==
  LET retry == goal[c] = "lock" /\ tries[c] + 1 < RetryCount
  IN  /\ Goto(c, IF retry THEN "create" ELSE "idle")
      /\ tries' = [tries EXCEPT ![c] = IF retry THEN @ + 1 ELSE 0]
      /\ seen' = [seen EXCEPT ![c] = Free]

\* A bug: a rename, which replaces what is at the path.
CreateOverwrites(c) ==
  /\ At(c, "create")
  /\ gen' = [gen EXCEPT ![c] = @ + 1]
  /\ lock' = [client |-> c, n |-> gen[c] + 1]
  /\ tries' = [tries EXCEPT ![c] = 0]
  /\ Goto(c, "critical")
  /\ UNCHANGED <<quarantine, goal, seen, proc, misfired>>

(* createJsonAtomicExclusive: temp file plus link, so the record is never    *)
(* visible half-written.                                                     *)
CreateSucceeds(c) ==
  /\ At(c, "create") /\ lock = Free
  /\ gen' = [gen EXCEPT ![c] = @ + 1]
  /\ lock' = [client |-> c, n |-> gen[c] + 1]
  /\ tries' = [tries EXCEPT ![c] = 0]
  /\ Goto(c, "critical")
  /\ UNCHANGED <<quarantine, goal, seen, proc, misfired>>

CreateFails(c) ==
  /\ At(c, "create") /\ lock # Free
  /\ Goto(c, "read")
  /\ UNCHANGED <<lock, quarantine, goal, seen, tries, gen, proc, misfired>>

Read(c) ==
  /\ At(c, "read")
  /\ seen' = [seen EXCEPT ![c] = lock]
  /\ Goto(c, "probe")
  /\ UNCHANGED <<lock, quarantine, goal, tries, gen, proc, misfired>>

\* A bug: a dead owner is waited for like a live one.
ProbeDeadRetries(c) ==
  /\ At(c, "probe") /\ ProvedDead(c, seen[c])
  /\ NextAttempt(c)
  /\ UNCHANGED <<lock, quarantine, goal, gen, proc, misfired>>

(* The pid is probed after the read has returned. *)
ProbeDead(c) ==
  /\ At(c, "probe") /\ ProvedDead(c, seen[c])
  /\ Goto(c, "capture")
  /\ UNCHANGED <<lock, quarantine, goal, seen, tries, gen, proc, misfired>>

ProbeNotDead(c) ==
  /\ At(c, "probe") /\ ~ProvedDead(c, seen[c])
  /\ NextAttempt(c)
  /\ UNCHANGED <<lock, quarantine, goal, gen, proc, misfired>>

-----------------------------------------------------------------------------
(* recoverGeneration: capture, verify, then discard or restore. *)

CaptureMisses(c) ==
  /\ At(c, "capture") /\ lock = Free
  /\ NextAttempt(c)
  /\ UNCHANGED <<lock, quarantine, goal, gen, proc, misfired>>

Capture(c) ==
  /\ At(c, "capture") /\ lock # Free
  /\ quarantine' = [quarantine EXCEPT ![c] = lock]
  /\ lock' = Free
  /\ misfired' = (misfired \/ lock # seen[c])
  /\ Goto(c, "verify")
  /\ UNCHANGED <<goal, seen, tries, gen, proc>>

Discard(c) ==
  /\ At(c, "verify") /\ quarantine[c] = seen[c]
  /\ quarantine' = [quarantine EXCEPT ![c] = Free]
  /\ NextAttempt(c)
  /\ UNCHANGED <<lock, goal, gen, proc, misfired>>

\* A bug: whatever was captured is removed.
RestoreNothing(c) ==
  /\ At(c, "verify") /\ quarantine[c] # seen[c]
  /\ quarantine' = [quarantine EXCEPT ![c] = Free]
  /\ NextAttempt(c)
  /\ UNCHANGED <<lock, goal, gen, proc, misfired>>

(* linkExclusive back to the lock path; when a newer owner already took the  *)
(* path the captured file is removed.                                        *)
Restore(c) ==
  /\ At(c, "verify") /\ quarantine[c] # seen[c]
  /\ lock' = IF lock = Free THEN quarantine[c] ELSE lock
  /\ quarantine' = [quarantine EXCEPT ![c] = Free]
  /\ NextAttempt(c)
  /\ UNCHANGED <<goal, gen, proc, misfired>>

-----------------------------------------------------------------------------
(* The operation returns or throws; `finally` releases the lock. *)

Leave(c) ==
  /\ At(c, "critical")
  /\ Goto(c, "release")
  /\ UNCHANGED <<lock, quarantine, goal, seen, tries, gen, proc, misfired>>

(* release(): read the record, compare the owner id, then unlink the path. *)
ReleaseReads(c) ==
  /\ At(c, "release")
  /\ Goto(c, IF lock = Mine(c) THEN "remove" ELSE "idle")
  /\ UNCHANGED <<lock, quarantine, goal, seen, tries, gen, proc, misfired>>

ReleaseRemoves(c) ==
  /\ At(c, "remove")
  /\ lock' = Free
  /\ Goto(c, "idle")
  /\ UNCHANGED <<quarantine, goal, seen, tries, gen, proc, misfired>>

(* A process exits or is killed: none of its clients takes another step and  *)
(* what they held in memory is lost.                                         *)
ProcessEnds(p) ==
  /\ proc[p] = "running"
  /\ proc' = [proc EXCEPT ![p] = "gone"]
  /\ pc' = [c \in Clients |-> IF PidOf[c] = p THEN "idle" ELSE pc[c]]
  /\ seen' = [c \in Clients |-> IF PidOf[c] = p THEN Free ELSE seen[c]]
  /\ tries' = [c \in Clients |-> IF PidOf[c] = p THEN 0 ELSE tries[c]]
  /\ UNCHANGED <<lock, quarantine, goal, gen, misfired>>

(* Its pid is given to an unrelated process, which the probe finds alive.    *)
PidReused(p) ==
  /\ proc[p] = "gone"
  /\ proc' = [proc EXCEPT ![p] = "reused"]
  /\ UNCHANGED <<lock, quarantine, pc, goal, seen, tries, gen, misfired>>

Step(c) ==
  \/ CreateSucceeds(c) \/ CreateFails(c)
  \/ Read(c) \/ ProbeDead(c) \/ ProbeNotDead(c)
  \/ CaptureMisses(c) \/ Capture(c) \/ Discard(c) \/ Restore(c)
  \/ Leave(c) \/ ReleaseReads(c) \/ ReleaseRemoves(c)

Next ==
  \/ \E c \in Clients : CallWithLock(c) \/ CallRecover(c) \/ Step(c)
  \/ \E p \in Pids : ProcessEnds(p) \/ PidReused(p)

Spec == Init /\ [][Next]_vars

(* Nothing makes a caller call or a process end; a client whose process runs *)
(* finishes what it started, because every step is a file operation that     *)
(* completes and the critical sections are short deterministic code.         *)
Fairness == \A c \in Clients : WF_vars(Step(c))
FairSpec == Spec /\ Fairness

-----------------------------------------------------------------------------
Holding(c) == pc[c] \in {"critical", "release", "remove"}
InCritical(c) == pc[c] = "critical" /\ Running(c)

(* At most one client of a running process is inside the critical section.   *)
(* recoverable-process-lock.ts:145-163 and ADR 0004 promise that recovery    *)
(* never takes the lock from a live owner.                                   *)
MutualExclusion ==
  \A c, d \in Clients : InCritical(c) /\ InCritical(d) => c = d

(* As long as no recovery captured a generation other than the one it proved *)
(* dead, the lock is a mutex, whatever crashes and recoveries happened.      *)
(* The hazard is the read-probe-rename sequence of recoverGeneration.        *)
ExclusionUnlessMisfired == misfired \/ MutualExclusion

\* What c has in quarantine is lost with this step: it is removed and not back at
\* the lock path, or c ends and nobody looks at its quarantine again.
Loses(c) ==
  /\ quarantine[c] # Free /\ lock' # quarantine[c]
  /\ quarantine'[c] = Free \/ (Running(c) /\ ~Running(c)')

(* Whatever record a recovery takes away for good is of a process of this    *)
(* machine that is gone; unless a recovery captured another one than it had  *)
(* proved dead, and then only because a newer owner has the path by now, or  *)
(* the recovery died before it could restore it.  The hazard is the captured *)
(* live owner of recoverGeneration, on both of its ways out.                 *)
RecoveryLosesOnlyTheDead ==
  [][\A c \in Clients : Loses(c) =>
       \/ DeadHere(c, quarantine[c])
       \/ misfired /\ (lock \in Generation \/ ~Running(c)')]_vars

(* A lock path that holds a legacy or malformed artifact keeps it: it is never*)
(* moved by a recovery or taken by an acquisition (ADR 0004: fail closed).   *)
ArtifactsUntouched ==
  [][(lock \in Artifacts) => (lock' = lock)]_vars

\* The owner of the lock is proved dead for the client of a running process.
FacesTheDead(c) == Running(c) /\ lock \in Generation /\ ProvedDead(c, lock)

(* The lock path of a dead owner, on this machine and with its pid not       *)
(* reused, is freed once a live client contends for it, unless that client   *)
(* dies or the pid is reused meanwhile.                                      *)
DeadOwnerReclaimed ==
  \A c \in Clients : (At(c, "create") /\ FacesTheDead(c)) ~> ~FacesTheDead(c)

-----------------------------------------------------------------------------
(* Why the lock excludes: the inductive invariant behind                     *)
(* ExclusionUnlessMisfired, RecoveryLosesOnlyTheDead and ArtifactsUntouched. *)

(* Without a misfire, a client of a running process that believes it holds   *)
(* the lock has its own record at the lock path.                             *)
HoldersAtPath ==
  ~misfired => \A c \in Clients : Holding(c) /\ Running(c) => lock = Mine(c)

(* What a recovery is about to capture, or has captured, names a generation  *)
(* whose process is gone for good.                                           *)
RecoversTheDead ==
  \A c \in Clients : pc[c] \in {"capture", "verify"} => DeadHere(c, seen[c])

(* Without a misfire a recovery has in quarantine what it proved dead.       *)
CapturesTheDead ==
  ~misfired => \A c \in Clients : pc[c] = "verify" => quarantine[c] = seen[c]

(* While an artifact is at the lock path nobody is past the probe; and no    *)
(* recovery ever moves one aside.                                            *)
ArtifactsAtRest ==
  lock \in Artifacts =>
    \A c \in Clients : /\ pc[c] \in {"idle", "create", "read", "probe"}
                       /\ seen[c] \in Artifacts \cup {Free}

QuarantineIsOurs == \A c \in Clients : quarantine[c] \notin Artifacts

\* What is in quarantine is being looked at, as long as its recovery lives.
QuarantineIsHeld ==
  \A c \in Clients : quarantine[c] # Free /\ Running(c) => pc[c] = "verify"

(* The inductive invariant of recoverGeneration, acquire and release taken   *)
(* together: every claim above, which no single one of them implies.         *)
LockInv ==
  /\ TypeOK
  /\ HoldersAtPath
  /\ RecoversTheDead
  /\ CapturesTheDead
  /\ ArtifactsAtRest
  /\ QuarantineIsOurs
  /\ QuarantineIsHeld
=============================================================================
