-------------------------- MODULE ProcessLockProofs --------------------------
(***************************************************************************)
(* What the recoverable lock guarantees for any number of clients,         *)
(* processes and machines: types, exclusion as long as no recovery captures *)
(* a generation it had not proved dead, and what recovery may take away for *)
(* good.                                                                    *)
(***************************************************************************)
EXTENDS ProcessLock, TLAPS

(* Every variable starts in its type. *)
LEMMA TypingInit == Init => TypeOK
<1> SUFFICES ASSUME Init PROVE TypeOK
  OBVIOUS
<1>1. Free \in Contents /\ lock \in Contents
  BY DEF Init, Contents
<1>2. 0 \in 0 .. (RetryCount - 1)
  BY RetryAssumption
<1>3. QED
  BY <1>1, <1>2 DEF Init, TypeOK, Stages

(* The end of an attempt keeps the types of what it changes. *)
LEMMA NextAttemptTyping ==
  ASSUME TypeOK, NEW c \in Clients, NextAttempt(c)
  PROVE  /\ pc' \in [Clients -> Stages]
         /\ tries' \in [Clients -> 0 .. (RetryCount - 1)]
         /\ seen' \in [Clients -> Contents]
BY RetryAssumption DEF NextAttempt, Goto, TypeOK, Stages, Contents

(* Every step keeps the types. *)
LEMMA TypingStep == TypeOK /\ [Next]_vars => TypeOK'
<1> SUFFICES ASSUME TypeOK, [Next]_vars PROVE TypeOK'
  OBVIOUS
<1> USE RetryAssumption DEF TypeOK, Contents, Stages, Goto, At
<1>1. ASSUME NEW c \in Clients, CallWithLock(c) PROVE TypeOK'
  BY <1>1 DEF CallWithLock
<1>2. ASSUME NEW c \in Clients, CallRecover(c) PROVE TypeOK'
  BY <1>2 DEF CallRecover
<1>3. ASSUME NEW c \in Clients, CreateSucceeds(c) PROVE TypeOK'
  BY <1>3 DEF CreateSucceeds, Generation
<1>4. ASSUME NEW c \in Clients, CreateFails(c) PROVE TypeOK'
  BY <1>4 DEF CreateFails
<1>5. ASSUME NEW c \in Clients, Read(c) PROVE TypeOK'
  BY <1>5 DEF Read
<1>6. ASSUME NEW c \in Clients, ProbeDead(c) PROVE TypeOK'
  BY <1>6 DEF ProbeDead
<1>7. ASSUME NEW c \in Clients, ProbeNotDead(c) PROVE TypeOK'
  BY <1>7, NextAttemptTyping DEF ProbeNotDead
<1>8. ASSUME NEW c \in Clients, CaptureMisses(c) PROVE TypeOK'
  BY <1>8, NextAttemptTyping DEF CaptureMisses
<1>9. ASSUME NEW c \in Clients, Capture(c) PROVE TypeOK'
  BY <1>9 DEF Capture
<1>10. ASSUME NEW c \in Clients, Discard(c) PROVE TypeOK'
  BY <1>10, NextAttemptTyping DEF Discard
<1>11. ASSUME NEW c \in Clients, Restore(c) PROVE TypeOK'
  BY <1>11, NextAttemptTyping DEF Restore
<1>12. ASSUME NEW c \in Clients, Leave(c) PROVE TypeOK'
  BY <1>12 DEF Leave
<1>13. ASSUME NEW c \in Clients, ReleaseReads(c) PROVE TypeOK'
  BY <1>13 DEF ReleaseReads
<1>14. ASSUME NEW c \in Clients, ReleaseRemoves(c) PROVE TypeOK'
  BY <1>14 DEF ReleaseRemoves
<1>15. ASSUME NEW p \in Pids, ProcessEnds(p) PROVE TypeOK'
  BY <1>15 DEF ProcessEnds
<1>16. ASSUME NEW p \in Pids, PidReused(p) PROVE TypeOK'
  BY <1>16 DEF PidReused
<1>17. CASE UNCHANGED vars
  BY <1>17 DEF vars
<1>18. QED
  BY <1>1, <1>2, <1>3, <1>4, <1>5, <1>6, <1>7, <1>8, <1>9,
     <1>10, <1>11, <1>12, <1>13, <1>14, <1>15, <1>16, <1>17 DEF Next, Step

(* Type correctness. *)
THEOREM LockTyping == Spec => []TypeOK
BY TypingInit, TypingStep, PTL DEF Spec

(* The inductive invariant holds initially. *)
LEMMA InvInit == Init => LockInv
BY TypingInit, FileAssumption
   DEF Init, LockInv, HoldersAtPath, Holding, RecoversTheDead, CapturesTheDead,
       ArtifactsAtRest, QuarantineIsOurs, QuarantineIsHeld

(* A process that has ended never runs again, so the dead stay dead. *)
LEMMA EndedStaysEnded ==
  ASSUME TypeOK, [Next]_vars, NEW p \in Pids, proc[p] # "running"
  PROVE  proc'[p] # "running"
BY DEF TypeOK, Next, Step, vars, CallWithLock, CallRecover, CreateSucceeds,
       CreateFails, Read, ProbeDead, ProbeNotDead, CaptureMisses, Capture,
       Discard, Restore, Leave, ReleaseReads, ReleaseRemoves, ProcessEnds,
       PidReused

(* Every step keeps the inductive invariant. *)
LEMMA InvStep == LockInv /\ [Next]_vars => LockInv'
<1> SUFFICES ASSUME LockInv, [Next]_vars PROVE LockInv'
  OBVIOUS
<1>t. TypeOK /\ TypeOK'
  BY TypingStep DEF LockInv
<1> USE <1>t, FileAssumption, PidAssumption
<1> USE DEF LockInv, HoldersAtPath, Holding, RecoversTheDead, CapturesTheDead,
            ArtifactsAtRest, QuarantineIsOurs, QuarantineIsHeld, Running, Mine, DeadHere, Goto, At
<1>1. ASSUME NEW c \in Clients, CallWithLock(c) PROVE LockInv'
  BY <1>1 DEF TypeOK, CallWithLock
<1>2. ASSUME NEW c \in Clients, CallRecover(c) PROVE LockInv'
  BY <1>2 DEF TypeOK, CallRecover
<1>3. ASSUME NEW c \in Clients, CreateSucceeds(c) PROVE LockInv'
  <2>1. lock = Free /\ lock' = Mine(c)' /\ lock' \in Generation
    BY <1>3 DEF TypeOK, CreateSucceeds, Generation
  <2>2. \A d \in Clients : Mine(d) \in Generation
    BY DEF TypeOK, Generation
  <2>3. HoldersAtPath'
    BY <1>3, <2>1, <2>2 DEF TypeOK, CreateSucceeds
  <2>4. ArtifactsAtRest'
    BY <2>1
  <2>5. RecoversTheDead' /\ CapturesTheDead' /\ QuarantineIsOurs' /\ QuarantineIsHeld'
    BY <1>3 DEF TypeOK, CreateSucceeds
  <2>6. QED
    BY <2>3, <2>4, <2>5
<1>4. ASSUME NEW c \in Clients, CreateFails(c) PROVE LockInv'
  BY <1>4 DEF TypeOK, CreateFails
<1>5. ASSUME NEW c \in Clients, Read(c) PROVE LockInv'
  BY <1>5 DEF TypeOK, Read
<1>6. ASSUME NEW c \in Clients, ProbeDead(c) PROVE LockInv'
  BY <1>6 DEF TypeOK, ProbeDead, ProvedDead
<1>7. ASSUME NEW c \in Clients, ProbeNotDead(c) PROVE LockInv'
  BY <1>7 DEF TypeOK, ProbeNotDead, NextAttempt
<1>8. ASSUME NEW c \in Clients, CaptureMisses(c) PROVE LockInv'
  BY <1>8 DEF TypeOK, CaptureMisses, NextAttempt
<1>9. ASSUME NEW c \in Clients, Capture(c) PROVE LockInv'
  <2>1. lock' = Free /\ lock \notin Artifacts
    BY <1>9 DEF Capture
  <2>2. HoldersAtPath'
    <3> SUFFICES ASSUME ~misfired', NEW d \in Clients,
                        Holding(d)', Running(d)'
                 PROVE  FALSE
      BY DEF HoldersAtPath
    <3>1. lock = seen[c] /\ DeadHere(c, lock) /\ ~misfired
      BY <1>9 DEF Capture
    <3>2. lock = Mine(d) /\ Running(d)
      BY <1>9, <3>1 DEF TypeOK, Capture
    <3>3. QED
      BY <3>1, <3>2
  <2>3. RecoversTheDead' /\ CapturesTheDead'
    <3>1. RecoversTheDead' BY <1>9 DEF TypeOK, Capture
    <3>2. CapturesTheDead' BY <1>9 DEF TypeOK, Capture
    <3>3. QED BY <3>1, <3>2
  <2>4. ArtifactsAtRest' /\ QuarantineIsOurs' /\ QuarantineIsHeld'
    BY <1>9, <2>1 DEF TypeOK, Capture
  <2>5. QED
    BY <2>2, <2>3, <2>4
<1>10. ASSUME NEW c \in Clients, Discard(c) PROVE LockInv'
  BY <1>10 DEF TypeOK, Discard, NextAttempt
<1>11. ASSUME NEW c \in Clients, Restore(c) PROVE LockInv'
  BY <1>11 DEF TypeOK, Restore, NextAttempt
<1>12. ASSUME NEW c \in Clients, Leave(c) PROVE LockInv'
  BY <1>12 DEF TypeOK, Leave
<1>13. ASSUME NEW c \in Clients, ReleaseReads(c) PROVE LockInv'
  BY <1>13 DEF TypeOK, ReleaseReads
<1>14. ASSUME NEW c \in Clients, ReleaseRemoves(c) PROVE LockInv'
  BY <1>14 DEF TypeOK, ReleaseRemoves
<1>15. ASSUME NEW p \in Pids, ProcessEnds(p) PROVE LockInv'
  BY <1>15 DEF TypeOK, ProcessEnds
<1>16. ASSUME NEW p \in Pids, PidReused(p) PROVE LockInv'
  BY <1>16 DEF TypeOK, PidReused
<1>17. CASE UNCHANGED vars
  BY <1>17 DEF vars
<1>18. QED
  BY <1>1, <1>2, <1>3, <1>4, <1>5, <1>6, <1>7, <1>8, <1>9,
     <1>10, <1>11, <1>12, <1>13, <1>14, <1>15, <1>16, <1>17 DEF Next, Step

(* The inductive invariant. *)
THEOREM LockInvariant == Spec => []LockInv
BY InvInit, InvStep, PTL DEF Spec

(* The lock is a mutex for any number of clients, processes and machines, as *)
(* long as no recovery captured a generation it had not proved dead.         *)
THEOREM LockExcludes == Spec => []ExclusionUnlessMisfired
<1>1. LockInv => ExclusionUnlessMisfired
  BY DEF LockInv, HoldersAtPath, ExclusionUnlessMisfired, MutualExclusion,
         InCritical, Holding, Mine
<1>2. QED
  BY LockInvariant, <1>1, PTL

(* A record is lost by the step that removes it from quarantine, or with the *)
(* recovery that holds it there.                                             *)
LEMMA LostInVerify ==
  ASSUME LockInv, [Next]_vars, NEW c \in Clients, Loses(c)
  PROVE  /\ pc[c] = "verify"
         /\ Running(c)' => Discard(c) \/ Restore(c)
<1> USE DEF LockInv, TypeOK, Loses, Running
<1>1. ASSUME NEW d \in Clients, Discard(d) \/ Restore(d)
      PROVE  d = c /\ pc[c] = "verify"
  <2>1. proc' = proc /\ \A x \in Clients : x # d => quarantine'[x] = quarantine[x]
    BY <1>1 DEF Discard, Restore
  <2>2. d = c BY <2>1
  <2>3. QED BY <1>1, <2>2 DEF Discard, Restore, At
<1>2. ASSUME NEW d \in Clients, Capture(d) PROVE FALSE
  <2>1. lock # Free /\ pc[d] = "capture" /\ Running(d) /\ proc' = proc
        /\ quarantine' = [quarantine EXCEPT ![d] = lock]
    BY <1>2 DEF Capture, At
  <2>2. QED BY <2>1
<1>3. ASSUME NEW p \in Pids, ProcessEnds(p) PROVE pc[c] = "verify" /\ ~Running(c)'
  <2>1. quarantine' = quarantine BY <1>3 DEF ProcessEnds
  <2>2. QED BY <2>1 DEF QuarantineIsHeld
<1>4. ASSUME quarantine' = quarantine, proc' = proc PROVE FALSE
  BY <1>4
<1>5. ASSUME NEW p \in Pids, PidReused(p) PROVE FALSE
  <2>1. quarantine' = quarantine /\ proc[p] = "gone" /\ proc' = [proc EXCEPT ![p] = "reused"]
    BY <1>5 DEF PidReused
  <2>2. QED BY <2>1
<1>6. QED
  BY <1>1, <1>2, <1>3, <1>4, <1>5
  DEF Next, Step, vars, CallWithLock, CallRecover, CreateSucceeds, CreateFails, Read, ProbeDead,
      ProbeNotDead, CaptureMisses, Leave, ReleaseReads, ReleaseRemoves

(* Recovery takes away for good only records of ended processes of its       *)
(* machine, or, after a misfire, one whose path a newer owner has, or the one*)
(* it died with.                                                             *)
THEOREM RecoveryLosesTheDead == Spec => RecoveryLosesOnlyTheDead
<1> DEFINE Allowed(c) == \/ DeadHere(c, quarantine[c])
                         \/ misfired /\ (lock \in Generation \/ ~Running(c)')
<1>1. ASSUME LockInv, [Next]_vars, NEW c \in Clients, Loses(c) PROVE Allowed(c)
  <2>1. pc[c] = "verify" /\ (Running(c)' => Discard(c) \/ Restore(c)) BY <1>1, LostInVerify
  <2>2. DeadHere(c, seen[c]) /\ (misfired \/ quarantine[c] = seen[c]) /\ misfired \in BOOLEAN
    BY <1>1, <2>1 DEF LockInv, RecoversTheDead, CapturesTheDead, TypeOK
  <2>3. CASE quarantine[c] = seen[c] BY <2>2, <2>3
  <2>4. CASE quarantine[c] # seen[c] /\ ~Running(c)' BY <2>2, <2>4
  <2>5. CASE quarantine[c] # seen[c] /\ Running(c)'
    <3>1. Restore(c) BY <2>1, <2>5 DEF Discard
    <3>2. lock # Free BY <1>1, <3>1 DEF Loses, Restore
    <3>3. lock \in Generation
      BY <1>1, <2>1, <3>2 DEF LockInv, TypeOK, Contents, ArtifactsAtRest
    <3>4. QED BY <2>2, <2>5, <3>3
  <2>6. QED BY <2>3, <2>4, <2>5
<1>2. LockInv /\ [Next]_vars => [\A c \in Clients : Loses(c) => Allowed(c)]_vars
  BY <1>1
<1>3. QED
  BY LockInvariant, <1>2, PTL DEF Spec, RecoveryLosesOnlyTheDead

(* A legacy or malformed file at the lock path is never touched.             *)
THEOREM ArtifactsFailClosed == Spec => ArtifactsUntouched
<1>1. LockInv /\ [Next]_vars => [(lock \in Artifacts) => (lock' = lock)]_vars
  <2> SUFFICES ASSUME LockInv, [Next]_vars, lock \in Artifacts
               PROVE  lock' = lock
    OBVIOUS
  <2>1. \A c \in Clients : pc[c] \in {"idle", "create", "read", "probe"}
    BY DEF LockInv, ArtifactsAtRest
  <2>2. lock # Free
    BY FileAssumption
  <2>3. QED
    BY <2>1, <2>2
    DEF Next, Step, vars, At, CallWithLock, CallRecover, CreateSucceeds,
        CreateFails, Read, ProbeDead, ProbeNotDead, CaptureMisses, Capture,
        Discard, Restore, Leave, ReleaseReads, ReleaseRemoves, ProcessEnds,
        PidReused
<1>2. QED
  BY LockInvariant, <1>1, PTL DEF Spec, ArtifactsUntouched
=============================================================================
