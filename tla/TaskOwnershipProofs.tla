------------------------- MODULE TaskOwnershipProofs -------------------------
(***************************************************************************)
(* SessionManager implements the task lease for any number of sessions,    *)
(* tasks and projects, with a crash or a failed write between any two      *)
(* writes, as long as no binding is written outside the lock.              *)
(***************************************************************************)
EXTENDS TaskOwnership, TLAPS

(* Ownership, said of the claim alone.                                       *)
LEMMA OwnedByClaim ==
  ASSUME TypeOK, NEW t \in Tasks
  PROVE  Owned(t) <=> /\ claim[t] \in Claim
                      /\ binding[claim[t].session] =
                           [project |-> claim[t].project, task |-> t]
BY ValueAssumption DEF TypeOK, Owned, Owns, Claim

(* Every variable starts in its type.                                        *)
LEMMA OwnTypingInit == Init => TypeOK
<1> SUFFICES ASSUME Init PROVE TypeOK
  OBVIOUS
<1>1. PICK owner \in [Legacy -> Sessions \cup {NoSession}], p \in Projects :
        /\ claim = [t \in Tasks |->
                      IF t \in Legacy /\ owner[t] # NoSession
                      THEN [session |-> owner[t], project |-> p, token |-> 0]
                      ELSE NoFile]
        /\ binding = [s \in Sessions |->
                        IF \E t \in Legacy : owner[t] = s
                        THEN [project |-> p,
                              task |-> CHOOSE t \in Legacy : owner[t] = s]
                        ELSE NoFile]
  BY DEF Init
<1>2. claim \in [Tasks -> Claim \cup {NoFile, Torn}]
  BY <1>1 DEF Claim
<1>3. \A s \in Sessions : (\E t \in Legacy : owner[t] = s)
        => (CHOOSE t \in Legacy : owner[t] = s) \in Tasks
  BY SubsetAssumption
<1>4. binding \in [Sessions -> Binding \cup {NoFile}]
  BY <1>1, <1>3 DEF Binding
<1>5. QED
  BY <1>2, <1>4 DEF Init, TypeOK, Steps

(* What entering an operation keeps.                                         *)
LEMMA EnterTyping ==
  ASSUME TypeOK, minted' \in Nat, NEW first, NEW then, NEW c,
         Fits(first, then, c), Enter(first, then, c)
  PROVE  TypeOK' /\ CallInv'
BY DEF TypeOK, Enter, Fits, CallInv

(* Each operation enters with what its writes need.                          *)
LEMMA EntriesTyping ==
  ASSUME TypeOK, CallInv,
         \/ \E s \in Sessions : \/ UnbindTask(s) \/ CloseSession(s)
                                \/ CaptureTaskOwnership(s)
                                \/ \E t \in Tasks : BindTask(s, t)
         \/ \E t \in Tasks : ForceRelease(t) \/ FindTaskOwner(t)
         \/ \E f \in fences : CommitUnder(f)
  PROVE  TypeOK' /\ CallInv'
<1> USE ValueAssumption DEF Steps, Fits
<1>1. ASSUME NEW s \in Sessions, NEW t \in Tasks, BindTask(s, t)
      PROVE  TypeOK' /\ CallInv'
  <2> DEFINE c == [session |-> s, project |-> binding[s].project,
                   task |-> t, token |-> minted + 1]
  <2>1. c \in Call /\ c \in Fence /\ minted' \in Nat
    BY <1>1 DEF BindTask, TypeOK, Call, Binding, Fence
  <2>2. CASE Enter("remove", "create", c)
    BY <2>1, <2>2, EnterTyping
  <2>3. CASE Enter("create", "idle", c)
    BY <2>1, <2>3, EnterTyping
  <2>4. QED
    BY <1>1, <2>2, <2>3 DEF BindTask, HealThen
<1>2. ASSUME NEW s \in Sessions, UnbindTask(s) PROVE TypeOK' /\ CallInv'
  <2> DEFINE c == [session |-> s, project |-> binding[s].project,
                   task |-> binding[s].task, token |-> 0]
  <2>1. c \in Call /\ c.task \in Tasks /\ minted' \in Nat
    BY <1>2 DEF UnbindTask, IsBound, TypeOK, Call, Binding
  <2>2. CASE Enter("remove", "unbind", c)
    BY <2>1, <2>2, EnterTyping
  <2>3. CASE Enter("unbind", "idle", c)
    BY <2>1, <2>3, EnterTyping
  <2>4. QED
    BY <1>2, <2>2, <2>3 DEF UnbindTask, HealThen
<1>3. ASSUME NEW s \in Sessions, CloseSession(s) PROVE TypeOK' /\ CallInv'
  <2> DEFINE c == [session |-> s, project |-> binding[s].project,
                   task |-> binding[s].task, token |-> 0]
  <2>1. c \in Call /\ minted' \in Nat /\ (c.task # NoTask => c.task \in Tasks)
    BY <1>3 DEF CloseSession, TypeOK, Call, Binding
  <2>2. CASE Enter("drop", "idle", c)
    BY <2>1, <2>2, EnterTyping
  <2>3. CASE c.task # NoTask /\ Enter("remove", "drop", c)
    BY <2>1, <2>3, EnterTyping
  <2>4. QED
    BY <1>3, <2>2, <2>3 DEF CloseSession
<1>4. ASSUME NEW t \in Tasks, ForceRelease(t) \/ FindTaskOwner(t)
      PROVE  TypeOK' /\ CallInv'
  <2> DEFINE c == [session |-> claim[t].session, project |-> claim[t].project,
                   task |-> t, token |-> 0]
  <2>1. c \in Call /\ c.task \in Tasks /\ minted' \in Nat
    BY <1>4 DEF ForceRelease, FindTaskOwner, Orphan, Readable, TypeOK, Call, Claim
  <2>2. CASE Enter("remove", "drop", c)
    BY <2>1, <2>2, EnterTyping
  <2>3. CASE Enter("remove", "idle", c)
    BY <2>1, <2>3, EnterTyping
  <2>4. QED
    BY <1>4, <2>2, <2>3 DEF ForceRelease, FindTaskOwner
<1>5. ASSUME NEW s \in Sessions, CaptureTaskOwnership(s) PROVE TypeOK' /\ CallInv'
  <2> DEFINE t == binding[s].task
             c(k) == [session |-> s, project |-> binding[s].project,
                      task |-> t, token |-> k]
  <2>1. minted' \in Nat /\ t \in Tasks /\ \A k \in Nat : c(k) \in Call
    BY <1>5 DEF CaptureTaskOwnership, IsBound, TypeOK, Call, Binding
  <2>2. ASSUME Owns(s, t), NEW k \in Nat
        PROVE  claim[t] \in Claim /\ claim[t].token \in Nat /\ c(k) \in Fence
    BY <2>1, <2>2 DEF Owns, TypeOK, Claim, Fence
  <2>3. CASE Owns(s, t) /\ Enter("fence", "idle", c(claim[t].token))
    <3> DEFINE k == claim[t].token
    <3>1. k \in Nat
      BY <2>2, <2>3
    <3>2. c(k) \in Fence /\ c(k) \in Call
      BY <2>1, <2>2, <2>3, <3>1
    <3>3. Fits("fence", "idle", c(k))
      BY <3>2
    <3>4. QED
      BY <2>1, <2>3, <3>3, EnterTyping
  <2>4. CASE /\ Owns(s, t) /\ Enter("upgrade", "idle", c(minted + 1))
    <3> DEFINE k == minted + 1
    <3>1. k \in Nat
      BY DEF TypeOK
    <3>2. c(k) \in Fence /\ c(k) \in Call /\ claim[t] \in Claim
      BY <2>1, <2>2, <2>4, <3>1
    <3>3. Fits("upgrade", "idle", c(k))
      BY <3>2
    <3>4. QED
      BY <2>1, <2>4, <3>3, EnterTyping
  <2>5. CASE Enter("remove", "idle", c(0))
    <3>1. c(0) \in Call /\ c(0).task \in Tasks
      BY <2>1
    <3>2. QED
      BY <2>1, <2>5, <3>1, EnterTyping
  <2>6. QED
    BY <1>5, <2>3, <2>4, <2>5 DEF CaptureTaskOwnership
<1>6. ASSUME NEW f \in fences, CommitUnder(f) PROVE TypeOK' /\ CallInv'
  <2>1. f \in Call /\ f \in Fence /\ minted' \in Nat
    BY <1>6 DEF CommitUnder, TypeOK, Fence, Call
  <2>2. QED
    BY <1>6, <2>1, EnterTyping DEF CommitUnder
<1>7. QED
  BY <1>1, <1>2, <1>3, <1>4, <1>5, <1>6

(* Each write of an operation keeps the types and what the next one needs.   *)
LEMMA WritesTyping ==
  ASSUME TypeOK, CallInv, Perform \/ Abandon
  PROVE  TypeOK' /\ CallInv'
<1> USE ValueAssumption DEF CallInv, Fits, Steps, Finish, SetClaim, SetBinding, files, history
<1>1. CASE CreateClaim
  BY <1>1 DEF CreateClaim, TypeOK
<1>2. CASE FillClaim
  BY <1>2 DEF FillClaim, TypeOK, Fence, Claim
<1>3. CASE WriteBinding
  BY <1>3 DEF WriteBinding, TypeOK, Fence, Binding
<1>4. CASE WriteBindingFails
  BY <1>4 DEF WriteBindingFails, TypeOK, Fence, Call
<1>5. CASE RemoveClaim
  <2>1. TypeOK'
    BY <1>5 DEF RemoveClaim, TypeOK, Call
  <2>2. CASE after = "idle"
    BY <1>5, <2>1, <2>2 DEF RemoveClaim
  <2>3. CASE after # "idle"
    BY <1>5, <2>1, <2>3 DEF RemoveClaim
  <2>4. QED
    BY <2>1, <2>2, <2>3
<1>6. CASE ReleaseBinding
  BY <1>6 DEF ReleaseBinding, TypeOK, Call, Binding
<1>7. CASE DropBinding
  BY <1>7 DEF DropBinding, TypeOK, Call
<1>8. CASE UpgradeClaim
  <2>1. claim' \in [Tasks -> Claim \cup {NoFile, Torn}]
    BY <1>8 DEF UpgradeClaim, TypeOK, Claim, Fence
  <2>2. QED
    BY <1>8, <2>1 DEF UpgradeClaim, TypeOK, Fence
<1>9. CASE ReturnFence
  BY <1>9 DEF ReturnFence, TypeOK
<1>10. CASE CommitLands
  BY <1>10 DEF CommitLands, TypeOK, Fence
<1>11. CASE Abandon
  BY <1>11 DEF Abandon, TypeOK
<1>12. QED
  BY <1>1, <1>2, <1>3, <1>4, <1>5, <1>6, <1>7, <1>8, <1>9, <1>10, <1>11
     DEF Perform

(* Every step keeps the types and what the pending write needs.              *)
LEMMA OwnTypingStep == TypeOK /\ CallInv /\ [Next]_vars => TypeOK' /\ CallInv'
<1> SUFFICES ASSUME TypeOK, CallInv, [Next]_vars PROVE TypeOK' /\ CallInv'
  OBVIOUS
<1>1. ASSUME NEW s \in Sessions, OpenSession(s) PROVE TypeOK' /\ CallInv'
  BY <1>1 DEF OpenSession, TypeOK, Binding, CallInv, Fits, history
<1>2. ASSUME NEW s \in Sessions, StrayReads(s) PROVE TypeOK' /\ CallInv'
  BY <1>2 DEF StrayReads, TypeOK, Stray, CallInv, Fits, files, history
<1>3. ASSUME NEW w \in strays, StrayWrites(w) PROVE TypeOK' /\ CallInv'
  BY <1>3 DEF StrayWrites, TypeOK, Stray, Binding, CallInv, Fits, files
<1>4. CASE UNCHANGED vars
  BY <1>4 DEF vars, TypeOK, CallInv, Fits
<1>5. QED
  BY <1>1, <1>2, <1>3, <1>4, EntriesTyping, WritesTyping DEF Next

(* Type correctness, unlocked calls included.                                *)
THEOREM OwnTyping == Spec => []TypeOK
<1>1. Init => TypeOK /\ CallInv
  BY OwnTypingInit DEF Init, CallInv
<1>2. QED
  BY <1>1, OwnTypingStep, PTL DEF Spec

(* Ownership, said of the claim alone, in the next state.                    *)
LEMMA OwnedByClaimNext ==
  ASSUME TypeOK', NEW t \in Tasks
  PROVE  Owned(t)' <=> /\ claim'[t] \in Claim
                       /\ binding'[claim'[t].session] =
                            [project |-> claim'[t].project, task |-> t]
BY ValueAssumption DEF TypeOK, Owned, Owns, Claim

(* The inductive invariant holds initially.                                  *)
LEMMA OwnInvInit == Init => OwnInv
<1> SUFFICES ASSUME Init PROVE OwnInv
  OBVIOUS
<1>1. TypeOK /\ CallInv
  BY OwnTypingInit DEF Init, CallInv
<1>2. \A t \in Tasks : claim[t] \in Claim => claim[t].token = 0
  BY ValueAssumption DEF Init
<1>3. TokenInv
  <2>1. minted = 0 /\ fences = {} /\ \A t \in Tasks : term[t] = 0
    BY DEF Init
  <2>2. \A t \in Tasks : Owned(t) => claim[t].token = 0
    BY <1>1, <1>2, OwnedByClaim
  <2>3. QED
    BY <1>2, <2>1, <2>2 DEF TokenInv
<1>4. PhaseInv
  BY DEF Init, PhaseInv, Granting
<1>5. QED
  BY <1>1, <1>3, <1>4 DEF OwnInv, Init

(* Tokens stay in order when an operation enters: no file changes.           *)
LEMMA EnterTokens ==
  ASSUME TypeOK, TokenInv, NEW first, NEW then, NEW c, Enter(first, then, c),
         minted' \in Nat, minted <= minted'
  PROVE  TokenInv'
<1>1. \A t \in Tasks : claim[t] \in Claim => claim[t].token \in Nat
  BY DEF Claim
<1>2. \A t \in Tasks : Owned(t)' <=> Owned(t)
  BY DEF Enter, Owned, Owns
<1>3. QED
  BY <1>1, <1>2 DEF TypeOK, TokenInv, Enter

(* Each operation enters knowing what its writes rely on.                    *)
LEMMA EntriesInv ==
  ASSUME OwnInv, TypeOK', CallInv',
         \/ \E s \in Sessions : \/ UnbindTask(s) \/ CloseSession(s)
                                \/ CaptureTaskOwnership(s)
                                \/ \E t \in Tasks : BindTask(s, t)
         \/ \E t \in Tasks : ForceRelease(t) \/ FindTaskOwner(t)
         \/ \E f \in fences : CommitUnder(f)
  PROVE  OwnInv'
<1> USE DEF OwnInv
<1>1. ASSUME NEW s \in Sessions, NEW t \in Tasks, BindTask(s, t) PROVE OwnInv'
  <2> DEFINE c == [session |-> s, project |-> binding[s].project,
                   task |-> t, token |-> minted + 1]
  <2>1. minted' = minted + 1 /\ minted \in Nat /\ ~IsBound(s) /\ term[t] <= minted
    BY <1>1 DEF BindTask, TypeOK, TokenInv
  <2>2. term[t] < minted + 1
    BY <2>1 DEF TypeOK
  <2>3. CASE Enter("remove", "create", c)
    <3>1. TokenInv'
      BY <2>1, <2>3, EnterTokens
    <3>2. PhaseInv'
      BY <2>1, <2>2, <2>3 DEF Enter, PhaseInv, Granting, IsBound
    <3>3. QED
      BY <2>3, <3>1, <3>2 DEF Enter
  <2>4. CASE ~Orphan(t) /\ Enter("create", "idle", c)
    <3>1. TokenInv'
      BY <2>1, <2>4, EnterTokens
    <3>2. claim[t] = NoFile
      BY <1>1, <2>4 DEF BindTask, Orphan, Readable
    <3>3. PhaseInv'
      BY <2>1, <2>2, <2>4, <3>2 DEF Enter, PhaseInv, Granting, IsBound
    <3>4. QED
      BY <2>4, <3>1, <3>3 DEF Enter
  <2>5. QED
    BY <1>1, <2>3, <2>4 DEF BindTask, HealThen
<1>2. ASSUME minted' = minted, NEW first \in {"remove", "unbind", "drop"},
             NEW then \in {"idle", "unbind", "drop"}, NEW c, Enter(first, then, c)
      PROVE  OwnInv'
  <2>1. TokenInv'
    BY <1>2, EnterTokens DEF TypeOK
  <2>2. PhaseInv'
    BY <1>2 DEF Enter, PhaseInv, Granting
  <2>3. QED
    BY <1>2, <2>1, <2>2 DEF Enter
<1>3. ASSUME NEW s \in Sessions, UnbindTask(s) \/ CloseSession(s) PROVE OwnInv'
  BY <1>2, <1>3 DEF UnbindTask, CloseSession, HealThen
<1>4. ASSUME NEW t \in Tasks, ForceRelease(t) \/ FindTaskOwner(t) PROVE OwnInv'
  BY <1>2, <1>4 DEF ForceRelease, FindTaskOwner
<1>5. ASSUME NEW s \in Sessions, CaptureTaskOwnership(s) PROVE OwnInv'
  <2> DEFINE t == binding[s].task
             c(k) == [session |-> s, project |-> binding[s].project,
                      task |-> t, token |-> k]
  <2>1. CASE /\ claim[t].token > 0 /\ minted' = minted
             /\ Enter("fence", "idle", c(claim[t].token))
    <3>1. TokenInv'
      BY <2>1, EnterTokens DEF TypeOK
    <3>2. PhaseInv'
      BY <2>1 DEF Enter, PhaseInv, Granting
    <3>3. QED
      BY <2>1, <3>1, <3>2 DEF Enter
  <2>2. CASE /\ Owns(s, t) /\ claim[t].token = 0 /\ minted' = minted + 1
             /\ Enter("upgrade", "idle", c(minted + 1))
    <3>1. TokenInv'
      BY <2>2, EnterTokens DEF TypeOK
    <3>2. PhaseInv'
      BY <2>2 DEF Enter, PhaseInv, Granting, Owns, TypeOK
    <3>3. QED
      BY <2>2, <3>1, <3>2 DEF Enter
  <2>3. CASE minted' = minted /\ Enter("remove", "idle", c(0))
    BY <1>2, <2>3
  <2>4. QED
    BY <1>5, <2>1, <2>2, <2>3 DEF CaptureTaskOwnership
<1>6. ASSUME NEW f \in fences, CommitUnder(f) PROVE OwnInv'
  <2>1. TokenInv'
    BY <1>6, EnterTokens DEF CommitUnder, TypeOK
  <2>2. 0 < f.token
    BY DEF TokenInv
  <2>3. PhaseInv'
    BY <1>6, <2>2 DEF CommitUnder, Current, Enter, PhaseInv, Granting, Owns
  <2>4. QED
    BY <1>6, <2>1, <2>3 DEF CommitUnder, Enter
<1>7. QED
  BY <1>1, <1>3, <1>4, <1>5, <1>6

(* Ownership read off given files, as OwnedByClaim has it.                   *)
Agree(c, b, t) ==
  c[t] \in Claim /\ b[c[t].session] = [project |-> c[t].project, task |-> t]

LEMMA OwnedAgree ==
  ASSUME TypeOK, TypeOK'
  PROVE  \A t \in Tasks : /\ Owned(t) <=> Agree(claim, binding, t)
                          /\ Owned(t)' <=> Agree(claim', binding', t)
BY OwnedByClaim, OwnedByClaimNext DEF Agree

(* What each write does to ownership.                                        *)
LEMMA OwnershipKept ==
  ASSUME OwnInv, TypeOK',
         \/ CreateClaim \/ FillClaim \/ UpgradeClaim
         \/ \E s \in Sessions : OpenSession(s)
  PROVE  \A t \in Tasks : /\ Owned(t)' <=> Owned(t)
                          /\ Owned(t) => claim'[t].session = claim[t].session
<1> DEFINE Same(t) == /\ Agree(claim', binding', t) <=> Agree(claim, binding, t)
                      /\ Agree(claim, binding, t)
                           => claim'[t].session = claim[t].session
<1>1. ASSUME NEW t \in Tasks, CreateClaim PROVE Same(t)
  <2>1. binding' = binding /\ (t # call.task => claim'[t] = claim[t])
    BY <1>1 DEF OwnInv, CreateClaim, SetClaim, TypeOK
  <2>2. t = call.task => claim[t] = NoFile /\ claim'[t] = Torn
    BY <1>1 DEF OwnInv, CreateClaim, SetClaim, TypeOK, PhaseInv
  <2>3. NoFile \notin Claim /\ Torn \notin Claim
    BY ValueAssumption
  <2>4. QED
    BY <2>1, <2>2, <2>3 DEF Agree
<1>2. ASSUME NEW t \in Tasks, FillClaim PROVE Same(t)
  <2>1. /\ call \in Fence /\ claim[call.task] = Torn /\ ~IsBound(call.session)
        /\ call.session \in Sessions /\ call.task \in Tasks
    BY <1>2 DEF OwnInv, FillClaim, PhaseInv, Granting, CallInv, Fits, Fence
  <2>2. binding[call.session] # [project |-> call.project, task |-> call.task]
    BY <2>1, ValueAssumption DEF IsBound, Fence, Binding
  <2>3. binding' = binding /\ (t # call.task => claim'[t] = claim[t])
    BY <1>2 DEF OwnInv, FillClaim, SetClaim, TypeOK
  <2>4. t = call.task => claim'[t] = [session |-> call.session,
                                     project |-> call.project,
                                     token |-> call.token]
    BY <1>2 DEF OwnInv, FillClaim, SetClaim, TypeOK
  <2>5. Torn \notin Claim
    BY ValueAssumption
  <2>6. CASE t # call.task
    BY <2>3, <2>6 DEF Agree
  <2>7. CASE t = call.task
    BY <2>1, <2>2, <2>3, <2>4, <2>5, <2>7 DEF Agree
  <2>8. QED
    BY <2>6, <2>7
<1>3. ASSUME NEW t \in Tasks, UpgradeClaim PROVE Same(t)
  <2>1. claim[call.task] \in Claim /\ call \in Fence
    BY <1>3 DEF OwnInv, UpgradeClaim, CallInv, Fits
  <2>2. binding' = binding /\ (t # call.task => claim'[t] = claim[t])
    BY <1>3 DEF OwnInv, UpgradeClaim, TypeOK
  <2>3. t = call.task => claim'[t] = [claim[t] EXCEPT !.token = call.token]
    BY <1>3 DEF OwnInv, UpgradeClaim, TypeOK
  <2>4. t = call.task => /\ claim'[t].session = claim[t].session
                         /\ claim'[t].project = claim[t].project
                         /\ claim'[t] \in Claim
    BY <2>1, <2>3 DEF Claim, Fence
  <2>5. CASE t # call.task
    BY <2>2, <2>5 DEF Agree
  <2>6. CASE t = call.task
    BY <2>1, <2>2, <2>4, <2>6 DEF Agree
  <2>7. QED
    BY <2>5, <2>6
<1>4. ASSUME NEW t \in Tasks, NEW s \in Sessions, OpenSession(s) PROVE Same(t)
  <2>1. \A q \in Projects : /\ binding[s] # [project |-> q, task |-> t]
                            /\ binding'[s] # [project |-> q, task |-> t]
    BY <1>4, ValueAssumption DEF OwnInv, OpenSession, TypeOK, Binding
  <2>2. claim' = claim /\ \A r \in Sessions : r # s => binding'[r] = binding[r]
    BY <1>4 DEF OwnInv, OpenSession, TypeOK
  <2>3. QED
    BY <2>1, <2>2 DEF Agree, Claim
<1>5. \A t \in Tasks : Same(t)
  BY <1>1, <1>2, <1>3, <1>4
<1>6. QED
  BY <1>5, OwnedAgree DEF OwnInv

LEMMA OwnershipGranted ==
  ASSUME OwnInv, TypeOK', WriteBinding
  PROVE  /\ ~Owned(call.task)
         /\ \A t \in Tasks : Owned(t)' <=> Owned(t) \/ t = call.task
<1>1. /\ call \in Fence /\ ~IsBound(call.session)
      /\ claim[call.task] = [session |-> call.session, project |-> call.project,
                             token |-> call.token]
  BY DEF OwnInv, WriteBinding, PhaseInv, Granting, CallInv, Fits
<1>2. \A t \in Tasks, q \in Projects :
        binding[call.session] # [project |-> q, task |-> t]
  <2>1. binding[call.session] = NoFile \/ binding[call.session].task = NoTask
    BY <1>1 DEF IsBound
  <2>2. \A t \in Tasks, q \in Projects :
          [project |-> q, task |-> t] \in Binding /\ [project |-> q, task |-> t].task # NoTask
    BY ValueAssumption DEF Binding
  <2>3. QED
    BY <2>1, <2>2, ValueAssumption
<1>3. /\ claim' = claim /\ call.task \in Tasks
      /\ binding'[call.session] = [project |-> call.project, task |-> call.task]
      /\ \A r \in Sessions : r # call.session => binding'[r] = binding[r]
  BY <1>1 DEF OwnInv, WriteBinding, SetBinding, TypeOK, Fence
<1>4. claim[call.task] \in Claim /\ call.project \in Projects
  BY <1>1 DEF Fence, Claim
<1>5. ~Agree(claim, binding, call.task)
  BY <1>1, <1>2, <1>3, <1>4 DEF Agree
<1>6. ASSUME NEW t \in Tasks
      PROVE  Agree(claim', binding', t) <=> Agree(claim, binding, t) \/ t = call.task
  <2>1. CASE t = call.task
    BY <1>1, <1>3, <1>4, <2>1 DEF Agree
  <2>2. CASE t # call.task
    BY <1>2, <1>3, <2>2 DEF Agree, Claim
  <2>3. QED
    BY <2>1, <2>2
<1>7. QED
  BY <1>3, <1>5, <1>6, OwnedAgree DEF OwnInv

LEMMA OwnershipRemoved ==
  ASSUME OwnInv, TypeOK', RemoveClaim
  PROVE  /\ call.task \in Tasks
         /\ \A t \in Tasks : Owned(t)' <=> Owned(t) /\ t # call.task
<1>1. call.task \in Tasks
  BY DEF OwnInv, RemoveClaim, CallInv, Fits
<1>2. /\ binding' = binding /\ claim'[call.task] = NoFile
      /\ \A t \in Tasks : t # call.task => claim'[t] = claim[t]
  BY <1>1 DEF OwnInv, RemoveClaim, SetClaim, TypeOK
<1>3. NoFile \notin Claim
  BY ValueAssumption
<1>4. \A t \in Tasks : Agree(claim', binding', t)
                        <=> Agree(claim, binding, t) /\ t # call.task
  BY <1>2, <1>3 DEF Agree
<1>5. QED
  BY <1>1, <1>4, OwnedAgree DEF OwnInv

LEMMA OwnershipReleased ==
  ASSUME OwnInv, TypeOK', ReleaseBinding \/ DropBinding
  PROVE  /\ call.session \in Sessions
         /\ \A t \in Tasks :
              Owned(t)' <=> Owned(t) /\ claim[t].session # call.session
<1>1. call.session \in Sessions
  BY DEF OwnInv, ReleaseBinding, DropBinding, CallInv, Fits, Call
<1>2. /\ claim' = claim
      /\ \A r \in Sessions : r # call.session => binding'[r] = binding[r]
      /\ \A t \in Tasks, q \in Projects :
           binding'[call.session] # [project |-> q, task |-> t]
  <2>1. CASE ReleaseBinding
    BY <1>1, <2>1, ValueAssumption DEF OwnInv, ReleaseBinding, SetBinding, TypeOK
  <2>2. CASE DropBinding
    <3>1. \A t \in Tasks, q \in Projects : [project |-> q, task |-> t] \in Binding
      BY DEF Binding
    <3>2. QED
      BY <1>1, <2>2, <3>1, ValueAssumption
         DEF OwnInv, DropBinding, SetBinding, TypeOK
  <2>3. QED
    BY <2>1, <2>2
<1>3. \A t \in Tasks : Agree(claim', binding', t)
                        <=> Agree(claim, binding, t) /\ claim[t].session # call.session
  BY <1>1, <1>2 DEF Agree, Claim
<1>4. QED
  BY <1>1, <1>3, OwnedAgree DEF OwnInv

(* Each write keeps the inductive invariant.                                 *)
LEMMA WritesInv ==
  ASSUME OwnInv, TypeOK', CallInv', Perform \/ Abandon
  PROVE  OwnInv'
<1> USE DEF OwnInv
<1>1. CASE CreateClaim
  <2>1. /\ call.task \in Tasks /\ claim'[call.task] = Torn
        /\ \A t \in Tasks : t # call.task => claim'[t] = claim[t]
    BY <1>1 DEF CreateClaim, SetClaim, CallInv, Fits, TypeOK, Fence
  <2>2. TokenInv'
    <3>1. \A t \in Tasks : Owned(t)' => Owned(t) /\ t # call.task
      BY <1>1, <2>1, OwnershipKept, OwnedAgree, ValueAssumption DEF Agree
    <3>2. QED
      BY <1>1, <2>1, <3>1, ValueAssumption DEF CreateClaim, TokenInv, history
  <2>3. PhaseInv'
    BY <1>1, <2>1 DEF CreateClaim, PhaseInv, Granting, IsBound, history
  <2>4. QED
    BY <1>1, <2>2, <2>3 DEF CreateClaim
<1>2. CASE FillClaim
  <2>1. /\ call \in Fence /\ call.task \in Tasks
        /\ claim'[call.task] = [session |-> call.session, project |-> call.project,
                                token |-> call.token]
        /\ \A t \in Tasks : t # call.task => claim'[t] = claim[t]
    BY <1>2 DEF FillClaim, SetClaim, CallInv, Fits, TypeOK, Fence
  <2>2. TokenInv'
    <3>1. ~Owned(call.task)
      BY <1>2, <2>1, ValueAssumption, OwnedByClaim DEF FillClaim, PhaseInv
    <3>2. \A t \in Tasks : Owned(t)' => Owned(t) /\ t # call.task
      BY <1>2, <3>1, OwnershipKept
    <3>3. call.token <= minted
      BY <1>2 DEF FillClaim, PhaseInv, Granting
    <3>4. QED
      BY <1>2, <2>1, <3>2, <3>3 DEF FillClaim, TokenInv, history
  <2>3. PhaseInv'
    BY <1>2, <2>1 DEF FillClaim, PhaseInv, Granting, IsBound, history
  <2>4. QED
    BY <1>2, <2>2, <2>3 DEF FillClaim
<1>3. CASE WriteBinding
  <2>1. /\ call \in Fence /\ call.task \in Tasks /\ call.token <= minted
        /\ claim[call.task].token = call.token
    BY <1>3 DEF WriteBinding, CallInv, Fits, Fence, PhaseInv, Granting
  <2>2. TokenInv'
    BY <1>3, <2>1, OwnershipGranted DEF WriteBinding, TokenInv, TypeOK
  <2>3. PhaseInv'
    BY <1>3 DEF WriteBinding, Finish, PhaseInv, Granting
  <2>4. QED
    BY <1>3, <2>2, <2>3 DEF WriteBinding
<1>4. CASE RemoveClaim
  <2>1. /\ call.task \in Tasks /\ claim'[call.task] = NoFile
        /\ \A t \in Tasks : t # call.task => claim'[t] = claim[t]
    BY <1>4 DEF RemoveClaim, SetClaim, CallInv, Fits, TypeOK
  <2>2. TokenInv'
    BY <1>4, <2>1, OwnershipRemoved, ValueAssumption DEF RemoveClaim, TokenInv, history
  <2>3. PhaseInv'
    <3>1. CASE after = "idle"
      BY <1>4, <3>1 DEF RemoveClaim, Finish, PhaseInv, Granting
    <3>2. CASE after # "idle"
      BY <1>4, <2>1, <3>2
         DEF RemoveClaim, PhaseInv, Granting, CallInv, Fits, IsBound, history
    <3>3. QED
      BY <3>1, <3>2
  <2>4. QED
    BY <1>4, <2>2, <2>3 DEF RemoveClaim
<1>5. CASE ReleaseBinding \/ DropBinding
  <2>1. TokenInv'
    BY <1>5, OwnershipReleased DEF ReleaseBinding, DropBinding, TokenInv, history
  <2>2. PhaseInv'
    BY <1>5 DEF ReleaseBinding, DropBinding, Finish, PhaseInv, Granting, CallInv, Fits
  <2>3. QED
    BY <1>5, <2>1, <2>2 DEF ReleaseBinding, DropBinding
<1>6. CASE UpgradeClaim
  <2>1. /\ call \in Fence /\ call.task \in Tasks /\ call.token <= minted
        /\ 0 < call.token
        /\ claim'[call.task].token = call.token
        /\ \A t \in Tasks : t # call.task => claim'[t] = claim[t]
    BY <1>6 DEF UpgradeClaim, CallInv, Fits, Fence, PhaseInv, TypeOK, Claim
  <2>2. TokenInv'
    BY <1>6, <2>1, OwnershipKept DEF UpgradeClaim, TokenInv, TypeOK
  <2>3. PhaseInv'
    BY <1>6, <2>1 DEF UpgradeClaim, PhaseInv, Granting
  <2>4. QED
    BY <1>6, <2>2, <2>3 DEF UpgradeClaim
<1>7. CASE WriteBindingFails \/ ReturnFence \/ CommitLands \/ Abandon
  <2>1. /\ UNCHANGED <<claim, binding, minted, term>> /\ strays' = strays
        /\ fences' \subseteq fences \cup {call} /\ (fences' # fences => 0 < call.token)
    BY <1>7 DEF WriteBindingFails, ReturnFence, CommitLands, Abandon, PhaseInv,
                files, history
  <2>2. \A t \in Tasks : Owned(t)' <=> Owned(t)
    BY <2>1 DEF Owned, Owns
  <2>3. TokenInv'
    BY <2>1, <2>2 DEF TokenInv
  <2>4. PhaseInv'
    BY <1>7 DEF WriteBindingFails, ReturnFence, CommitLands, Abandon, Finish,
                PhaseInv, Granting
  <2>5. QED
    BY <2>1, <2>3, <2>4
<1>8. QED
  BY <1>1, <1>2, <1>3, <1>4, <1>5, <1>6, <1>7 DEF Perform

(* Every step keeps the inductive invariant when no unlocked call is made.   *)
LEMMA OwnInvStep ==
  ASSUME Unlocked = {}
  PROVE  OwnInv /\ [Next]_vars => OwnInv'
<1> SUFFICES ASSUME OwnInv, [Next]_vars PROVE OwnInv'
  OBVIOUS
<1>1. TypeOK' /\ CallInv'
  BY OwnTypingStep DEF OwnInv
<1>2. ASSUME NEW s \in Sessions, OpenSession(s) PROVE OwnInv'
  <2>1. TokenInv'
    BY <1>1, <1>2, OwnershipKept DEF OwnInv, OpenSession, TokenInv, history
  <2>2. \A r \in Sessions : IsBound(r)' <=> IsBound(r)
    BY <1>1, <1>2, ValueAssumption DEF OwnInv, OpenSession, IsBound, TypeOK
  <2>3. \A r \in Sessions, t \in Tasks : Owns(r, t) => Owns(r, t)'
    <3>1. /\ claim' = claim /\ binding[s] = NoFile
          /\ \A r \in Sessions : r # s => binding'[r] = binding[r]
      BY <1>2 DEF OwnInv, OpenSession, TypeOK
    <3>2. ASSUME NEW t \in Tasks, Owns(s, t) PROVE FALSE
      <4>1. claim[t].project \in Projects
        BY <3>2 DEF OwnInv, Owns, TypeOK, Claim
      <4>2. [project |-> claim[t].project, task |-> t] \in Binding
        BY <4>1 DEF Binding
      <4>3. QED
        BY <3>1, <3>2, <4>2, ValueAssumption DEF Owns
    <3>3. QED
      BY <3>1, <3>2 DEF Owns
  <2>4. PhaseInv'
    BY <1>2, <2>2, <2>3
       DEF OwnInv, OpenSession, PhaseInv, Granting, CallInv, Fits, Fence, history
  <2>5. QED
    BY <1>1, <1>2, <2>1, <2>4 DEF OwnInv, OpenSession
<1>3. ASSUME NEW s \in Sessions, StrayReads(s) PROVE OwnInv'
  BY <1>3 DEF StrayReads
<1>4. ASSUME NEW w \in strays, StrayWrites(w) PROVE OwnInv'
  BY <1>4 DEF OwnInv
<1>5. CASE UNCHANGED vars
  BY <1>5 DEF vars, OwnInv, TypeOK, CallInv, Fits, PhaseInv, Granting, TokenInv,
              IsBound, Owned, Owns
<1>6. QED
  BY <1>1, <1>2, <1>3, <1>4, <1>5, EntriesInv, WritesInv DEF Next

(* The holder the refinement shows.                                          *)
LEMMA HolderFacts ==
  ASSUME TypeOK, NEW t \in Tasks
  PROVE  /\ Owned(t) => Holder(t) = claim[t].session /\ Holder(t) \in Sessions
         /\ ~Owned(t) => Holder(t) = NoSession
         /\ Holder(t) # NoSession <=> Owned(t)
<1>1. Owned(t) => claim[t] \in Claim
  BY OwnedByClaim
<1>2. QED
  BY <1>1, ValueAssumption DEF Holder, Claim

(* Steps that do not change who owns what are invisible to the lease.        *)
LEMMA LeaseStutters ==
  ASSUME TypeOK, UNCHANGED <<term, landed>>,
         \A t \in Tasks : /\ Owned(t)' <=> Owned(t)
                          /\ Owned(t) => claim'[t].session = claim[t].session
  PROVE  UNCHANGED Lease!leaseVars
<1>1. \A t \in Tasks : Holder(t)' = Holder(t)
  BY DEF Holder
<1>2. QED
  BY <1>1 DEF Lease!leaseVars

LEMMA LeaseInitially == Init => Lease!LeaseInit
<1> SUFFICES ASSUME Init PROVE Lease!LeaseInit
  OBVIOUS
<1>1. TypeOK
  BY OwnTypingInit
<1>2. \A t \in Tasks : Holder(t) \in Sessions \cup {NoSession}
  BY <1>1, HolderFacts
<1>3. QED
  BY <1>2 DEF Init, Lease!LeaseInit

(* Writing the binding is the instant a task is granted.                     *)
LEMMA BindingGrants ==
  ASSUME OwnInv, TypeOK', WriteBinding
  PROVE  Lease!LeaseNext
<1> DEFINE g == call.task
<1>1. /\ g \in Tasks /\ call.session \in Sessions /\ call.token \in Nat
      /\ term[g] < call.token /\ claim[g].session = call.session
      /\ claim' = claim
  BY DEF OwnInv, WriteBinding, CallInv, Fits, Fence, PhaseInv, Granting
<1>2. Holder(g) = NoSession
  BY <1>1, OwnershipGranted, HolderFacts DEF OwnInv
<1>3. \A t \in Tasks : Holder(t)' = IF t = g THEN call.session ELSE Holder(t)
  BY <1>1, OwnershipGranted DEF Holder
<1>4. [t \in Tasks |-> Holder(t)]'
        = [[t \in Tasks |-> Holder(t)] EXCEPT ![g] = call.session]
  BY <1>1, <1>3
<1>5. /\ term' = [term EXCEPT ![g] = call.token] /\ term'[g] = call.token
      /\ landed' = landed
  BY <1>1 DEF OwnInv, WriteBinding, TypeOK
<1>6. Lease!Grant(g)
  BY <1>1, <1>2, <1>4, <1>5 DEF Lease!Grant, Lease!NewTerm
<1>7. QED
  BY <1>1, <1>6 DEF Lease!LeaseNext

(* A legacy claim is given its first token.                                  *)
LEMMA UpgradeGivesTerm ==
  ASSUME OwnInv, TypeOK', UpgradeClaim
  PROVE  Lease!LeaseNext
<1> DEFINE g == call.task
<1>1. /\ g \in Tasks /\ call.session \in Sessions /\ call.token \in Nat
      /\ 0 < call.token /\ Owned(g) /\ claim[g].token = 0
  BY DEF OwnInv, UpgradeClaim, CallInv, Fits, Fence, PhaseInv, Owned
<1>2. term[g] = 0 /\ Holder(g) # NoSession
  BY <1>1, HolderFacts DEF OwnInv, TokenInv
<1>3. \A t \in Tasks : Holder(t)' = Holder(t)
  BY OwnershipKept DEF Holder
<1>4. /\ term' = [term EXCEPT ![g] = call.token] /\ term'[g] = call.token
      /\ landed' = landed
  BY <1>1 DEF OwnInv, UpgradeClaim, TypeOK
<1>5. Lease!Upgrade(g)
  BY <1>1, <1>2, <1>3, <1>4 DEF Lease!Upgrade, Lease!NewTerm
<1>6. QED
  BY <1>1, <1>5 DEF Lease!LeaseNext

(* Work lands under the current term, while its holder still owns the task.  *)
LEMMA CommitUnderTerm ==
  ASSUME OwnInv, TypeOK', CommitLands
  PROVE  Lease!LeaseNext
<1> DEFINE g == call.task
<1>1. /\ g \in Tasks /\ call.session \in Sessions /\ Owned(g) /\ 0 < call.token
      /\ claim[g].token = call.token
  BY DEF OwnInv, CommitLands, CallInv, Fits, Fence, PhaseInv, Owned
<1>2. term[g] = call.token /\ Holder(g) # NoSession
  BY <1>1, HolderFacts DEF OwnInv, TokenInv
<1>3. \A t \in Tasks : Holder(t)' = Holder(t)
  BY DEF CommitLands, files, Holder, Owned, Owns
<1>4. Lease!Commit(g)
  BY <1>1, <1>2, <1>3 DEF CommitLands, Lease!Commit
<1>5. QED
  BY <1>1, <1>4 DEF Lease!LeaseNext

(* A write that ends the ownership of one task at most is its revocation.    *)
LEMMA WriteRevokes ==
  ASSUME TypeOK, UNCHANGED <<term, landed>>, NEW g \in Tasks,
         \A t \in Tasks : /\ Owned(t)' <=> Owned(t) /\ t # g
                          /\ t # g => claim'[t] = claim[t]
  PROVE  [Lease!LeaseNext]_(Lease!leaseVars)
<1>1. \A t \in Tasks : Holder(t)' = IF t = g THEN NoSession ELSE Holder(t)
  BY DEF Holder
<1>2. CASE Owned(g)
  <2>1. Lease!Revoke(g)
    BY <1>1, <1>2, HolderFacts DEF Lease!Revoke
  <2>2. QED
    BY <2>1 DEF Lease!LeaseNext
<1>3. CASE ~Owned(g)
  <2>1. \A t \in Tasks : Holder(t)' = Holder(t)
    BY <1>1, <1>3, HolderFacts
  <2>2. QED
    BY <2>1 DEF Lease!leaseVars
<1>4. QED
  BY <1>2, <1>3

(* Every step of the session manager is a step of the lease or invisible.    *)
LEMMA LeaseStep ==
  ASSUME Unlocked = {}
  PROVE  OwnInv /\ [Next]_vars => [Lease!LeaseNext]_(Lease!leaseVars)
<1> SUFFICES ASSUME OwnInv, [Next]_vars PROVE [Lease!LeaseNext]_(Lease!leaseVars)
  OBVIOUS
<1>1. TypeOK /\ TypeOK'
  BY OwnTypingStep DEF OwnInv
<1>2. CASE UNCHANGED <<claim, binding, term, landed>>
  BY <1>1, <1>2, LeaseStutters DEF Owned, Owns
<1>3. CASE CreateClaim \/ FillClaim \/ \E s \in Sessions : OpenSession(s)
  <2>1. UNCHANGED <<term, landed>>
    BY <1>3 DEF CreateClaim, FillClaim, OpenSession, history
  <2>2. QED
    BY <1>1, <1>3, <2>1, OwnershipKept, LeaseStutters
<1>4. CASE WriteBinding \/ UpgradeClaim \/ CommitLands
  BY <1>1, <1>4, BindingGrants, UpgradeGivesTerm, CommitUnderTerm
<1>5. CASE RemoveClaim
  <2>1. /\ call.task \in Tasks
        /\ \A t \in Tasks : Owned(t)' <=> Owned(t) /\ t # call.task
    BY <1>1, <1>5, OwnershipRemoved
  <2>2. /\ UNCHANGED <<term, landed>>
        /\ \A t \in Tasks : t # call.task => claim'[t] = claim[t]
    BY <1>1, <1>5 DEF RemoveClaim, SetClaim, TypeOK, history
  <2>3. QED
    BY <1>1, <2>1, <2>2, WriteRevokes
<1>6. CASE ReleaseBinding \/ DropBinding
  <2>1. UNCHANGED <<claim, term, landed>>
    BY <1>6 DEF ReleaseBinding, DropBinding, history
  <2>2. CASE \E g \in Tasks : Owned(g) /\ claim[g].session = call.session
    <3>1. PICK g \in Tasks : Owned(g) /\ claim[g].session = call.session
      BY <2>2
    <3>2. ASSUME NEW t \in Tasks, Owned(t), claim[t].session = call.session
          PROVE  t = g
      <4>1. binding[call.session] = [project |-> claim[t].project, task |-> t]
        BY <1>1, <3>2, OwnedByClaim
      <4>2. binding[call.session] = [project |-> claim[g].project, task |-> g]
        BY <1>1, <3>1, OwnedByClaim
      <4>3. QED
        BY <4>1, <4>2
    <3>3. \A t \in Tasks : Owned(t)' <=> Owned(t) /\ t # g
      BY <1>1, <1>6, <3>1, <3>2, OwnershipReleased
    <3>4. QED
      BY <1>1, <2>1, <3>3, WriteRevokes
  <2>3. CASE \A g \in Tasks : Owned(g) => claim[g].session # call.session
    BY <1>1, <1>6, <2>1, <2>3, OwnershipReleased, LeaseStutters
  <2>4. QED
    BY <2>2, <2>3
<1>7. ASSUME NEW s \in Sessions, StrayReads(s) PROVE FALSE
  BY <1>7 DEF StrayReads
<1>8. ASSUME NEW w \in strays, StrayWrites(w) PROVE FALSE
  BY DEF OwnInv
<1>9. \/ \E s \in Sessions : \/ UnbindTask(s) \/ CloseSession(s)
                              \/ CaptureTaskOwnership(s)
                              \/ \E t \in Tasks : BindTask(s, t)
      \/ \E t \in Tasks : ForceRelease(t) \/ FindTaskOwner(t)
      \/ \E f \in fences : CommitUnder(f)
      \/ WriteBindingFails \/ ReturnFence \/ Abandon \/ UNCHANGED vars
      => UNCHANGED <<claim, binding, term, landed>>
  BY DEF UnbindTask, CloseSession, CaptureTaskOwnership, BindTask, ForceRelease,
         FindTaskOwner, CommitUnder, HealThen, Enter, WriteBindingFails,
         ReturnFence, Abandon, files, history, vars
<1>10. QED
  BY <1>2, <1>3, <1>4, <1>5, <1>6, <1>7, <1>8, <1>9 DEF Next, Perform

(* SessionManager implements the task lease, whatever crashes and I/O errors *)
(* fall between its writes, provided no binding is written outside the lock. *)
THEOREM OwnershipIsALease ==
  ASSUME Unlocked = {}
  PROVE  Spec => ImplementsLease
<1>1. Init => OwnInv
  BY OwnInvInit
<1>2. OwnInv /\ [Next]_vars => OwnInv'
  BY OwnInvStep
<1>3. OwnInv /\ [Next]_vars => [Lease!LeaseNext]_(Lease!leaseVars)
  BY LeaseStep
<1>4. QED
  BY <1>1, <1>2, <1>3, LeaseInitially, PTL
     DEF Spec, ImplementsLease, Lease!LeaseSpec

(* The inductive invariant itself.                                           *)
THEOREM OwnershipInvariant ==
  ASSUME Unlocked = {}
  PROVE  Spec => []OwnInv
BY OwnInvInit, OwnInvStep, PTL DEF Spec

-----------------------------------------------------------------------------
(* The order of commits, with unlocked calls at any moment.                  *)

LEMMA RaceInvInit == Init => RaceInv
<1> SUFFICES ASSUME Init PROVE RaceInv
  OBVIOUS
<1>1. TypeOK /\ CallInv
  BY OwnTypingInit DEF Init, CallInv
<1>2. \A t \in Tasks : claim[t] \in Claim => claim[t].token = 0
  BY ValueAssumption DEF Init
<1>3. OrderInv
  BY <1>2 DEF Init, OrderInv, Granting
<1>4. QED
  BY <1>1, <1>3 DEF RaceInv

(* Entering an operation keeps the order: only tokens and the call change.   *)
LEMMA EnterOrder ==
  ASSUME TypeOK, OrderInv, NEW first, NEW then, NEW c, Enter(first, then, c),
         minted' \in Nat, minted <= minted',
         first \in {"create", "fill", "bind", "upgrade"}
           \/ (first = "remove" /\ then = "create")
           => c.task \in Tasks /\ c.token = minted' ,
         first = "commit" => claim[c.task] \in Claim /\ claim[c.task].token = c.token
  PROVE  OrderInv'
<1>1. \A t \in Tasks : claim[t] \in Claim => claim[t].token \in Nat
  BY DEF Claim
<1>2. \A t \in Tasks : landed[t] \in Nat
  BY DEF TypeOK
<1>3. QED
  BY <1>1, <1>2 DEF OrderInv, Enter, Granting, TypeOK

LEMMA EntriesOrder ==
  ASSUME RaceInv, TypeOK',
         \/ \E s \in Sessions : \/ UnbindTask(s) \/ CloseSession(s)
                                \/ CaptureTaskOwnership(s)
                                \/ \E t \in Tasks : BindTask(s, t)
         \/ \E t \in Tasks : ForceRelease(t) \/ FindTaskOwner(t)
         \/ \E f \in fences : CommitUnder(f)
  PROVE  OrderInv'
<1> USE DEF RaceInv
<1>1. ASSUME NEW s \in Sessions, NEW t \in Tasks, BindTask(s, t) PROVE OrderInv'
  <2>1. minted' = minted + 1 /\ minted \in Nat
    BY <1>1 DEF BindTask, TypeOK
  <2> DEFINE c == [session |-> s, project |-> binding[s].project,
                   task |-> t, token |-> minted + 1]
  <2>2. Enter("remove", "create", c) \/ Enter("create", "idle", c)
    BY <1>1 DEF BindTask, HealThen
  <2>3. QED
    BY <2>1, <2>2, EnterOrder
<1>2. ASSUME minted' = minted, NEW first \in {"remove", "unbind", "drop", "fence"},
             NEW then \in {"idle", "unbind", "drop"}, NEW c, Enter(first, then, c)
      PROVE  OrderInv'
  BY <1>2, EnterOrder DEF TypeOK
<1>3. ASSUME NEW s \in Sessions, UnbindTask(s) \/ CloseSession(s) PROVE OrderInv'
  BY <1>2, <1>3 DEF UnbindTask, CloseSession, HealThen
<1>4. ASSUME NEW t \in Tasks, ForceRelease(t) \/ FindTaskOwner(t) PROVE OrderInv'
  BY <1>2, <1>4 DEF ForceRelease, FindTaskOwner
<1>5. ASSUME NEW s \in Sessions, CaptureTaskOwnership(s) PROVE OrderInv'
  <2> DEFINE t == binding[s].task
             c(k) == [session |-> s, project |-> binding[s].project,
                      task |-> t, token |-> k]
  <2>1. t \in Tasks
    BY <1>5 DEF CaptureTaskOwnership, IsBound, TypeOK, Binding
  <2>2. CASE minted' = minted + 1 /\ Enter("upgrade", "idle", c(minted + 1))
    BY <2>1, <2>2, EnterOrder DEF TypeOK
  <2>3. CASE minted' = minted /\ Enter("fence", "idle", c(claim[t].token))
    BY <1>2, <2>3
  <2>4. CASE minted' = minted /\ Enter("remove", "idle", c(0))
    BY <1>2, <2>4
  <2>5. QED
    BY <1>5, <2>2, <2>3, <2>4 DEF CaptureTaskOwnership
<1>6. ASSUME NEW f \in fences, CommitUnder(f) PROVE OrderInv'
  <2>1. f \in Fence /\ Owns(f.session, f.task) /\ claim[f.task].token = f.token
    BY <1>6 DEF CommitUnder, Current, TypeOK
  <2>2. claim[f.task] \in Claim
    BY <2>1 DEF Owns, Fence, TypeOK
  <2>3. QED
    BY <1>6, <2>1, <2>2, EnterOrder DEF CommitUnder, TypeOK
<1>7. QED
  BY <1>1, <1>3, <1>4, <1>5, <1>6

(* Each write keeps the order of tokens and commits.                         *)
LEMMA WritesOrder ==
  ASSUME RaceInv, TypeOK', Perform \/ Abandon
  PROVE  OrderInv'
<1> DEFINE g == call.task
<1> USE ValueAssumption DEF RaceInv, OrderInv, Granting
<1>1. \A t \in Tasks : landed[t] \in Nat /\ (claim[t] \in Claim => claim[t].token \in Nat)
  BY DEF TypeOK, Claim
<1>2. CASE CreateClaim
  <2>1. g \in Tasks /\ Torn \notin Claim
    BY <1>2 DEF CreateClaim, CallInv, Fits, Fence
  <2>2. \A t \in Tasks : claim'[t] = IF t = g THEN Torn ELSE claim[t]
    BY <1>2, <2>1 DEF CreateClaim, SetClaim, TypeOK
  <2>3. QED
    BY <1>2, <2>1, <2>2 DEF CreateClaim, history
<1>3. CASE FillClaim
  <2>1. g \in Tasks
    BY <1>3 DEF FillClaim, CallInv, Fits, Fence
  <2>2. \A t \in Tasks : t # g => claim'[t] = claim[t]
    BY <1>3, <2>1 DEF FillClaim, SetClaim, TypeOK
  <2>3. claim'[g].token = call.token
    BY <1>3, <2>1 DEF FillClaim, SetClaim, TypeOK
  <2>4. QED
    BY <1>3, <2>1, <2>2, <2>3 DEF FillClaim, history
<1>4. CASE RemoveClaim
  <2>1. g \in Tasks /\ NoFile \notin Claim
    BY <1>4 DEF RemoveClaim, CallInv, Fits
  <2>2. \A t \in Tasks : claim'[t] = IF t = g THEN NoFile ELSE claim[t]
    BY <1>4, <2>1 DEF RemoveClaim, SetClaim, TypeOK
  <2>3. after \in {"idle", "create", "unbind", "drop"}
    BY DEF TypeOK
  <2>4. QED
    BY <1>4, <2>1, <2>2, <2>3 DEF RemoveClaim, Finish, history
<1>5. CASE UpgradeClaim
  <2>1. g \in Tasks /\ claim[g] \in Claim
    BY <1>5 DEF UpgradeClaim, CallInv, Fits, Fence
  <2>2. \A t \in Tasks : t # g => claim'[t] = claim[t]
    BY <1>5, <2>1 DEF UpgradeClaim, TypeOK
  <2>3. claim'[g].token = call.token
    BY <1>5, <2>1 DEF UpgradeClaim, TypeOK, Claim
  <2>4. QED
    BY <1>5, <2>1, <2>2, <2>3 DEF UpgradeClaim
<1>6. CASE CommitLands
  <2>1. g \in Tasks /\ claim[g].token = call.token /\ claim[g] \in Claim
    BY <1>6 DEF CommitLands, CallInv, Fits, Fence
  <2>2. \A t \in Tasks : landed'[t] = IF t = g THEN call.token ELSE landed[t]
    BY <1>6, <2>1 DEF CommitLands, TypeOK
  <2>3. QED
    BY <1>1, <1>6, <2>1, <2>2 DEF CommitLands, Finish, files
<1>7. CASE WriteBinding \/ WriteBindingFails \/ ReleaseBinding \/ DropBinding
           \/ ReturnFence \/ Abandon
  BY <1>7 DEF WriteBinding, WriteBindingFails, ReleaseBinding, DropBinding,
     ReturnFence, Abandon, Finish, files, history, CallInv, Fits
<1>8. QED
  BY <1>2, <1>3, <1>4, <1>5, <1>6, <1>7 DEF Perform

LEMMA RaceInvStep == RaceInv /\ [Next]_vars => RaceInv'
<1> SUFFICES ASSUME RaceInv, [Next]_vars PROVE RaceInv'
  OBVIOUS
<1>1. TypeOK' /\ CallInv'
  BY OwnTypingStep DEF RaceInv
<1>2. ASSUME NEW s \in Sessions, OpenSession(s) \/ StrayReads(s) PROVE OrderInv'
  BY <1>2 DEF OpenSession, StrayReads, RaceInv, OrderInv, Granting, files, history
<1>3. ASSUME NEW w \in strays, StrayWrites(w) PROVE OrderInv'
  BY <1>3 DEF StrayWrites, RaceInv, OrderInv, Granting
<1>4. ASSUME UNCHANGED vars PROVE OrderInv'
  BY <1>4 DEF vars, RaceInv, OrderInv, Granting
<1>5. QED
  BY <1>1, <1>2, <1>3, <1>4, EntriesOrder, WritesOrder DEF Next, RaceInv

(* The inductive invariant behind the order of commits.                      *)
THEOREM RaceInvariant == Spec => []RaceInv
BY RaceInvInit, RaceInvStep, PTL DEF Spec

(* A commit never lands after one of a later grant, whatever crashes and     *)
(* whatever bindProject and unbindProject write in the meantime.             *)
THEOREM CommitsInOrder == Spec => LandsInOrder
<1>1. RaceInv /\ [Next]_vars => [\A t \in Tasks : landed[t] <= landed'[t]]_vars
  <2> SUFFICES ASSUME RaceInv, Next PROVE \A t \in Tasks : landed[t] <= landed'[t]
    OBVIOUS
  <2>1. \A t \in Tasks : landed[t] \in Nat
    BY DEF RaceInv, TypeOK
  <2>2. CASE CommitLands
    <3>1. /\ call.task \in Tasks /\ claim[call.task] \in Claim
          /\ claim[call.task].token = call.token
      BY <2>2 DEF CommitLands, RaceInv, OrderInv, CallInv, Fits, Fence
    <3>2. landed[call.task] <= call.token
      BY <3>1 DEF RaceInv, OrderInv
    <3>3. QED
      BY <2>1, <2>2, <3>1, <3>2 DEF CommitLands, RaceInv, TypeOK
  <2>3. CASE landed' = landed
    BY <2>1, <2>3
  <2>4. CommitLands \/ landed' = landed
    BY DEF Next, Perform, OpenSession, StrayReads, UnbindTask, CloseSession,
       CaptureTaskOwnership, BindTask, HealThen, ForceRelease, FindTaskOwner,
       CommitUnder, StrayWrites, Enter, CreateClaim, FillClaim, WriteBinding,
       WriteBindingFails, RemoveClaim, ReleaseBinding, DropBinding, UpgradeClaim,
       ReturnFence, Abandon, history
  <2>5. QED
    BY <2>2, <2>3, <2>4
<1>2. QED
  BY <1>1, RaceInvariant, PTL DEF Spec, LandsInOrder

=============================================================================
